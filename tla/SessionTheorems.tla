-------------------------- MODULE SessionTheorems --------------------------
(***************************************************************************)
(* The theorems about whole sessions in SessionTokens: it implements       *)
(* SessionLifecycle, and no client is taken for a thief that never sent a  *)
(* refresh token twice.                                                    *)
(***************************************************************************)
EXTENDS SessionTokensProofs, FiniteSetTheorems
-----------------------------------------------------------------------------
(* Refinement: the initial state is one of the abstract ones and every     *)
(* step is an abstract step or a stutter.                                  *)

\* The refinement mapping, point by point.
Life(s)    == IF Revoked(s) THEN "ended" ELSE sessions[s].status
Serving(r) == IF req[r].at \in {"reread", "write"} THEN req[r].token.session ELSE None

\* A step that changes no session's stage or owner and no request's session.
LEMMA Stutters ==
  ASSUME \A s \in Sessions : /\ Life(s)' = Life(s)
                             /\ sessions'[s].owner = sessions[s].owner,
         \A r \in Requests : Serving(r)' = Serving(r)
  PROVE  UNCHANGED Lifecycle!vars
BY DEF Lifecycle!vars, Life, Serving

LEMMA Opens ==
  ASSUME NEW s \in Sessions, NEW u \in Users, Life(s) = "absent",
         \A x \in Sessions :
           /\ Life(x)' = IF x = s THEN "live" ELSE Life(x)
           /\ sessions'[x].owner = IF x = s THEN u ELSE sessions[x].owner,
         \A r \in Requests : Serving(r)' = Serving(r)
  PROVE  Lifecycle!Open(s, u)
BY DEF Lifecycle!Open, Life, Serving

LEMMA Ends ==
  ASSUME NEW S \in SUBSET Sessions, \A x \in S : Life(x) = "live",
         \A x \in Sessions :
           /\ Life(x)' = IF x \in S THEN "ended" ELSE Life(x)
           /\ sessions'[x].owner = sessions[x].owner,
         \A r \in Requests : Serving(r)' = Serving(r)
  PROVE  [Lifecycle!Next]_Lifecycle!vars
<1>1. CASE S = {}
  BY <1>1, Stutters
<1>2. CASE S # {}
  <2>1. Lifecycle!End(S)
    BY <1>2 DEF Lifecycle!End, Life, Serving
  <2>2. QED
    BY <2>1 DEF Lifecycle!Next
<1>3. QED
  BY <1>1, <1>2

LEMMA TakesUp ==
  ASSUME NEW r \in Requests, NEW s \in Sessions, Life(s) = "live", Serving(r) = None,
         UNCHANGED sessions,
         \A x \in Requests : Serving(x)' = IF x = r THEN s ELSE Serving(x)
  PROVE  Lifecycle!TakeUp(r, s)
BY DEF Lifecycle!TakeUp, Life, Serving, Revoked

LEMMA Finishes ==
  ASSUME NEW r \in Requests,
         \A s \in Sessions : /\ Life(s)' = Life(s)
                             /\ sessions'[s].owner = sessions[s].owner,
         \A x \in Requests : Serving(x)' = IF x = r THEN None ELSE Serving(x)
  PROVE  [Lifecycle!Next]_Lifecycle!vars
<1>1. CASE Serving(r) = None
  BY <1>1, Stutters
<1>2. CASE Serving(r) # None
  <2>1. Lifecycle!Finish(r)
    BY <1>2 DEF Lifecycle!Finish, Life, Serving
  <2>2. QED
    BY <2>1 DEF Lifecycle!Next
<1>3. QED
  BY <1>1, <1>2

\* Revoking the sessions of a set that are live ends them and no other.
LEMMA Revokes ==
  ASSUME TypeInv, NEW S, NEW reason \in Reasons, RevokeLive(S, reason),
         \A r \in Requests : Serving(r)' = Serving(r)
  PROVE  [Lifecycle!Next]_Lifecycle!vars
<1> DEFINE Q == {x \in Sessions : x \in S /\ Live(x)}
<1>1. ASSUME NEW x \in Sessions
      PROVE  /\ Life(x)' = IF x \in Q THEN "ended" ELSE Life(x)
             /\ sessions'[x].owner = sessions[x].owner
  <2>1. sessions[x] \in Row
    BY DEF TypeInv, TypeOK
  <2>2. CASE x \in Q
    <3>1. sessions'[x] = Revoke(sessions[x], reason)
      BY <2>2 DEF RevokeLive
    <3>2. sessions'[x].status = "revoked" /\ sessions'[x].owner = sessions[x].owner
      BY <2>1, <3>1, RowFields
    <3>3. QED
      BY <2>2, <3>2 DEF Life, Revoked
  <2>3. CASE x \notin Q
    <3>1. sessions'[x] = sessions[x]
      BY <2>3 DEF RevokeLive
    <3>2. QED
      BY <2>3, <3>1 DEF Life, Revoked
  <2>4. QED
    BY <2>2, <2>3
<1>2. \A x \in Q : Life(x) = "live"
  BY DEF Life, Live, Revoked
<1>3. Q \in SUBSET Sessions
  OBVIOUS
<1> HIDE DEF Q
<1>4. QED
  BY <1>1, <1>2, <1>3, Ends

\* Invalidating a session ends it, or leaves it ended.
LEMMA Invalidates ==
  ASSUME TypeInv, NEW s \in Sessions, sessions[s].status # "absent",
         NEW reason \in Reasons, Invalidate(s, reason),
         \A r \in Requests : Serving(r)' = Serving(r)
  PROVE  [Lifecycle!Next]_Lifecycle!vars
<1> DEFINE Q == {x \in {s} : Live(x)}
<1>a. \A x \in Sessions : sessions[x] \in Row
  BY DEF TypeInv, TypeOK
<1>1. ASSUME NEW x \in Sessions
      PROVE  /\ Life(x)' = IF x \in Q THEN "ended" ELSE Life(x)
             /\ sessions'[x].owner = sessions[x].owner
  <2>1. CASE x = s
    <3>1. sessions'[s] = Revoke(sessions[s], reason)
      BY DEF Invalidate, TypeInv, TypeOK
    <3>2. sessions'[s].status = "revoked" /\ sessions'[s].owner = sessions[s].owner
      BY <1>a, <3>1, RowFields
    <3>3. sessions[s].status \in {"live", "revoked"}
      BY <1>a DEF Row
    <3>4. QED
      BY <2>1, <3>2, <3>3 DEF Life, Live, Revoked
  <2>2. CASE x # s
    <3>1. sessions'[x] = sessions[x]
      BY <2>2 DEF Invalidate, TypeInv, TypeOK
    <3>2. QED
      BY <2>2, <3>1 DEF Life, Revoked
  <2>3. QED
    BY <2>1, <2>2
<1>2. \A x \in Q : Life(x) = "live"
  BY DEF Life, Live, Revoked
<1>3. Q \in SUBSET Sessions
  OBVIOUS
<1> HIDE DEF Q
<1>4. QED
  BY <1>1, <1>2, <1>3, Ends

\* A request that becomes idle serves nothing afterwards and the others what they did.
LEMMA ServingIdle ==
  ASSUME TypeInv, NEW r \in Requests, req' = [req EXCEPT ![r] = Idle]
  PROVE  /\ \A x \in Requests : Serving(x)' = IF x = r THEN None ELSE Serving(x)
         /\ req[r].at \notin {"reread", "write"} =>
              \A x \in Requests : Serving(x)' = Serving(x)
BY IdleType DEF TypeInv, TypeOK, Serving

\* A request that waits somewhere new.
LEMMA ServingWaiting ==
  ASSUME TypeInv, NEW r \in Requests, NEW at, NEW t, NEW n, NEW c,
         req' = [req EXCEPT ![r] = Waiting(at, t, n, c)]
  PROVE  \A x \in Requests :
           Serving(x)' = IF x # r THEN Serving(x)
                         ELSE IF at \in {"reread", "write"} THEN t.session ELSE None
<1>1. req'[r].at = at /\ req'[r].token = t
  BY WaitingFields DEF TypeInv, TypeOK
<1>2. QED
  BY <1>1 DEF TypeInv, TypeOK, Serving

LEMMA ServingKept ==
  ASSUME TypeInv, NEW r \in Requests, NEW at, NEW t, NEW n, NEW c,
         req' = [req EXCEPT ![r] = Waiting(at, t, n, c)],
         Serving(r) = IF at \in {"reread", "write"} THEN t.session ELSE None
  PROVE  \A x \in Requests : Serving(x)' = Serving(x)
<1>1. \A x \in Requests :
        Serving(x)' = IF x # r THEN Serving(x)
                      ELSE IF at \in {"reread", "write"} THEN t.session ELSE None
  BY ServingWaiting
<1>2. QED
  BY <1>1

LEMMA StepRefines ==
  TypeInv /\ Belonging /\ [Next]_vars => [Lifecycle!Next]_Lifecycle!vars
<1> SUFFICES ASSUME TypeInv, Belonging, [Next]_vars
             PROVE  [Lifecycle!Next]_Lifecycle!vars
  OBVIOUS
<1>a. tokens \subseteq Token /\ \A s \in Sessions : sessions[s] \in Row
  BY DEF TypeInv, TypeOK
<1>b. {"reuse", "maxRefresh", "logout", "expired", "maxLifetime"} \subseteq Reasons
  BY DEF Reasons
<1>c. ASSUME UNCHANGED sessions
      PROVE  \A s \in Sessions : /\ Life(s)' = Life(s)
                                 /\ sessions'[s].owner = sessions[s].owner
  BY <1>c DEF Life, Revoked
<1>d. ASSUME NEW r \in Requests, req[r].at \in {"overLimit", "logout", "write"}
      PROVE  /\ req[r].token.session \in Sessions
             /\ sessions[req[r].token.session].status # "absent"
  BY <1>a, <1>d DEF Belonging, Belongs, Token
<1>1. ASSUME NEW r \in Requests, NEW u \in Users, NEW s \in Sessions,
             LoginCreateSession(r, u, s)
      PROVE  [Lifecycle!Next]_Lifecycle!vars
  <2>1. sessions'[s].status = "live" /\ sessions'[s].owner = u
    BY <1>1, RowFields DEF LoginCreateSession, TypeInv, TypeOK
  <2>2. \A x \in Sessions : x # s => sessions'[x] = sessions[x]
    BY <1>1 DEF LoginCreateSession, TypeInv, TypeOK
  <2>3. \A x \in Requests : Serving(x)' = Serving(x)
    <3>1. /\ req' = [req EXCEPT ![r] = Waiting("login", None, FirstToken(u, s), 0)]
          /\ Serving(r) = None
      BY <1>1 DEF LoginCreateSession, Serving
    <3>2. QED
      BY <3>1, ServingKept
  <2>4. Life(s) = "absent"
    BY <1>1 DEF LoginCreateSession, Life, Revoked
  <2>5. \A x \in Sessions :
           /\ Life(x)' = IF x = s THEN "live" ELSE Life(x)
           /\ sessions'[x].owner = IF x = s THEN u ELSE sessions[x].owner
    BY <2>1, <2>2 DEF Life, Revoked
  <2>6. Lifecycle!Open(s, u)
    BY <2>3, <2>4, <2>5, Opens
  <2>7. QED
    BY <2>6 DEF Lifecycle!Next
<1>2. ASSUME NEW r \in Requests,
             LoginAnswer(r) \/ RequestFails(r)
      PROVE  [Lifecycle!Next]_Lifecycle!vars
  BY <1>2, <1>c, ServingIdle, Finishes DEF LoginAnswer, RequestFails
<1>3. ASSUME NEW r \in Requests, NEW t \in tokens,
             NEW at \in {"revokeAll", "overLimit"}, Await(r, t, at)
      PROVE  [Lifecycle!Next]_Lifecycle!vars
  <2>1. \A x \in Requests : Serving(x)' = Serving(x)
    <3>1. /\ req' = [req EXCEPT ![r] = Waiting(at, t, None, 0)]
          /\ Serving(r) = None
      BY <1>3 DEF Await, Serving
    <3>2. QED
      BY <3>1, ServingKept
  <2>2. QED
    BY <1>3, <1>c, <2>1, Stutters DEF Await
<1>4. ASSUME NEW r \in Requests, NEW t \in tokens, RefreshAdmit(r, t)
      PROVE  [Lifecycle!Next]_Lifecycle!vars
  <2>1. t.session \in Sessions /\ Life(t.session) = "live" /\ Serving(r) = None
    BY <1>4, <1>a DEF RefreshAdmit, Await, Token, Life, Live, Revoked, Serving
  <2>2. \A x \in Requests : Serving(x)' = IF x = r THEN t.session ELSE Serving(x)
    BY <1>4, ServingWaiting DEF RefreshAdmit, Await
  <2>3. Lifecycle!TakeUp(r, t.session)
    BY <1>4, <2>1, <2>2, TakesUp DEF RefreshAdmit, Await
  <2>4. QED
    BY <2>1, <2>3 DEF Lifecycle!Next
<1>5. ASSUME NEW r \in Requests, RefreshRevokeAll(r)
      PROVE  [Lifecycle!Next]_Lifecycle!vars
  <2> DEFINE S == {x \in Sessions : sessions[x].owner = req[r].token.sub}
  <2>1. RevokeLive(S, "reuse")
    BY <1>5 DEF RefreshRevokeAll, InvalidateAllUserSessions
  <2>2. \A x \in Requests : Serving(x)' = Serving(x)
    BY <1>5, ServingIdle DEF RefreshRevokeAll
  <2> HIDE DEF S
  <2>3. QED
    BY <1>b, <2>1, <2>2, Revokes
<1>6. ASSUME NEW r \in Requests, RefreshInvalidate(r) \/ LogoutInvalidate(r)
      PROVE  [Lifecycle!Next]_Lifecycle!vars
  <2>1. /\ req[r].at \in {"overLimit", "logout"}
        /\ req' = [req EXCEPT ![r] = Idle]
        /\ \E reason \in Reasons : Invalidate(req[r].token.session, reason)
    BY <1>6, <1>b DEF RefreshInvalidate, LogoutInvalidate
  <2>2. \A x \in Requests : Serving(x)' = Serving(x)
    BY <2>1, ServingIdle
  <2>3. QED
    BY <1>d, <2>1, <2>2, Invalidates
<1>7. ASSUME NEW r \in Requests, RefreshReread(r)
      PROVE  [Lifecycle!Next]_Lifecycle!vars
  <2>1. \A x \in Requests : Serving(x)' = Serving(x)
    <3> DEFINE t == req[r].token
               c == sessions[t.session].refreshCount
    <3>1. /\ req' = [req EXCEPT ![r] = Waiting("write", t, NextToken(t), c)]
          /\ Serving(r) = t.session
      BY <1>7 DEF RefreshReread, Serving
    <3> HIDE DEF t, c
    <3>2. QED
      BY <3>1, ServingKept
  <2>2. QED
    BY <1>7, <1>c, <2>1, Stutters DEF RefreshReread
<1>8. ASSUME NEW r \in Requests, RefreshWrite(r)
      PROVE  [Lifecycle!Next]_Lifecycle!vars
  <2> DEFINE s == req[r].token.session
  <2>1. s \in Sessions
    BY <1>8, <1>d DEF RefreshWrite
  <2>2. sessions'[s].status = sessions[s].status /\ sessions'[s].owner = sessions[s].owner
    BY <1>8, <2>1, WriteEffects
  <2>3. \A x \in Sessions : x # s => sessions'[x] = sessions[x]
    BY <1>8 DEF RefreshWrite, TypeInv, TypeOK
  <2> HIDE DEF s
  <2>4. \A x \in Sessions : /\ Life(x)' = Life(x)
                            /\ sessions'[x].owner = sessions[x].owner
    BY <2>2, <2>3 DEF Life, Revoked
  <2>5. QED
    BY <1>8, <2>4, ServingIdle, Finishes DEF RefreshWrite
<1>9. ASSUME NEW r \in Requests, NEW t \in tokens, LogoutFind(r, t)
      PROVE  [Lifecycle!Next]_Lifecycle!vars
  <2>1. \A x \in Requests : Serving(x)' = Serving(x)
    <3>1. /\ req' = [req EXCEPT ![r] = Waiting("logout", t, None, 0)]
          /\ Serving(r) = None
      BY <1>9 DEF LogoutFind, Serving
    <3>2. QED
      BY <3>1, ServingKept
  <2>2. QED
    BY <1>9, <1>c, <2>1, Stutters DEF LogoutFind
<1>10. CASE CleanupExpired
  <2> DEFINE S == {x \in Sessions : sessions[x].expiresAt < clock}
  <2>1. RevokeLive(S, "expired") /\ \A x \in Requests : Serving(x)' = Serving(x)
    BY <1>10 DEF CleanupExpired, Serving
  <2> HIDE DEF S
  <2>2. QED
    BY <1>b, <2>1, Revokes
<1>11. CASE CleanupAbsolute
  <2> DEFINE S == {x \in Sessions : sessions[x].absoluteExpiresAt < clock}
  <2>1. RevokeLive(S, "maxLifetime") /\ \A x \in Requests : Serving(x)' = Serving(x)
    BY <1>11 DEF CleanupAbsolute, Serving
  <2> HIDE DEF S
  <2>2. QED
    BY <1>b, <2>1, Revokes
<1>12. CASE Tick \/ UNCHANGED vars
  <2>1. UNCHANGED <<sessions, req>>
    BY <1>12 DEF Tick, vars
  <2>2. \A x \in Requests : Serving(x)' = Serving(x)
    BY <2>1 DEF Serving
  <2>3. QED
    BY <1>c, <2>1, <2>2, Stutters
<1>13. CASE Restart
  <2>1. UNCHANGED sessions /\ \A x \in Requests : Serving(x)' = None
    BY <1>13, IdleType DEF Restart, Serving
  <2>2. Lifecycle!Crash
    BY <1>c, <2>1 DEF Lifecycle!Crash, Life, Serving
  <2>3. QED
    BY <2>2 DEF Lifecycle!Next
<1>14. QED
  BY <1>1, <1>2, <1>3, <1>4, <1>5, <1>6, <1>7, <1>8, <1>9, <1>10, <1>11, <1>12,
     <1>13, StepCases DEF RefreshDetectReuse, RefreshOverLimit

LEMMA InitRefines == Init => Lifecycle!Init
<1> SUFFICES ASSUME Init PROVE Lifecycle!Init
  OBVIOUS
<1>1. \A s \in Sessions : Life(s) = "absent" /\ sessions[s].owner = None
  BY DEF Init, NoRow, Life, Revoked
<1>2. \A r \in Requests : Serving(r) = None
  BY IdleType DEF Init, Serving
<1>3. QED
  BY <1>1, <1>2 DEF Lifecycle!Init, Life, Serving

\* The component keeps the promises of SessionLifecycle: a session is opened once by
\* one user, ends for good, and a refresh is taken up only while it is live.
THEOREM LifecycleImplemented == Spec => ImplementsLifecycle
<1>1. Spec => Lifecycle!Init /\ [][Lifecycle!Next]_Lifecycle!vars
  BY InitRefines, StepRefines, TypeInvAlways, BelongingAlways, PTL DEF Spec
<1>2. QED
  BY <1>1 DEF ImplementsLifecycle, Lifecycle!Spec
-----------------------------------------------------------------------------
(* Reuse detection.  The argument is one of turns.  As long as no token of *)
(* the owner was sent twice, either one token of a session is waiting to   *)
(* be used, or one request is about to answer with the next one, or        *)
(* neither (a request was lost); and the one that has the turn knows the   *)
(* row's tokenVersion.                                                     *)

\* A token of the session that was never sent.
Unused(t, s) == t \in tokens /\ t \notin presented /\ t.session = s

\* The request will answer with a token of the session.
Busy(r, s) ==
  \/ req[r].at = "login" /\ req[r].next.session = s
  \/ req[r].at \in {"reread", "write"} /\ req[r].token.session = s

\* The version such a request takes the row to have.
Due(r) == IF req[r].at = "login" THEN req[r].next.version ELSE req[r].token.version

Turn(s) ==
  /\ \A t \in Token : Unused(t, s) => t.version = sessions[s].tokenVersion
  /\ \A r \in Requests : Busy(r, s) => Due(r) = sessions[s].tokenVersion
  /\ \A t1, t2 \in Token : Unused(t1, s) /\ Unused(t2, s) => t1 = t2
  /\ \A r1, r2 \in Requests : Busy(r1, s) /\ Busy(r2, s) => r1 = r2
  /\ \A t \in Token, r \in Requests : ~ (Unused(t, s) /\ Busy(r, s))

InTurn ==
  /\ \A s \in Sessions : sessions[s].owner \in replayed \/ Turn(s)
  /\ \A r \in Requests : req[r].at = "revokeAll" => req[r].token.sub \in replayed
  /\ \A s \in Sessions : sessions[s].reason = "reuse" => sessions[s].owner \in replayed

\* A step that hands the turn to nobody keeps it in order.
LEMMA TurnKept ==
  ASSUME NEW s \in Sessions, Turn(s),
         sessions'[s].tokenVersion = sessions[s].tokenVersion,
         \A t \in Token : Unused(t, s)' => Unused(t, s),
         \A r \in Requests : Busy(r, s)' => Busy(r, s) /\ Due(r)' = Due(r)
  PROVE  Turn(s)'
<1> DEFINE v == sessions[s].tokenVersion
<1>1. \A t \in Token : Unused(t, s) => t.version = v
  BY DEF Turn
<1>2. \A r \in Requests : Busy(r, s) => Due(r) = v
  BY DEF Turn
<1>3. /\ \A t1, t2 \in Token : Unused(t1, s) /\ Unused(t2, s) => t1 = t2
      /\ \A r1, r2 \in Requests : Busy(r1, s) /\ Busy(r2, s) => r1 = r2
      /\ \A t \in Token, r \in Requests : ~ (Unused(t, s) /\ Busy(r, s))
  BY DEF Turn
<1>4. v' = v
  OBVIOUS
<1> HIDE DEF v
<1>5. /\ \A t \in Token : Unused(t, s)' => t.version = v'
      /\ \A r \in Requests : Busy(r, s)' => Due(r)' = v'
  BY <1>1, <1>2, <1>4
<1>6. /\ \A t1, t2 \in Token : Unused(t1, s)' /\ Unused(t2, s)' => t1 = t2
      /\ \A r1, r2 \in Requests : Busy(r1, s)' /\ Busy(r2, s)' => r1 = r2
      /\ \A t \in Token, r \in Requests : ~ (Unused(t, s)' /\ Busy(r, s)')
  BY <1>3
<1>7. QED
  BY <1>5, <1>6 DEF Turn, v

\* A request whose turn it is passes it to the token it answers with.
LEMMA TurnPassed ==
  ASSUME TypeInv, NEW s \in Sessions, Turn(s), NEW r \in Requests, Busy(r, s),
         req[r].next.session = s,
         req[r].next.version = sessions'[s].tokenVersion,
         tokens' \in {tokens, tokens \cup {req[r].next}}, presented' = presented,
         req' = [req EXCEPT ![r] = Idle]
  PROVE  Turn(s)'
<1> DEFINE n == req[r].next
<1>1. \A t \in Token : ~ Unused(t, s)
  BY DEF Turn
<1>2. \A x \in Requests : Busy(x, s) => x = r
  BY DEF Turn
<1>3. req \in [Requests -> Request]
  BY DEF TypeInv, TypeOK
<1>4. \A x \in Requests : ~ Busy(x, s)'
  <2>1. ~ Busy(r, s)'
    BY <1>3, IdleType DEF Busy
  <2>2. \A x \in Requests : x # r => (Busy(x, s)' => Busy(x, s))
    BY <1>3 DEF Busy
  <2>3. QED
    BY <1>2, <2>1, <2>2
<1> HIDE DEF n
<1>5. \A t \in Token : Unused(t, s)' => t = n
  BY <1>1 DEF Unused, n
<1>6. n.version = sessions'[s].tokenVersion
  BY DEF n
<1>7. /\ \A t \in Token : Unused(t, s)' => t.version = sessions'[s].tokenVersion
      /\ \A t1, t2 \in Token : Unused(t1, s)' /\ Unused(t2, s)' => t1 = t2
  BY <1>5, <1>6
<1>8. QED
  BY <1>4, <1>7 DEF Turn

\* What was sent stays sent, and only a refresh sends a token.
LEMMA PresentedEffects ==
  ASSUME [Next]_vars
  PROVE  \/ UNCHANGED <<presented, replayed>>
         \/ \E t \in tokens : Present(t)
<1>1. ASSUME NEW r \in Requests,
             \/ LoginAnswer(r) \/ RefreshRevokeAll(r) \/ RefreshInvalidate(r)
             \/ RefreshReread(r) \/ RefreshWrite(r) \/ LogoutInvalidate(r)
             \/ RequestFails(r)
      PROVE  UNCHANGED <<presented, replayed>>
  BY <1>1 DEF LoginAnswer, RefreshRevokeAll, RefreshInvalidate, RefreshReread,
              RefreshWrite, LogoutInvalidate, RequestFails, history
<1>2. ASSUME NEW r \in Requests, NEW t \in tokens,
             RefreshDetectReuse(r, t) \/ RefreshOverLimit(r, t) \/ RefreshAdmit(r, t)
      PROVE  Present(t)
  BY <1>2 DEF RefreshDetectReuse, RefreshOverLimit, RefreshAdmit, Await
<1>3. ASSUME NEW r \in Requests, NEW t \in tokens, LogoutFind(r, t)
      PROVE  UNCHANGED <<presented, replayed>>
  BY <1>3 DEF LogoutFind, history
<1>4. ASSUME NEW r \in Requests, NEW u \in Users, NEW s \in Sessions,
             LoginCreateSession(r, u, s)
      PROVE  UNCHANGED <<presented, replayed>>
  BY <1>4 DEF LoginCreateSession, history
<1>5. CASE CleanupExpired \/ CleanupAbsolute \/ Tick \/ Restart \/ UNCHANGED vars
  BY <1>5 DEF CleanupExpired, CleanupAbsolute, Tick, Restart, vars, history
<1>6. QED
  BY <1>1, <1>2, <1>3, <1>4, <1>5, StepCases

LEMMA PresentedGrows ==
  ASSUME [Next]_vars
  PROVE  presented \subseteq presented' /\ replayed \subseteq replayed'
BY PresentedEffects DEF Present

\* A login that creates the session gives it the first turn.
LEMMA TurnOpens ==
  ASSUME TypeInv, Belonging, NEW s \in Sessions, NEW r \in Requests, NEW u \in Users,
         LoginCreateSession(r, u, s)
  PROVE  Turn(s)'
<1>1. /\ sessions[s].status = "absent"
      /\ sessions'[s] = NewRow(u, s)
      /\ tokens' = tokens
      /\ req' = [req EXCEPT ![r] = Waiting("login", None, FirstToken(u, s), 0)]
  BY DEF LoginCreateSession, TypeInv, TypeOK
<1>2. \A t \in Token : ~ Unused(t, s)'
  BY <1>1 DEF Unused, Belonging, Belongs
<1>3. ASSUME NEW x \in Requests, x # r PROVE ~ Busy(x, s)'
  <2>1. req'[x] = req[x]
    BY <1>1, <1>3 DEF TypeInv, TypeOK
  <2>2. ~ Busy(x, s)
    BY <1>1 DEF Busy, Belonging, Belongs
  <2>3. QED
    BY <2>1, <2>2 DEF Busy
<1>4. /\ req'[r].at = "login" /\ req'[r].next = FirstToken(u, s)
  BY <1>1, WaitingFields DEF TypeInv, TypeOK
<1>5. Due(r)' = sessions'[s].tokenVersion
  <2>1. FirstToken(u, s).version = 1
    BY DEF FirstToken
  <2>2. NewRow(u, s).tokenVersion = 1
    BY RowFields
  <2>3. QED
    BY <1>1, <1>4, <2>1, <2>2 DEF Due
<1>6. QED
  BY <1>2, <1>3, <1>5 DEF Turn

\* A request that is admitted takes the turn from the token it was sent.
LEMMA TurnTaken ==
  ASSUME TypeInv, Belonging, NEW s \in Sessions, Turn(s), NEW r \in Requests,
         NEW t \in tokens, RefreshAdmit(r, t), t.session = s,
         sessions[s].owner \notin replayed'
  PROVE  Turn(s)'
<1>1. /\ t \in Token
      /\ sessions[s].owner = t.sub
      /\ sessions[s].tokenVersion = t.version
  BY DEF TypeInv, TypeOK, Belonging, Belongs, RefreshAdmit, Mismatch
<1>2. /\ req' = [req EXCEPT ![r] = Waiting("reread", t, None, 0)]
      /\ presented' = presented \cup {t}
      /\ t \in presented => t.sub \in replayed'
      /\ UNCHANGED <<sessions, tokens>>
  BY DEF RefreshAdmit, Await, Present
<1>3. Unused(t, s)
  BY <1>1, <1>2 DEF Unused
<1>4. \A x \in Token : ~ Unused(x, s)'
  <2>1. \A x \in Token : Unused(x, s) => x = t
    BY <1>1, <1>3 DEF Turn
  <2>2. QED
    BY <1>2, <2>1 DEF Unused
<1>5. ASSUME NEW x \in Requests, x # r PROVE ~ Busy(x, s)'
  <2>1. ~ Busy(x, s)
    BY <1>1, <1>3 DEF Turn
  <2>2. req'[x] = req[x]
    BY <1>2, <1>5 DEF TypeInv, TypeOK
  <2>3. QED
    BY <2>1, <2>2 DEF Busy
<1>6. req'[r].at = "reread" /\ req'[r].token = t
  BY <1>2, WaitingFields DEF TypeInv, TypeOK
<1>7. Due(r)' = sessions'[s].tokenVersion
  BY <1>1, <1>2, <1>6 DEF Due
<1>8. QED
  BY <1>4, <1>5, <1>7 DEF Turn

\* The turn is kept, passed or taken by every step of an honest owner's session.
LEMMA TurnStep ==
  ASSUME TypeInv, Belonging, [Next]_vars, NEW s \in Sessions, Turn(s),
         sessions[s].owner \notin replayed'
  PROVE  Turn(s)'
<1>a. tokens \subseteq Token /\ sessions[s] \in Row
  BY DEF TypeInv, TypeOK
<1>1. CASE \E r \in Requests, u \in Users : LoginCreateSession(r, u, s)
  BY <1>1, TurnOpens
<1>2. CASE \E r \in Requests, t \in tokens : RefreshAdmit(r, t) /\ t.session = s
  BY <1>2, TurnTaken
<1>3. ASSUME NEW r \in Requests, LoginAnswer(r), req[r].next.session = s
      PROVE  Turn(s)'
  <2>1. Busy(r, s) /\ req[r].next.version = sessions[s].tokenVersion
    BY <1>3 DEF LoginAnswer, Busy, Due, Turn
  <2>2. QED
    BY <1>3, <2>1, TurnPassed DEF LoginAnswer, history
<1>4. ASSUME NEW r \in Requests, RefreshWrite(r), req[r].next.session = s
      PROVE  Turn(s)'
  <2>1. /\ req[r].token.session = s
        /\ req[r].next.version = req[r].token.version + 1
    BY <1>4 DEF RefreshWrite, TypeInv, Stage
  <2>2. sessions'[s].tokenVersion = req[r].token.version + 1
    BY <1>4, <2>1, WriteEffects
  <2>3. Busy(r, s)
    BY <1>4, <2>1 DEF RefreshWrite, Busy
  <2>4. QED
    BY <1>4, <2>1, <2>2, <2>3, TurnPassed DEF RefreshWrite
<1>5. ASSUME ~ \E r \in Requests, u \in Users : LoginCreateSession(r, u, s),
             ~ \E r \in Requests, t \in tokens : RefreshAdmit(r, t) /\ t.session = s,
             \A r \in Requests : LoginAnswer(r) \/ RefreshWrite(r) => req[r].next.session # s
      PROVE  Turn(s)'
  <2>1. sessions'[s].tokenVersion = sessions[s].tokenVersion
    <3>1. ASSUME NEW r \in Requests, RefreshWrite(r), req[r].token.session = s
          PROVE  FALSE
      BY <1>5, <3>1 DEF RefreshWrite, TypeInv, Stage
    <3>2. ASSUME NEW reason \in Reasons, sessions'[s] = Revoke(sessions[s], reason)
          PROVE  sessions'[s].tokenVersion = sessions[s].tokenVersion
      BY <1>a, <3>2, RowFields
    <3>3. QED
      BY <1>5, <3>1, <3>2, RowEffects
  <2>2. ASSUME NEW t \in Token, Unused(t, s)' PROVE Unused(t, s)
    <3>1. t \notin presented
      BY <2>2, PresentedGrows DEF Unused
    <3>2. t \in tokens
      BY <1>5, <2>2, TokensEffects DEF Unused
    <3>3. QED
      BY <2>2, <3>1, <3>2 DEF Unused
  <2>3. ASSUME NEW r \in Requests, Busy(r, s)' PROVE Busy(r, s) /\ Due(r)' = Due(r)
    <3>1. CASE req'[r] = req[r]
      BY <2>3, <3>1 DEF Busy, Due
    <3>2. CASE req'[r] = Idle
      BY <2>3, <3>2, IdleType DEF Busy
    <3>3. ASSUME NEW u \in Users, NEW x \in Sessions, LoginCreateSession(r, u, x),
                 req'[r] = Waiting("login", None, FirstToken(u, x), 0)
          PROVE  FALSE
      <4>1. req'[r].at = "login" /\ req'[r].next.session = x
        BY <3>3, WaitingFields DEF FirstToken
      <4>2. QED
        BY <1>5, <2>3, <3>3, <4>1 DEF Busy
    <3>4. ASSUME NEW t, NEW at \in {"revokeAll", "overLimit", "logout"},
                 req'[r] = Waiting(at, t, None, 0)
          PROVE  FALSE
      <4>1. req'[r].at = at
        BY <3>4, WaitingFields
      <4>2. QED
        BY <2>3, <4>1 DEF Busy
    <3>5. ASSUME NEW t \in tokens, RefreshAdmit(r, t),
                 req'[r] = Waiting("reread", t, None, 0)
          PROVE  FALSE
      <4>1. req'[r].at = "reread" /\ req'[r].token = t
        BY <3>5, WaitingFields
      <4>2. QED
        BY <1>5, <2>3, <3>5, <4>1 DEF Busy
    <3>6. ASSUME RefreshReread(r), NEW n, NEW c,
                 req'[r] = Waiting("write", req[r].token, n, c)
          PROVE  Busy(r, s) /\ Due(r)' = Due(r)
      <4>1. req'[r].at = "write" /\ req'[r].token = req[r].token
        BY <3>6, WaitingFields
      <4>2. req[r].at = "reread"
        BY <3>6 DEF RefreshReread
      <4>3. QED
        BY <2>3, <4>1, <4>2 DEF Busy, Due
    <3>7. QED
      BY <3>1, <3>2, <3>3, <3>4, <3>5, <3>6, RequestEffects
  <2>4. QED
    BY <2>1, <2>2, <2>3, TurnKept
<1>6. QED
  BY <1>1, <1>2, <1>3, <1>4, <1>5

LEMMA InTurnInductive ==
  TypeInv /\ Belonging /\ InTurn /\ [Next]_vars => InTurn'
<1> SUFFICES ASSUME TypeInv, Belonging, InTurn, [Next]_vars PROVE InTurn'
  OBVIOUS
<1>a. tokens \subseteq Token /\ \A s \in Sessions : sessions[s] \in Row
  BY DEF TypeInv, TypeOK
<1>1. ASSUME NEW s \in Sessions
      PROVE  sessions'[s].owner \in replayed' \/ Turn(s)'
  <2>1. CASE \E r \in Requests, u \in Users : LoginCreateSession(r, u, s)
    BY <2>1, TurnOpens
  <2>2. CASE ~ \E r \in Requests, u \in Users : LoginCreateSession(r, u, s)
    <3>1. sessions'[s].owner = sessions[s].owner
      <4>1. ASSUME NEW reason \in Reasons, sessions'[s] = Revoke(sessions[s], reason)
            PROVE  sessions'[s].owner = sessions[s].owner
        BY <1>a, <4>1, RowFields
      <4>2. QED
        BY <2>2, <4>1, RowEffects, WriteEffects
    <3>2. CASE sessions[s].owner \in replayed'
      BY <3>1, <3>2
    <3>3. CASE sessions[s].owner \notin replayed'
      BY <3>3, PresentedGrows, TurnStep DEF InTurn
    <3>4. QED
      BY <3>2, <3>3
  <2>3. QED
    BY <2>1, <2>2
<1>2. ASSUME NEW r \in Requests, req'[r].at = "revokeAll"
      PROVE  req'[r].token.sub \in replayed'
  <2>1. CASE req'[r] = req[r]
    BY <1>2, <2>1, PresentedGrows DEF InTurn
  <2>2. ASSUME NEW t \in tokens, RefreshDetectReuse(r, t),
               req'[r] = Waiting("revokeAll", t, None, 0)
        PROVE  req'[r].token.sub \in replayed'
    <3>1. /\ t \in Token /\ t.session \in Sessions
          /\ sessions[t.session].owner = t.sub
          /\ sessions[t.session].family = t.family
      BY <1>a DEF Belonging, Belongs, Token
    <3>2. Present(t) /\ sessions[t.session].tokenVersion # t.version
      BY <2>2, <3>1 DEF RefreshDetectReuse, Mismatch, Await
    <3>3. CASE t \in presented
      BY <2>2, <3>2, <3>3, WaitingFields DEF Present
    <3>4. CASE t \notin presented
      <4>1. ~ Turn(t.session)
        BY <3>1, <3>2, <3>4 DEF Turn, Unused
      <4>2. t.sub \in replayed
        BY <3>1, <4>1 DEF InTurn
      <4>3. QED
        BY <2>2, <4>2, PresentedGrows, WaitingFields
    <3>5. QED
      BY <3>3, <3>4
  <2>3. CASE req'[r] = Idle
    BY <1>2, <2>3, IdleType
  <2>4. ASSUME NEW t, NEW n, NEW c,
               NEW at \in {"login", "overLimit", "reread", "write", "logout"},
               req'[r] = Waiting(at, t, n, c)
        PROVE  FALSE
    BY <1>2, <2>4, WaitingFields
  <2>5. QED
    BY <2>1, <2>2, <2>3, <2>4, RequestEffects
<1>3. ASSUME NEW s \in Sessions, sessions'[s].reason = "reuse"
      PROVE  sessions'[s].owner \in replayed'
  <2>1. CASE sessions'[s] = sessions[s]
    BY <1>3, <2>1, PresentedGrows DEF InTurn
  <2>2. ASSUME NEW u \in Users, sessions'[s] = NewRow(u, s) PROVE FALSE
    BY <1>3, <2>2, RowFields
  <2>3. ASSUME NEW reason \in Reasons, RevokesFor(s, reason),
               sessions'[s] = Revoke(sessions[s], reason)
        PROVE  sessions'[s].owner \in replayed'
    <3>1. sessions'[s].reason = reason /\ sessions'[s].owner = sessions[s].owner
      BY <1>a, <2>3, RowFields
    <3>2. PICK r \in Requests : /\ RefreshRevokeAll(r)
                                /\ sessions[s].owner = req[r].token.sub
      BY <1>3, <2>3, <3>1 DEF RevokesFor
    <3>3. req[r].token.sub \in replayed
      BY <3>2 DEF RefreshRevokeAll, InTurn
    <3>4. QED
      BY <3>1, <3>2, <3>3, PresentedGrows
  <2>4. ASSUME NEW r \in Requests, RefreshWrite(r), req[r].token.session = s
        PROVE  sessions'[s].owner \in replayed'
    <3>1. /\ sessions'[s].reason = sessions[s].reason
          /\ sessions'[s].owner = sessions[s].owner
      BY <2>4, WriteEffects
    <3>2. QED
      BY <1>3, <3>1, PresentedGrows DEF InTurn
  <2>5. QED
    BY <2>1, <2>2, <2>3, <2>4, RowEffects
<1>4. QED
  BY <1>1, <1>2, <1>3 DEF InTurn

LEMMA InTurnInitially == Init => InTurn
<1> SUFFICES ASSUME Init PROVE InTurn
  OBVIOUS
<1>1. \A r \in Requests : req[r].at = "idle"
  BY IdleType DEF Init
<1>2. \A s \in Sessions : Turn(s) /\ sessions[s].reason = "none"
  BY <1>1 DEF Init, NoRow, Turn, Unused, Busy
<1>3. QED
  BY <1>1, <1>2 DEF InTurn

\* However refreshes, logins, logouts, failures and restarts interleave, a session
\* is revoked for token reuse only if its owner sent a refresh token twice.
THEOREM ReuseJustified == Spec => []ReuseRevocationJustified
<1>1. InTurn => ReuseRevocationJustified
  BY DEF InTurn, ReuseRevocationJustified
<1>2. Spec => []InTurn
  BY InTurnInitially, InTurnInductive, TypeInvAlways, BelongingAlways, PTL DEF Spec
<1>3. QED
  BY <1>1, <1>2, PTL
-----------------------------------------------------------------------------
(* The counter.                                                            *)

\* A row that does not exist yet is blank.
Pristine ==
  \A s \in Sessions :
    sessions[s].status = "absent" => sessions[s].refreshCount = 0 /\ rotated[s] = 0

LEMMA PristineInductive ==
  TypeInv /\ Belonging /\ Pristine /\ [Next]_vars => Pristine'
<1> SUFFICES ASSUME TypeInv, Belonging, Pristine, [Next]_vars,
                    NEW s \in Sessions, sessions'[s].status = "absent"
             PROVE  sessions'[s].refreshCount = 0 /\ rotated'[s] = 0
  BY DEF Pristine
<1>1. sessions[s] \in Row /\ rotated \in [Sessions -> Nat] /\ tokens \subseteq Token
  BY DEF TypeInv, TypeOK
<1>2. ASSUME NEW r \in Requests, RefreshWrite(r)
      PROVE  /\ req[r].token.session \in Sessions
             /\ sessions[req[r].token.session].status # "absent"
  BY <1>1, <1>2 DEF RefreshWrite, Token, Belonging, Belongs
<1>3. ASSUME NEW r \in Requests, RefreshWrite(r), req[r].token.session = s
      PROVE  FALSE
  BY <1>2, <1>3, WriteEffects
<1>4. ASSUME NEW u \in Users, sessions'[s] = NewRow(u, s) PROVE FALSE
  BY <1>4, RowFields
<1>5. ASSUME NEW reason \in Reasons, sessions'[s] = Revoke(sessions[s], reason) PROVE FALSE
  BY <1>1, <1>5, RowFields
<1>6. sessions'[s] = sessions[s]
  BY <1>3, <1>4, <1>5, RowEffects
<1>7. rotated'[s] = rotated[s]
  BY <1>1, <1>2, <1>6, RotatedEffects
<1>8. QED
  BY <1>6, <1>7 DEF Pristine

\* The counter of an honest owner's session is exact, and a request that was
\* admitted below the limit still sees what it saw.
Exact(s) ==
  /\ sessions[s].refreshCount = rotated[s]
  /\ rotated[s] <= MaxRefreshCount
  /\ \A r \in Requests :
       req[r].at \in {"reread", "write"} /\ req[r].token.session = s =>
         /\ rotated[s] < MaxRefreshCount
         /\ req[r].at = "write" => req[r].count = rotated[s]

Exactness == \A s \in Sessions : sessions[s].owner \in replayed \/ Exact(s)

LEMMA ExactStep ==
  ASSUME TypeInv, Belonging, [Next]_vars, NEW s \in Sessions, Turn(s), Exact(s),
         sessions[s].status # "absent"
  PROVE  Exact(s)'
<1>a. /\ sessions[s] \in Row /\ rotated \in [Sessions -> Nat] /\ tokens \subseteq Token
      /\ req \in [Requests -> Request] /\ rotated[s] \in Nat
  BY DEF TypeInv, TypeOK
<1>b. MaxRefreshCount \in Nat
  BY Lifetimes
<1>1. ASSUME NEW r \in Requests, RefreshWrite(r), req[r].token.session = s
      PROVE  Exact(s)'
  <2>1. req[r].at = "write" /\ Busy(r, s) /\ req[r].count \in Nat
    BY <1>1 DEF RefreshWrite, Busy, TypeInv, TypeOK, Request
  <2>2. req[r].count = rotated[s] /\ rotated[s] < MaxRefreshCount
    BY <1>1, <2>1 DEF Exact
  <2>3. sessions'[s].refreshCount = req[r].count + 1
    BY <1>1, WriteEffects
  <2>4. rotated'[s] = rotated[s] + 1
    BY <1>1, <1>a DEF RefreshWrite
  <2>5. ASSUME NEW x \in Requests, req'[x].at \in {"reread", "write"},
               req'[x].token.session = s
        PROVE  FALSE
    <3>1. x # r /\ req'[x] = req[x]
      BY <1>1, <1>a, <2>5, IdleType DEF RefreshWrite
    <3>2. Busy(x, s)
      BY <2>5, <3>1 DEF Busy
    <3>3. QED
      BY <2>1, <3>1, <3>2 DEF Turn
  <2>6. QED
    BY <1>a, <1>b, <2>1, <2>2, <2>3, <2>4, <2>5 DEF Exact
<1>2. ASSUME \A r \in Requests : RefreshWrite(r) => req[r].token.session # s
      PROVE  Exact(s)'
  <2>1. rotated'[s] = rotated[s]
    BY <1>2, <1>a, RotatedEffects
  <2>2. sessions'[s].refreshCount = sessions[s].refreshCount
    <3>1. ASSUME NEW reason \in Reasons, sessions'[s] = Revoke(sessions[s], reason)
          PROVE  sessions'[s].refreshCount = sessions[s].refreshCount
      BY <1>a, <3>1, RowFields
    <3>2. QED
      BY <1>2, <3>1, RowEffects
  <2>3. ASSUME NEW r \in Requests, req'[r].at \in {"reread", "write"},
               req'[r].token.session = s
        PROVE  /\ rotated[s] < MaxRefreshCount
               /\ req'[r].at = "write" => req'[r].count = rotated[s]
    <3>1. CASE req'[r] = req[r]
      BY <2>3, <3>1 DEF Exact
    <3>2. CASE req'[r] = Idle
      BY <2>3, <3>2, IdleType
    <3>3. ASSUME NEW t, NEW n, NEW at \in {"login", "revokeAll", "overLimit", "logout"},
                 req'[r] = Waiting(at, t, n, 0)
          PROVE  FALSE
      <4>1. req'[r].at = at
        BY <3>3, WaitingFields
      <4>2. QED
        BY <2>3, <4>1
    <3>4. ASSUME NEW t \in tokens, RefreshAdmit(r, t),
                 req'[r] = Waiting("reread", t, None, 0)
          PROVE  rotated[s] < MaxRefreshCount /\ req'[r].at = "reread"
      <4>1. req'[r].at = "reread" /\ t.session = s
        BY <2>3, <3>4, WaitingFields
      <4>2. sessions[s].refreshCount < MaxRefreshCount
        BY <3>4, <4>1 DEF RefreshAdmit
      <4>3. QED
        BY <4>1, <4>2 DEF Exact
    <3>5. ASSUME RefreshReread(r), NEW n,
                 req'[r] = Waiting("write", req[r].token, n,
                                   sessions[req[r].token.session].refreshCount)
          PROVE  rotated[s] < MaxRefreshCount /\ req'[r].count = rotated[s]
      <4>1. /\ req[r].at = "reread" /\ req[r].token.session = s
            /\ req'[r].count = sessions[s].refreshCount
        BY <2>3, <3>5, WaitingFields DEF RefreshReread
      <4>2. QED
        BY <4>1 DEF Exact
    <3>6. QED
      BY <3>1, <3>2, <3>3, <3>4, <3>5, RequestEffects
  <2>4. QED
    BY <2>1, <2>2, <2>3 DEF Exact
<1>3. QED
  BY <1>1, <1>2

LEMMA ExactnessInductive ==
  TypeInv /\ Belonging /\ InTurn /\ Pristine /\ Exactness /\ [Next]_vars => Exactness'
<1> SUFFICES ASSUME TypeInv, Belonging, InTurn, Pristine, Exactness, [Next]_vars,
                    NEW s \in Sessions, sessions'[s].owner \notin replayed'
             PROVE  Exact(s)'
  BY DEF Exactness
<1>a. MaxRefreshCount \in Nat /\ rotated \in [Sessions -> Nat] /\ tokens \subseteq Token
  BY Lifetimes DEF TypeInv, TypeOK
<1>1. CASE sessions[s].status # "absent"
  <2>1. sessions[s].owner \notin replayed
    BY <1>1, RowsKeep, PresentedGrows
  <2>2. Turn(s) /\ Exact(s)
    BY <2>1 DEF InTurn, Exactness
  <2>3. QED
    BY <1>1, <2>2, ExactStep
<1>2. CASE sessions[s].status = "absent"
  <2>1. sessions[s].refreshCount = 0 /\ rotated[s] = 0
    BY <1>2 DEF Pristine
  <2>2. ASSUME NEW r \in Requests, req[r].at \in {"reread", "write", "overLimit", "logout"}
        PROVE  req[r].token.session # s
    BY <1>2, <2>2 DEF Belonging, Belongs
  <2>3. rotated'[s] = 0
    BY <1>a, <2>1, <2>2, RotatedEffects DEF RefreshWrite
  <2>4. sessions'[s].refreshCount = 0
    <3>1. ASSUME NEW u \in Users, sessions'[s] = NewRow(u, s)
          PROVE  sessions'[s].refreshCount = 0
      BY <3>1, RowFields
    <3>2. ASSUME NEW reason \in Reasons, sessions'[s] = Revoke(sessions[s], reason)
          PROVE  sessions'[s].refreshCount = 0
      BY <2>1, <3>2, RowFields DEF TypeInv, TypeOK
    <3>3. ASSUME NEW r \in Requests, RefreshWrite(r), req[r].token.session = s PROVE FALSE
      BY <2>2, <3>3 DEF RefreshWrite
    <3>4. QED
      BY <2>1, <3>1, <3>2, <3>3, RowEffects
  <2>5. ASSUME NEW r \in Requests, req'[r].at \in {"reread", "write"}
        PROVE  req'[r].token.session # s
    <3>1. CASE req'[r] = req[r]
      BY <2>2, <2>5, <3>1
    <3>2. ASSUME NEW t \in tokens, NEW at, req'[r] = Waiting(at, t, None, 0)
          PROVE  req'[r].token.session # s
      BY <1>2, <3>2, WaitingFields DEF Belonging, Belongs
    <3>3. ASSUME RefreshReread(r), NEW n, NEW c,
                 req'[r] = Waiting("write", req[r].token, n, c)
          PROVE  req'[r].token.session # s
      BY <2>2, <3>3, WaitingFields DEF RefreshReread
    <3>4. ASSUME req'[r] = Idle \/ \E n : req'[r] = Waiting("login", None, n, 0)
          PROVE  FALSE
      BY <2>5, <3>4, IdleType, WaitingFields
    <3>5. QED
      BY <3>1, <3>2, <3>3, <3>4, RequestEffects
  <2>6. QED
    BY <1>a, <2>3, <2>4, <2>5 DEF Exact
<1>3. QED
  BY <1>1, <1>2

\* For a user who never sent a refresh token twice the counter of each session is
\* the number of its rotations, and it never passes the limit.
THEOREM CountExact == Spec => []CountExactUntilReplay
<1>1. Init => Pristine /\ Exactness
  <2> SUFFICES ASSUME Init PROVE Pristine /\ Exactness
    OBVIOUS
  <2>1. MaxRefreshCount \in Nat /\ \A r \in Requests : req[r].at = "idle"
    BY Lifetimes, IdleType DEF Init
  <2>2. \A s \in Sessions : sessions[s].refreshCount = 0 /\ rotated[s] = 0
    BY DEF Init, NoRow
  <2>3. QED
    BY <2>1, <2>2 DEF Pristine, Exactness, Exact
<1>2. Exactness => CountExactUntilReplay
  BY DEF Exactness, Exact, CountExactUntilReplay
<1>3. Spec => []InTurn
  BY InTurnInitially, InTurnInductive, TypeInvAlways, BelongingAlways, PTL DEF Spec
<1>4. Spec => []Pristine
  BY <1>1, PristineInductive, TypeInvAlways, BelongingAlways, PTL DEF Spec
<1>5. QED
  BY <1>1, <1>2, <1>3, <1>4, ExactnessInductive, TypeInvAlways, BelongingAlways, PTL DEF Spec
-----------------------------------------------------------------------------
(* Refreshes that do not overlap.                                          *)

\* Each rotation of s used a token of its own: the one of the version the row had.
OneEach(s) ==
  /\ sessions[s].status = "absent" => rotated[s] = 0
  /\ sessions[s].status # "absent" => sessions[s].tokenVersion = rotated[s] + 1
  /\ \A v \in 1..rotated[s] : \E t \in presented : t.session = s /\ t.version = v
  /\ \A r \in Requests :
       Refreshing(r, s) => /\ req[r].token \in presented
                           /\ req[r].token.version = sessions[s].tokenVersion

OneToken == IsFiniteSet(presented) /\ \A s \in Sessions : OneEach(s)

\* A request that refreshes s did so before, or has just found its token to be of the
\* row's version.
LEMMA RefreshingEffects ==
  ASSUME TypeInv, Belonging, [Next]_vars, NEW s \in Sessions, NEW r \in Requests,
         Refreshing(r, s)'
  PROVE  \/ Refreshing(r, s) /\ req'[r].token = req[r].token
         \/ /\ req'[r].token \in presented' /\ sessions[s].status # "absent"
            /\ req'[r].token.version = sessions[s].tokenVersion
            /\ sessions'[s] = sessions[s]
<1>1. req'[r].at \in {"reread", "write"} /\ req'[r].token.session = s
  BY DEF Refreshing
<1>2. CASE req'[r] = req[r]
  BY <1>1, <1>2 DEF Refreshing
<1>3. CASE req'[r] = Idle
  BY <1>1, <1>3, IdleType
<1>4. ASSUME NEW t, NEW n, NEW at \in {"login", "revokeAll", "overLimit", "logout"},
             req'[r] = Waiting(at, t, n, 0)
      PROVE  FALSE
  <2>1. req'[r].at = at
    BY <1>4, WaitingFields
  <2> QED BY <1>1, <2>1
<1>5. ASSUME NEW t \in tokens, RefreshAdmit(r, t), req'[r] = Waiting("reread", t, None, 0)
      PROVE  /\ req'[r].token \in presented' /\ sessions[s].status # "absent"
             /\ req'[r].token.version = sessions[s].tokenVersion
             /\ sessions'[s] = sessions[s]
  <2>1. req'[r].token = t /\ t.session = s
    BY <1>1, <1>5, WaitingFields
  <2>2. t \in presented' /\ sessions[s].tokenVersion = t.version /\ sessions' = sessions
    BY <1>5, <2>1 DEF RefreshAdmit, Mismatch, Await, Present
  <2>3. sessions[s].status # "absent"
    BY <2>1 DEF Belonging, Belongs
  <2> QED BY <2>1, <2>2, <2>3
<1>6. ASSUME RefreshReread(r), NEW n, NEW c, req'[r] = Waiting("write", req[r].token, n, c)
      PROVE  Refreshing(r, s) /\ req'[r].token = req[r].token
  <2>1. req[r].at = "reread" /\ req'[r].token = req[r].token
    BY <1>6, WaitingFields DEF RefreshReread
  <2> QED BY <1>1, <2>1 DEF Refreshing
<1> QED BY <1>2, <1>3, <1>4, <1>5, <1>6, RequestEffects

\* No refresh of s is written: its row keeps its version.
LEMMA OneEachKept ==
  ASSUME TypeInv, Belonging, [Next]_vars, NEW s \in Sessions, OneEach(s),
         \A r \in Requests : RefreshWrite(r) => req[r].token.session # s
  PROVE  OneEach(s)'
<1>a. /\ sessions[s] \in Row /\ rotated \in [Sessions -> Nat] /\ tokens \subseteq Token
      /\ presented \subseteq presented'
  BY PresentedGrows DEF TypeInv, TypeOK
<1>1. rotated'[s] = rotated[s]
  BY <1>a, RotatedEffects
<1>2. \/ sessions'[s] = sessions[s]
      \/ /\ sessions'[s].status # "absent" /\ sessions[s].status # "absent"
         /\ sessions'[s].tokenVersion = sessions[s].tokenVersion
      \/ /\ sessions'[s].status # "absent" /\ sessions[s].status = "absent"
         /\ sessions'[s].tokenVersion = 1
  <2>1. ASSUME NEW u \in Users, sessions'[s] = NewRow(u, s)
        PROVE  sessions'[s].status # "absent" /\ sessions'[s].tokenVersion = 1
    BY <2>1, RowFields
  <2>2. ASSUME NEW reason \in Reasons, RevokesFor(s, reason), sessions'[s] = Revoke(sessions[s], reason)
        PROVE  /\ sessions'[s].status # "absent" /\ sessions[s].status # "absent"
               /\ sessions'[s].tokenVersion = sessions[s].tokenVersion
    <3>1. sessions[s].status # "absent"
      BY <2>2 DEF RevokesFor, RefreshInvalidate, LogoutInvalidate, Belonging, Belongs, Live
    <3> QED BY <1>a, <2>2, <3>1, RowFields
  <2> QED BY <2>1, <2>2, RowEffects
<1>3. ASSUME NEW r \in Requests, Refreshing(r, s)'
      PROVE  req'[r].token \in presented' /\ req'[r].token.version = sessions'[s].tokenVersion
  <2>1. ASSUME Refreshing(r, s) PROVE sessions[s].status # "absent"
    BY <2>1 DEF Refreshing, Belonging, Belongs
  <2> QED BY <1>a, <1>2, <1>3, <2>1, RefreshingEffects DEF OneEach
<1> QED BY <1>a, <1>1, <1>2, <1>3 DEF OneEach

\* The only refresh of s is written: it used the token of the row's version, and the
\* row now has the next one.
LEMMA OneEachWritten ==
  ASSUME TypeInv, Belonging, [Next]_vars, NEW s \in Sessions, OneEach(s), RefreshesApart,
         NEW r \in Requests, RefreshWrite(r), req[r].token.session = s
  PROVE  OneEach(s)'
<1>a. /\ rotated[s] \in Nat /\ presented' = presented /\ req' = [req EXCEPT ![r] = Idle]
      /\ rotated'[s] = rotated[s] + 1 /\ req \in [Requests -> Request]
  BY DEF TypeInv, TypeOK, RefreshWrite
<1>1. Refreshing(r, s) /\ sessions[s].status # "absent"
  BY DEF RefreshWrite, Refreshing, Belonging, Belongs
<1>2. /\ sessions'[s].status # "absent"
      /\ sessions'[s].tokenVersion = req[r].token.version + 1
  BY <1>1, WriteEffects
<1>3. req[r].token \in presented /\ req[r].token.version = rotated[s] + 1
  BY <1>1 DEF OneEach
<1>4. ASSUME NEW v \in 1..rotated'[s]
      PROVE  \E t \in presented' : t.session = s /\ t.version = v
  <2>1. v \in 1..rotated[s] \/ v = rotated[s] + 1
    BY <1>a
  <2> QED BY <1>a, <1>3, <2>1 DEF OneEach
<1>5. ASSUME NEW x \in Requests, Refreshing(x, s)' PROVE FALSE
  <2>1. x # r /\ req'[x] = req[x]
    BY <1>a, <1>5, IdleType DEF Refreshing
  <2>2. Refreshing(x, s)
    BY <1>5, <2>1 DEF Refreshing
  <2> QED BY <1>1, <2>1, <2>2 DEF RefreshesApart
<1> QED BY <1>a, <1>2, <1>3, <1>4, <1>5 DEF OneEach

LEMMA OneTokenInductive ==
  TypeInv /\ Belonging /\ RefreshesApart /\ OneToken /\ [Next]_vars => OneToken'
<1> SUFFICES ASSUME TypeInv, Belonging, RefreshesApart, OneToken, [Next]_vars PROVE OneToken'
  OBVIOUS
<1>1. ASSUME NEW s \in Sessions PROVE OneEach(s)'
  BY OneEachKept, OneEachWritten DEF OneToken
<1>2. IsFiniteSet(presented')
  BY PresentedEffects, FS_AddElement DEF Present, OneToken
<1> QED BY <1>1, <1>2 DEF OneToken

\* Distinct versions are distinct tokens.
LEMMA VersionsCount ==
  ASSUME NEW s \in Sessions, rotated[s] \in Nat, OneEach(s), IsFiniteSet(presented)
  PROVE  rotated[s] <= Cardinality({t \in presented : t.session = s})
<1> DEFINE used == {t \in presented : t.session = s}
           sent == [v \in 1..rotated[s] |-> CHOOSE t \in used : t.version = v]
<1>1. IsFiniteSet(used)
  BY FS_Subset
<1>2. \A v \in 1..rotated[s] : sent[v] \in used /\ sent[v].version = v
  BY DEF OneEach
<1>3. sent \in Injection(1..rotated[s], used)
  <2>1. sent \in [1..rotated[s] -> used]
    BY <1>2
  <2>2. \A v, w \in 1..rotated[s] : sent[v] = sent[w] => v = w
    BY <1>2
  <2> HIDE DEF sent, used
  <2> QED BY <2>1, <2>2 DEF Injection, IsInjective
<1>4. Cardinality(1..rotated[s]) = rotated[s]
  BY FS_Interval
<1> HIDE DEF sent
<1>5. Cardinality(1..rotated[s]) <= Cardinality(used)
  <2> HIDE DEF used
  <2> QED BY <1>1, <1>3, FS_Injection
<1> QED BY <1>4, <1>5

(***************************************************************************)
(* When the refreshes of a session do not overlap, each of its rotations   *)
(* used a refresh token of its own, whatever is sent again and whatever    *)
(* fails: the reuse test of refreshAccessToken lacks nothing but the       *)
(* atomicity of its check and its write.                                   *)
(***************************************************************************)
THEOREM RotatedOnceApart == ApartSpec => []TokenRotatedOnce
<1>1. Init => RefreshesApart /\ OneToken
  <2> SUFFICES ASSUME Init PROVE RefreshesApart /\ OneToken
    OBVIOUS
  <2>1. \A r \in Requests, s \in Sessions : ~ Refreshing(r, s)
    BY IdleType DEF Init, Refreshing
  <2>2. IsFiniteSet(presented)
    BY FS_EmptySet DEF Init
  <2>3. ASSUME NEW s \in Sessions PROVE OneEach(s)
    <3>1. rotated[s] = 0 /\ sessions[s].status = "absent"
      BY DEF Init, NoRow
    <3> QED BY <2>1, <3>1 DEF OneEach
  <2> QED BY <2>1, <2>2, <2>3 DEF RefreshesApart, OneToken
<1>2. ApartSpec => Spec
  <2>1. [Next /\ RefreshesApart']_vars => [Next]_vars
    OBVIOUS
  <2> QED BY <2>1, PTL DEF ApartSpec, Spec
<1>3. RefreshesApart /\ [Next /\ RefreshesApart']_vars => RefreshesApart'
  BY DEF RefreshesApart, Refreshing, vars
<1>4. TypeInv /\ OneToken => TokenRotatedOnce
  BY VersionsCount DEF OneToken, TokenRotatedOnce, TypeInv, TypeOK
<1>5. [Next /\ RefreshesApart']_vars => [Next]_vars
  OBVIOUS
<1> QED BY <1>1, <1>2, <1>3, <1>4, <1>5, OneTokenInductive, TypeInvAlways, BelongingAlways, PTL
        DEF ApartSpec
=============================================================================
