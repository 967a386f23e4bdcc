--------------------------- MODULE SessionTokens ---------------------------
(***************************************************************************)
(* Sessions and rotating refresh tokens of the auth service.               *)
(*                                                                         *)
(* The state is the `sessions` table, the refresh tokens clients hold, the *)
(* HTTP requests in flight (each stops at every await of its handler), and *)
(* the hourly timer that revokes expired sessions.  Creators and editors   *)
(* run two copies of the same handlers on one table; a request belongs to  *)
(* the creator or to the editor copy, which differ in the user table they  *)
(* look the token's subject up in.                                         *)
(*                                                                         *)
(* Requests that are refused before they change anything (bad signature,   *)
(* expired JWT, missing or revoked session, unknown user, a refusal by the *)
(* in-memory rate limiter) leave the state as it was and have no action.   *)
(***************************************************************************)
EXTENDS Integers, FiniteSets

CONSTANTS
  Creators, Editors,                \* ids of the rows of the two user tables
  Sessions,                         \* session ids, also used as token families
  CreatorRequests, EditorRequests,  \* handlers that can be in flight at once
  None,                             \* undefined in a nullable field
  SessionTTL,                       \* createSession: expiresAt
  AbsoluteTTL,                      \* SessionRepositoryAdapter.create: absoluteExpiresAt
  RefreshTTL, AccessTTL,            \* lifetimes of the two JWTs
  CleanupPeriod,                    \* period of the setInterval timer
  MaxRefreshCount,                  \* refreshes a session is allowed
  MaxClock, MaxVersion, MaxBoots,   \* bounds of the model, none of the code's
  QuietAfter                        \* bound: no login and no restart after it

Users    == Creators \cup Editors
Requests == CreatorRequests \cup EditorRequests

ASSUME DisjointTables ==
  /\ Creators \cap Editors = {}
  /\ CreatorRequests \cap EditorRequests = {}
  /\ None \notin Users \cup Sessions
  /\ IsFiniteSet(Requests)

ASSUME Lifetimes ==
  /\ SessionTTL \in Nat \ {0}
  /\ AbsoluteTTL \in Nat /\ SessionTTL < AbsoluteTTL
  /\ RefreshTTL \in Nat \ {0}
  /\ AccessTTL \in Nat \ {0}
  /\ CleanupPeriod \in Nat \ {0}
  /\ MaxRefreshCount \in Nat \ {0}

ASSUME Bounds == /\ MaxClock \in Nat /\ MaxVersion \in Nat
                 /\ MaxBoots \in Nat /\ QuietAfter \in Nat

VARIABLES
  sessions,     \* the sessions table
  tokens,       \* refresh tokens handed to clients (each with its access token)
  req,          \* the requests in flight and where each waits
  clock,        \* the time, in the unit of the lifetimes above
  nextCleanup,  \* when the setInterval callback runs next
  cleaning,     \* the callback is between its two updates
  bootedAt,     \* when the process last started
  boots,        \* restarts so far
  presented,    \* history: refresh tokens that were used
  replayed,     \* history: users of whom a refresh token was used again
  rotated       \* history: refreshes that were written to a session's row

vars == <<sessions, tokens, req, clock, nextCleanup, cleaning, bootedAt, boots,
          presented, replayed, rotated>>
timer   == <<nextCleanup, cleaning, bootedAt, boots>>
history == <<presented, replayed, rotated>>

Reasons == {"none", "logout", "reuse", "maxRefresh", "expired", "maxLifetime"}

\* A row; status folds the row's existence and isRevoked together.
Row == [status: {"absent", "live", "revoked"}, reason: Reasons,
        owner: Users \cup {None}, family: Sessions \cup {None},
        expiresAt: Nat, absoluteExpiresAt: Nat,
        tokenVersion: Nat, refreshCount: Nat]

Token == [sub: Users, session: Sessions, family: Sessions, version: Nat,
          issuedAt: Nat]

\* Where a request waits, the token it was sent, the token it will answer
\* with, and the refreshCount it read.
Request == [at: {"idle", "login", "revokeAll", "overLimit", "reread", "write",
                 "logout"},
            token: Token \cup {None}, next: Token \cup {None}, count: Nat]

NoRow == [status |-> "absent", reason |-> "none", owner |-> None,
          family |-> None, expiresAt |-> 0, absoluteExpiresAt |-> 0,
          tokenVersion |-> 0, refreshCount |-> 0]

Waiting(at, token, next, count) ==
  [at |-> at, token |-> token, next |-> next, count |-> count]
Idle == Waiting("idle", None, None, 0)

Live(s)    == sessions[s].status = "live"
Revoked(s) == sessions[s].status = "revoked"

\* The table the handler's userRepository reads.
UserTable(r) == IF r \in CreatorRequests THEN Creators ELSE Editors

Init ==
  /\ sessions = [s \in Sessions |-> NoRow]
  /\ tokens = {}
  /\ req = [r \in Requests |-> Idle]
  /\ clock = 0
  /\ nextCleanup = CleanupPeriod
  /\ cleaning = FALSE
  /\ bootedAt = 0
  /\ boots = 0
  /\ presented = {}
  /\ replayed = {}
  /\ rotated = [s \in Sessions |-> 0]
-----------------------------------------------------------------------------
(* Statements on the sessions table.                                       *)

\* Mutant: createSession forgets refreshTokenFamily.
NewRow_NoFamily(u, s) ==
  [status |-> "live", reason |-> "none", owner |-> u, family |-> None,
   expiresAt |-> clock + SessionTTL, absoluteExpiresAt |-> clock + AbsoluteTTL,
   tokenVersion |-> 1, refreshCount |-> 0]

\* The row createSession inserts.
NewRow(u, s) ==
  [status |-> "live", reason |-> "none", owner |-> u, family |-> s,
   expiresAt |-> clock + SessionTTL, absoluteExpiresAt |-> clock + AbsoluteTTL,
   tokenVersion |-> 1, refreshCount |-> 0]

Revoke(row, reason) == [row EXCEPT !.status = "revoked", !.reason = reason]

\* update ... where id: whatever the row's isRevoked was.
Invalidate(s, reason) ==
  sessions' = [sessions EXCEPT ![s] = Revoke(@, reason)]

\* update ... where isRevoked = false and the row is one of S.
RevokeLive(S, reason) ==
  sessions' = [s \in Sessions |-> IF s \in S /\ Live(s)
                                  THEN Revoke(sessions[s], reason)
                                  ELSE sessions[s]]

InvalidateAllUserSessions(u, reason) ==
  RevokeLive({s \in Sessions : sessions[s].owner = u}, reason)

\* Mutant: the row read before is saved as a whole, isRevoked = false included.
Refreshed_SaveRow(row, version, count) ==
  [row EXCEPT !.tokenVersion = version + 1, !.refreshCount = count + 1,
              !.status = "live"]

\* Mutant: the version of the row is not rotated with the token's.
Refreshed_OldVersion(row, version, count) ==
  [row EXCEPT !.tokenVersion = version, !.refreshCount = count + 1]

\* Mutant: the counter counts what is left and drops below zero.
Refreshed_CountDown(row, version, count) ==
  [row EXCEPT !.tokenVersion = version + 1, !.refreshCount = count - 1]

\* Mutant: every refresh prolongs the session.
Refreshed_Sliding(row, version, count) ==
  [row EXCEPT !.tokenVersion = version + 1, !.refreshCount = count + 1,
              !.expiresAt = clock + SessionTTL]

\* A partial update of the row: isRevoked and the expiry dates are not in it.
Refreshed(row, version, count) ==
  [row EXCEPT !.tokenVersion = version + 1, !.refreshCount = count + 1]

-----------------------------------------------------------------------------
(* Login: tokens are signed before the session row exists and are answered *)
(* after it was saved.                                                     *)

\* The refresh token of a new session.
FirstToken(u, s) ==
  [sub |-> u, session |-> s, family |-> s, version |-> 1, issuedAt |-> clock]

LoginCreateSession(r, u, s) ==
  /\ req[r].at = "idle"
  /\ clock <= QuietAfter
  /\ u \in UserTable(r)
  /\ sessions[s].status = "absent"
  /\ sessions' = [sessions EXCEPT ![s] = NewRow(u, s)]
  /\ req' = [req EXCEPT ![r] = Waiting("login", None, FirstToken(u, s), 0)]
  /\ UNCHANGED <<tokens, clock, timer, history>>

LoginAnswer(r) ==
  /\ req[r].at = "login"
  /\ tokens' = tokens \cup {req[r].next}
  /\ req' = [req EXCEPT ![r] = Idle]
  /\ UNCHANGED <<sessions, clock, timer, history>>
-----------------------------------------------------------------------------
(* Refresh.                                                                *)

\* The JWT has not expired; the signature is the server's own.
Verifies(t) == t.version < MaxVersion /\ clock < t.issuedAt + RefreshTTL

\* What the session read by the request says of the token.
Mismatch(t) == \/ sessions[t.session].family # t.family
               \/ sessions[t.session].tokenVersion # t.version

Present(t) ==
  /\ presented' = presented \cup {t}
  /\ replayed' = IF t \in presented THEN replayed \cup {t.sub} ELSE replayed

\* Mutant: isRevoked is not looked at.
Await_Revoked(r, t, at) ==
  /\ req[r].at = "idle"
  /\ Verifies(t)
  /\ req' = [req EXCEPT ![r] = Waiting(at, t, None, 0)]
  /\ Present(t)
  /\ UNCHANGED <<sessions, tokens, clock, timer, rotated>>

\* Wait at `at` with token t, after the session was read.
Await(r, t, at) ==
  /\ req[r].at = "idle"
  /\ Verifies(t)
  /\ Live(t.session)
  /\ req' = [req EXCEPT ![r] = Waiting(at, t, None, 0)]
  /\ Present(t)
  /\ UNCHANGED <<sessions, tokens, clock, timer, rotated>>

RefreshDetectReuse(r, t) ==
  /\ Mismatch(t)
  /\ Await(r, t, "revokeAll")

\* Mutant: the limit is one too low.
RefreshOverLimit_OffByOne(r, t) ==
  /\ ~ Mismatch(t)
  /\ sessions[t.session].refreshCount + 1 >= MaxRefreshCount
  /\ Await(r, t, "overLimit")

RefreshOverLimit(r, t) ==
  /\ ~ Mismatch(t)
  /\ sessions[t.session].refreshCount >= MaxRefreshCount
  /\ Await(r, t, "overLimit")

\* Mutant: the count is not checked.
RefreshAdmit_NoLimit(r, t) ==
  /\ ~ Mismatch(t)
  /\ t.sub \in UserTable(r)
  /\ Await(r, t, "reread")

RefreshAdmit(r, t) ==
  /\ ~ Mismatch(t)
  /\ sessions[t.session].refreshCount < MaxRefreshCount
  /\ t.sub \in UserTable(r)
  /\ Await(r, t, "reread")

RefreshRevokeAll(r) ==
  /\ req[r].at = "revokeAll"
  /\ InvalidateAllUserSessions(req[r].token.sub, "reuse")
  /\ req' = [req EXCEPT ![r] = Idle]
  /\ UNCHANGED <<tokens, clock, timer, history>>

RefreshInvalidate(r) ==
  /\ req[r].at = "overLimit"
  /\ Invalidate(req[r].token.session, "maxRefresh")
  /\ req' = [req EXCEPT ![r] = Idle]
  /\ UNCHANGED <<tokens, clock, timer, history>>

\* The token that follows t in its family.
NextToken(t) == [t EXCEPT !.version = @ + 1, !.issuedAt = clock]

\* The new tokens are signed, then updateSessionAfterRefresh reads the row again.
RefreshReread(r) ==
  /\ req[r].at = "reread"
  /\ LET t == req[r].token
     IN  req' = [req EXCEPT ![r] =
                   Waiting("write", t, NextToken(t), sessions[t.session].refreshCount)]
  /\ UNCHANGED <<sessions, tokens, clock, timer, history>>

\* The row is written and the new tokens answered, unless the answer is lost.
RefreshWrite(r) ==
  /\ req[r].at = "write"
  /\ sessions' = [sessions EXCEPT ![req[r].token.session] =
                    Refreshed(@, req[r].token.version, req[r].count)]
  /\ tokens' \in {tokens, tokens \cup {req[r].next}}
  /\ rotated' = [rotated EXCEPT ![req[r].token.session] = @ + 1]
  /\ req' = [req EXCEPT ![r] = Idle]
  /\ UNCHANGED <<clock, timer, presented, replayed>>

RefreshAccessToken(r) ==
  \/ \E t \in tokens : \/ RefreshDetectReuse(r, t)
                       \/ RefreshOverLimit(r, t)
                       \/ RefreshAdmit(r, t)
  \/ RefreshRevokeAll(r)
  \/ RefreshInvalidate(r)
  \/ RefreshReread(r)
  \/ RefreshWrite(r)
-----------------------------------------------------------------------------
(* Logout: needs an access token of the session; a revoked session may be  *)
(* logged out again.  The update of the user row that follows touches      *)
(* nothing modelled here.                                                  *)

LogoutFind(r, t) ==
  /\ req[r].at = "idle"
  /\ clock < t.issuedAt + AccessTTL
  /\ sessions[t.session].owner = t.sub
  /\ req' = [req EXCEPT ![r] = Waiting("logout", t, None, 0)]
  /\ UNCHANGED <<sessions, tokens, clock, timer, history>>

LogoutInvalidate(r) ==
  /\ req[r].at = "logout"
  /\ Invalidate(req[r].token.session, "logout")
  /\ req' = [req EXCEPT ![r] = Idle]
  /\ UNCHANGED <<tokens, clock, timer, history>>
-----------------------------------------------------------------------------
(* A request fails at an await: the exception ends it where it stands.     *)

RequestFails(r) ==
  /\ req[r].at # "idle"
  /\ req' = [req EXCEPT ![r] = Idle]
  /\ UNCHANGED <<sessions, tokens, clock, timer, history>>

(* The timer: two updates, each awaited, with one reading of the clock.    *)

CleanupDue == clock = nextCleanup

\* Mutant: the absolute lifetime is looked at first.
CleanupExpired_AbsoluteFirst ==
  /\ CleanupDue /\ ~ cleaning
  /\ RevokeLive({s \in Sessions : sessions[s].absoluteExpiresAt < clock},
                "maxLifetime")
  /\ cleaning' = TRUE
  /\ UNCHANGED <<tokens, req, clock, nextCleanup, bootedAt, boots, history>>

CleanupExpired ==
  /\ CleanupDue /\ ~ cleaning
  /\ RevokeLive({s \in Sessions : sessions[s].expiresAt < clock}, "expired")
  /\ cleaning' = TRUE
  /\ UNCHANGED <<tokens, req, clock, nextCleanup, bootedAt, boots, history>>

\* Mutant: setTimeout for setInterval, the callback runs once.
CleanupAbsolute_Once ==
  /\ CleanupDue /\ cleaning
  /\ RevokeLive({s \in Sessions : sessions[s].absoluteExpiresAt < clock},
                "maxLifetime")
  /\ cleaning' = FALSE
  /\ nextCleanup' = 0
  /\ UNCHANGED <<tokens, req, clock, bootedAt, boots, history>>

CleanupAbsolute ==
  /\ CleanupDue /\ cleaning
  /\ RevokeLive({s \in Sessions : sessions[s].absoluteExpiresAt < clock},
                "maxLifetime")
  /\ cleaning' = FALSE
  /\ nextCleanup' = clock + CleanupPeriod
  /\ UNCHANGED <<tokens, req, clock, bootedAt, boots, history>>

\* The event loop runs a due timer before the clock moves a whole unit on.
Tick ==
  /\ clock < MaxClock
  /\ ~ CleanupDue
  /\ clock' = clock + 1
  /\ UNCHANGED <<sessions, tokens, req, timer, history>>

\* The process dies and starts again: requests are lost, timers start over.
Restart ==
  /\ boots < MaxBoots /\ clock <= QuietAfter
  /\ boots' = boots + 1
  /\ bootedAt' = clock
  /\ nextCleanup' = clock + CleanupPeriod
  /\ cleaning' = FALSE
  /\ req' = [r \in Requests |-> Idle]
  /\ UNCHANGED <<sessions, tokens, clock, history>>
-----------------------------------------------------------------------------
Login(r)  == \/ \E u \in Users, s \in Sessions : LoginCreateSession(r, u, s)
             \/ LoginAnswer(r)
Logout(r) == (\E t \in tokens : LogoutFind(r, t)) \/ LogoutInvalidate(r)

CreatorLogin   == \E r \in CreatorRequests : Login(r)
CreatorLogout  == \E r \in CreatorRequests : Logout(r)
CreatorRefresh == \E r \in CreatorRequests : RefreshAccessToken(r)
EditorLogin    == \E r \in EditorRequests  : Login(r)
EditorLogout   == \E r \in EditorRequests  : Logout(r)
EditorRefresh  == \E r \in EditorRequests  : RefreshAccessToken(r)
Failure        == (\E r \in Requests : RequestFails(r)) \/ Restart
Cleanup        == CleanupExpired \/ CleanupAbsolute

Next ==
  \/ CreatorLogin \/ CreatorLogout \/ CreatorRefresh
  \/ EditorLogin  \/ EditorLogout  \/ EditorRefresh
  \/ Cleanup \/ Tick \/ Failure

Spec == Init /\ [][Next]_vars

\* The clock goes on and a timer that is due runs: requests need not be sent.
FairSpec == Spec /\ WF_vars(Tick) /\ WF_vars(Cleanup)
-----------------------------------------------------------------------------
(* Correctness.                                                            *)

\* Every variable has its type.
TypeOK ==
  /\ sessions \in [Sessions -> Row]
  /\ tokens \subseteq Token
  /\ req \in [Requests -> Request]
  /\ clock \in Nat /\ nextCleanup \in Nat /\ bootedAt \in Nat /\ boots \in Nat
  /\ cleaning \in BOOLEAN
  /\ presented \subseteq Token
  /\ replayed \subseteq Users
  /\ rotated \in [Sessions -> Nat]

\* A session once revoked stays revoked, although a refresh that read it live
\* writes it afterwards (updateSessionAfterRefresh) and several handlers and the
\* timer revoke concurrently.
RevokedIsFinal ==
  [][\A s \in Sessions : Revoked(s) => sessions'[s].status = "revoked"]_vars

\* A client that never sends a refresh token twice is never taken for a thief:
\* a session is revoked for token reuse only if a refresh token of its owner was
\* sent again, however its refreshes, logouts, logins and crashes interleave.
ReuseRevocationJustified ==
  \A s \in Sessions : sessions[s].reason = "reuse" => sessions[s].owner \in replayed

\* The counter behind the refresh limit never runs ahead: a session is cut off
\* for it only after its tokens were rotated MaxRefreshCount times, although the
\* counter is read and written in different statements.
CutOffOnlyAtLimit ==
  \A s \in Sessions :
    sessions[s].reason = "maxRefresh" => rotated[s] >= MaxRefreshCount

\* The counter is checked when the row is first read, read again before it is
\* written and written with the value read.  Concurrent refreshes with one token
\* make it lose counts and even fall behind (a stale write), so it bounds nothing
\* then; but for a user who never sent a token twice it is exact and the limit holds.
CountExactUntilReplay ==
  \A s \in Sessions :
    sessions[s].owner \notin replayed =>
      /\ sessions[s].refreshCount = rotated[s]
      /\ rotated[s] <= MaxRefreshCount

\* Rotation keeps a token and its session together: the row of a token exists, is
\* owned by the token's subject and is of its family, so that the family half of
\* the reuse test never fires and a mismatch always is one of versions.
TokensBelongToSessions ==
  \A t \in tokens : /\ sessions[t.session].status # "absent"
                    /\ sessions[t.session].owner = t.sub
                    /\ sessions[t.session].family = t.family

\* The timer bounds a session's life whatever its client does: a session is live
\* at most SessionTTL + CleanupPeriod after its creation, or CleanupPeriod after
\* the process last started if that is later.  Refreshing does not extend it.
CreatedAt(s) == sessions[s].absoluteExpiresAt - AbsoluteTTL
SessionLifetimeBounded ==
  \A s \in Sessions :
    Live(s) => \/ clock <= CreatedAt(s) + SessionTTL + CleanupPeriod
               \/ clock <= bootedAt + CleanupPeriod

\* The absolute lifetime never is what ends a session: expiresAt is earlier and
\* the timer looks at it first, even when the timer is late after restarts.
AbsoluteLifetimeNeverBinds ==
  \A s \in Sessions : sessions[s].reason # "maxLifetime"

\* Every session is revoked in the end, whether or not its client logs out.
SessionsEnd == \A s \in Sessions : Live(s) ~> Revoked(s)

\* What the comment of refreshAccessToken says of a token sent again ("Potential
\* token reuse - revoke all user sessions"): a refresh token is rotated at most
\* once.  Two refreshes that read the row before either writes it
\* break this.
TokenRotatedOnce ==
  \A s \in Sessions :
    rotated[s] <= Cardinality({t \in presented : t.session = s})

\* The race is all there is to it: when no two refreshes of a session overlap between
\* the check of its row and the write of it, TokenRotatedOnce holds, be tokens sent
\* again, answers lost and requests failed as they may.
Refreshing(r, s) == req[r].at \in {"reread", "write"} /\ req[r].token.session = s

RefreshesApart ==
  \A s \in Sessions, q, r \in Requests : Refreshing(q, s) /\ Refreshing(r, s) => q = r

ApartSpec == Init /\ [][Next /\ RefreshesApart']_vars

\* The component implements SessionLifecycle: a row's status is the session's
\* stage, and a request serves a session from its check of the row to its answer.
Lifecycle == INSTANCE SessionLifecycle WITH
  life    <- [s \in Sessions |-> IF Revoked(s) THEN "ended" ELSE sessions[s].status],
  owner   <- [s \in Sessions |-> sessions[s].owner],
  serving <- [r \in Requests |-> IF req[r].at \in {"reread", "write"}
                                 THEN req[r].token.session ELSE None]

\* The statement of the refinement for TLC and for the proof.
ImplementsLifecycle == Lifecycle!Spec
=============================================================================
