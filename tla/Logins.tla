------------------------------- MODULE Logins -------------------------------
(***************************************************************************)
(* Logins of one user, a creator or an editor, by password, mailed code or *)
(* message.                                                                *)
(*                                                                         *)
(* A login takes a point of a limiter (not all do), looks the user up,     *)
(* opens a session and then writes the time of the login to the user.      *)
(* Only a login by password looks at the channels of the user; what the    *)
(* session is good for is decided by AccessPolicy when it is used.         *)
(* Updates of the user go on meanwhile.  Creators and editors have tables, *)
(* services and limiters of their own, which differ:                       *)
(* - a creator's mailed code is confirmed with a point of the limiter that *)
(*   counts the sends, an editor's is compared with the clock and no       *)
(*   limiter is asked,                                                     *)
(* - an editor's login writes back the whole row it has read.              *)
(*                                                                         *)
(* Which codes are confirmed is in Otp, what becomes of the sessions in    *)
(* SessionTokens, the other columns of the users in Users.                 *)
(***************************************************************************)
EXTENDS RateLimits, AccessPolicy

CONSTANTS
  Requests,  \* handlers that can be in flight at once
  MaxCalls   \* bound of the model on the calls there are

\* What the limiters count: sends and confirmations for the mail address and the mobile
\* number, logins by password, refreshes by one token.
ASSUME KeysKnown == Keys \subseteq {"mail", "mobile", "password", "refresh"}
ASSUME CallsBounded == MaxCalls \in Nat

VARIABLES
  calls,   \* number of calls so far
  half,    \* whose services these are
  user,
  opened,  \* the channels of the sessions that have been opened
  req      \* the requests in flight

vars == <<limiter, calls, half, user, opened, req>>

\* Where a request waits, the channel of the session it is opening and the row it is
\* going to write.
Request == [at: {"idle", "find", "session", "touchFind", "touch", "update"},
            channel: Channels, row: User]

Idle == [at |-> "idle", channel |-> Api, row |-> Registered]

Init ==
  /\ LimiterInit
  /\ calls = 0
  /\ half \in {"creator", "editor"}
  /\ user = Registered
  /\ opened = {}
  /\ req = [r \in Requests |-> Idle]

Go(r, next) == req' = [req EXCEPT ![r] = next]
GoTo(r, at) == Go(r, [req[r] EXCEPT !.at = at])

Opening(at, channel) == [Idle EXCEPT !.at = at, !.channel = channel]

Call(r) ==
  /\ req[r].at = "idle"
  /\ calls < MaxCalls
  /\ calls' = calls + 1

\* A call that counts for k and goes on as request r only if it is admitted.
Counted(k, r, next) ==
  /\ k \in Keys
  /\ Call(r)
  /\ \/ Admit(k) /\ Go(r, next)
     \/ Refuse(k) /\ UNCHANGED req
  /\ UNCHANGED <<half, user, opened>>

Uncounted(r, next) ==
  /\ Call(r)
  /\ Go(r, next)
  /\ UNCHANGED <<limiter, half, user, opened>>
-----------------------------------------------------------------------------
(* Sending codes, confirming them without a login, refreshing.             *)

\* A code is sent for a login or on its own: the rest is in Otp.
InitiateMailLogin(r) == Counted("mail", r, Idle)
InitiateMobileLogin(r) == Counted("mobile", r, Idle)
VerifyOtpMail(r) == Counted("mail", r, Idle)

\* A refresh counts for its token, whatever comes of it: the rest is in SessionTokens.
RefreshAccessToken(r) == Counted("refresh", r, Idle)
-----------------------------------------------------------------------------
(* Logins.                                                                 *)

\* The password counts, right or wrong.
ValidateUser(r, channel) == Counted("password", r, Opening("find", channel))

\* Neither the status of the user nor a second factor stops the login: nothing that can
\* be called sets the latter up.
LoginWithPassword(r) ==
  /\ req[r].at = "find"
  /\ \/ req[r].channel \in user.channels /\ GoTo(r, "session")
     \/ Go(r, Idle)
  /\ UNCHANGED <<limiter, calls, half, user, opened>>

\* Confirming the message takes no point.
CompleteMobileLogin(r, channel) == Uncounted(r, Opening("session", channel))

\* A wrong code of a creator has the effect of VerifyOtpMail.
CreatorCompleteMailLogin(r, channel) == Counted("mail", r, Opening("session", channel))
EditorCompleteMailLogin(r, channel) == Uncounted(r, Opening("session", channel))

CreateSession(r) ==
  /\ req[r].at = "session"
  /\ opened' = opened \cup {req[r].channel}
  /\ GoTo(r, IF half = "editor" THEN "touchFind" ELSE "touch")
  /\ UNCHANGED <<limiter, calls, half, user>>

TouchFind(r) ==
  /\ req[r].at = "touchFind"
  /\ Go(r, [req[r] EXCEPT !.at = "touch", !.row = user])
  /\ UNCHANGED <<limiter, calls, half, user, opened>>

\* lastLoginAt is not among the columns here; the editor's repository writes all.
Touch(r) ==
  /\ req[r].at = "touch"
  /\ user' = IF half = "editor" THEN req[r].row ELSE user
  /\ Go(r, Idle)
  /\ UNCHANGED <<limiter, calls, half, opened>>
-----------------------------------------------------------------------------
(* Updates of the user.                                                    *)

\* Mutant: the channel asked for takes the place of the others.
Merge_Replaces(row, active, channel) ==
  [active |-> IF active = None THEN row.active ELSE active,
   channels |-> IF channel = None THEN row.channels ELSE {channel}]

\* Mutant: a status that was not asked for is written, too.
Merge_NoDefault(row, active, channel) ==
  [active |-> active,
   channels |-> IF channel = None THEN row.channels ELSE row.channels \cup {channel}]

\* The channel asked for is added to those there are.
Merge(row, active, channel) ==
  [active |-> IF active = None THEN row.active ELSE active,
   channels |-> IF channel = None THEN row.channels ELSE row.channels \cup {channel}]

\* The editors' repository reads the row once more and overwrites what it has read.
UpdateFind(r, active, channel) ==
  Uncounted(r, [Opening("update", Api) EXCEPT !.row = Merge(user, active, channel)])

UpdateWrite(r) ==
  /\ req[r].at = "update"
  /\ user' = req[r].row
  /\ Go(r, Idle)
  /\ UNCHANGED <<limiter, calls, half, opened>>
-----------------------------------------------------------------------------
RequestFails(r) ==
  /\ req[r].at # "idle"
  /\ Go(r, Idle)
  /\ UNCHANGED <<limiter, calls, half, user, opened>>

Restart ==
  /\ Forget
  /\ req' = [r \in Requests |-> Idle]
  /\ UNCHANGED <<calls, half, user, opened>>

Tick == Pass /\ UNCHANGED <<calls, half, user, opened, req>>

\* What the controllers of both halves have.
Start(r) ==
  \/ InitiateMailLogin(r) \/ InitiateMobileLogin(r) \/ VerifyOtpMail(r)
  \/ RefreshAccessToken(r)
  \/ \E channel \in Channels : ValidateUser(r, channel) \/ CompleteMobileLogin(r, channel)
  \/ \E active \in BOOLEAN \cup {None}, channel \in Channels \cup {None} :
       UpdateFind(r, active, channel)

CreatorAuth(r) ==
  /\ half = "creator"
  /\ Start(r) \/ \E channel \in Channels : CreatorCompleteMailLogin(r, channel)

EditorAuth(r) ==
  /\ half = "editor"
  /\ Start(r) \/ \E channel \in Channels : EditorCompleteMailLogin(r, channel)

Next ==
  \/ \E r \in Requests :
       \/ CreatorAuth(r) \/ EditorAuth(r)
       \/ LoginWithPassword(r) \/ CreateSession(r) \/ TouchFind(r) \/ Touch(r)
       \/ UpdateWrite(r)
       \/ RequestFails(r)
  \/ Restart
  \/ Tick

Spec == Init /\ [][Next]_vars
-----------------------------------------------------------------------------
(* Correctness; BurstBounded and RefusedOnlyIfSpent are properties of the  *)
(* logins, too.                                                            *)

TypeOK ==
  /\ LimiterTypeOK
  /\ calls \in 0..MaxCalls
  /\ half \in {"creator", "editor"}
  /\ user \in User
  /\ opened \subseteq Channels
  /\ req \in [Requests -> Request]

\* Logins by code do not look at the channels of the user, and rows are written back from
\* what was read before: still, whatever the order of logins and updates, a session is
\* good for the channel it was opened on as long as the user is active, and no longer;
\* only the api asks for nothing.
SessionsUsable ==
  \A channel \in opened : ValidateToken(user, channel, None) <=> channel = Api \/ user.active
=============================================================================
