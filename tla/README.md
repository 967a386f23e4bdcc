# TLA+ model of spectral-um

spectral-um is a NestJS service that manages the users of a video platform:
creators and editors, their sessions, the codes they confirm phone numbers and
mail addresses with, the editors a creator works with, uploaded media and the
YouTube accounts videos are published on. This directory holds TLA+
specifications of its core, TLC configurations that check them on small
instances and TLAPS proofs for every value of the constants. Source paths below
are relative to the repository (`src/auth/...`); `PROJECT.json` maps every
definition to its lines.

## 1. Inventory of the system

| part | state it keeps | operations | where it is hard |
|---|---|---|---|
| Sessions and tokens (`src/auth/modules/session`) | table `sessions`; refresh tokens in clients' hands; an in-memory limiter per token id | create, refresh (rotate), revoke one, revoke all of a user, hourly cleanup, validate | a refresh is two reads and one write with awaits between; reuse revokes everything of a user; only a timer ends sessions; restarts |
| Login, logout (`user-authentication.service.ts`) | `lastLoginAt`, `deletedAt` of the user | login (password, 2FA, policy), logout | tokens are signed before the row exists |
| OTP (`src/auth/modules/otp`) | table `otp`: one row per code sent; the external SMS service | request, confirm (mobile, mail), for production and for test addresses | send and save are two steps; several rows may be pending; confirmations race |
| OTP login (`auth.service.ts`) | none of its own | initiate and complete login by mobile or mail | the creator and the editor copy confirm mail codes differently |
| Rate limiters (`rate-limiter.service.ts`) | in-memory counters, one set per module instance | consume, block, reset | sending and confirming share points; restarts forget |
| Users (`user-registration.service.ts`, `user.repository.ts`, `user-preferences.repository.ts`) | tables of creators, editors, preferences | register, update, find | uniqueness is checked before an insert; two rows are saved apart; editors are updated by rewriting the row |
| Access policy, JWT strategies, validation | none | decide channel, level, resource access, token use | mostly pure |
| Editor maps (`src/map`) | tables of creator-editor and account-editor maps; connections of the pool | request an editor, find, update, delete | every call takes a connection and a transaction; nothing keeps a pair unique |
| Media (`src/media`) | table `media` and objects in S3 | upload, update, delete | two stores written one after the other |
| YouTube accounts (`src/yt_int`) | table of accounts with Google tokens; one OAuth client for the whole process | callback, channel info, upload, refresh, update, delete | requests share the client across awaits; read-modify-write of rows |
| DTOs, ports, bootstrap, health, `policy.sql`, CI | none | none | - |

How the parts interact: controllers call a service, a service calls ports
(repositories) and external services. Everything runs on one Node event loop, so
code between two awaits is atomic and anything may run during an await. The
creator and the editor half of the service are copies of each other on separate
user tables but share the tables of sessions and codes. Other services only see
the answers of HTTP calls.

What makes each part correct is stated with its properties below; the hazards
the properties are aimed at are listed, each at its line, in `PROJECT.json`.

## 2. Sessions and refresh tokens

### What is modelled

`SessionTokens.tla` models the session table, the refresh tokens handed to
clients, the requests in flight and the timer.

| TLA+ | code |
|---|---|
| `sessions[s]`, `Row` | a row of `sessions`; `status` folds its existence and `isRevoked`, `reason` is `revokedReason` |
| `Token` | the claims of a refresh token (`sub`, `sessionId`, `tokenFamily`, `version`, `iat`) |
| `req[r].at` | the await at which a handler waits: `login` (row saved, answer not sent), `reread` (user found, tokens being signed), `write` (row read again), `revokeAll`, `overLimit`, `logout` |
| `LoginCreateSession`, `LoginAnswer` | `login` up to and after `createSession` |
| `RefreshDetectReuse`, `RefreshOverLimit`, `RefreshAdmit` | `refreshAccessToken` up to its first await that matters: the three outcomes of the checks on the row read |
| `RefreshReread`, `RefreshWrite` | the two statements of `updateSessionAfterRefresh`; the answer of the second may be lost |
| `LogoutFind`, `LogoutInvalidate` | the read and the update of `logout` |
| `CleanupExpired`, `CleanupAbsolute` | the two updates of the hourly callback |
| `RequestFails`, `Restart` | an exception at an await; the process dies, requests are lost and `setInterval` starts over |

The creator and the editor copy of the handlers are the same actions for the
requests of `CreatorRequests` and `EditorRequests`; they differ in the user table
`UserTable` they look in, so an editor's token sent to the creator's endpoint is
admitted nowhere, but a mismatch revokes its user's sessions all the same, as in
the code. The adapter is instantiated several times, each with a timer of its
own; the two updates are idempotent at one reading of the clock, so one timer
stands for all. Requests refused before they change anything (signature, expiry,
missing or revoked session, unknown user) have no action; what the rate limiter
refuses is in `Logins`.

`SessionLifecycle.tla` is the abstract specification: a session is opened once,
ends once and for all, and a refresh is taken up only while its session is live
(it may be answered later). `SessionTokens` implements it under the mapping at
the end of its module.

### What is checked

| run | instance | properties |
|---|---|---|
| `SessionRaces.cfg` | one creator, one editor, two sessions, three requests in flight, limit 1, three versions, no clock | `TypeOK`, `ReuseRevocationJustified`, `TokensBelongToSessions`, `RevokedIsFinal`, `CutOffOnlyAtLimit`, `CountExactUntilReplay`, `ImplementsLifecycle` |
| `SessionClock.cfg` | one request, two sessions, clock to 4, two restarts | `SessionLifetimeBounded`, `AbsoluteLifetimeNeverBinds`, `SessionsEnd` |
| `SessionReuse.cfg` | two requests on one session | `TokenRotatedOnce`, which the code violates |

Bounds. Three requests are the least with which a stale write (one request reads
the row, another rotates and a third rotates again) can set the row back; two
sessions of one user are needed for a revocation that reaches a session other
than the one it started from. The limit of 1000 refreshes is the constant
`MaxRefreshCount`, small enough to be reached. With the limit 1 of `SessionRaces.cfg`
the last refresh is also the first, so in this run a stale write can repeat a version
but not set it back below another; that case of `CutOffOnlyAtLimit` and
`CountExactUntilReplay` rests on the proofs, which hold for every limit. Times are in units of the cleanup
period with `SessionTTL < AbsoluteTTL`, as 24 hours and 30 days are. `MaxVersion`,
`MaxClock`, `MaxBoots` and `QuietAfter` (no login or restart after it, so that the
clock leaves room for the end of the last session) bound the model, not the code.

Fairness. `FairSpec` assumes that time goes on (`Tick`) and that a timer that is
due runs (`Cleanup`): the event loop runs due timers before it polls again, and
the interval of an hour is longer than any callback. No request is fair: clients
need not come back. Only `SessionsEnd` uses fairness.

Disagreement with the code. `TokenRotatedOnce` states what the comment at
`token-management.service.ts:161` says of a refresh token that is sent again. Two
refreshes that both read the row before either writes it are both answered; the
session then has two lines of tokens, each at the same version, and neither is
taken for reuse. From there the stale write of a third request can set
`tokenVersion` and `refreshCount` back, so the limit of refreshes binds only
clients that never send a token twice; `CountExactUntilReplay` says just that.

Nothing else is behind it. `ApartSpec` is the specification without that race: no
two refreshes of one session are between the check of the row and its write
(`RefreshesApart`). Everything else may happen as before - replays, lost answers,
failures, logins and logouts of the session meanwhile - and `TokenRotatedOnce` holds:
it is proved (`RotatedOnceApart`, below).

A consequence that holds and is worth knowing: `ReuseRevocationJustified` speaks
of tokens sent twice, not of thieves. A client whose answer was lost and which
retries with the only token it has is one of them, and loses all its sessions.

### What is proved

`SessionTokensProofs` and `SessionTheorems` prove every safety property of the passing runs for all values of the constants that
satisfy the assumptions `DisjointTables`, `Lifetimes` and `Bounds`. None is
inductive as it stands; the invariants that carry them are these:

* `TypeInv`: types, and for each place a request can wait at, which of its fields
  are set (`Stage`). It carries `TypeCorrect`, and through lemmas on what each
  action does to a row (`RowEffects`) also `RevocationIsFinal`.
* `Belonging`: a row exists for every token, in hand or in flight, with its
  subject and family. Gives `TokensBelong`.
* `Counted`: the row's counter, and every counter a request read, is at most the
  number of rotations written. Gives `LimitNeverEarly`.
* `Timed` (`TimerOnTime`, `Dated`, `LookedAt`): the timer is never overdue, a row
  keeps the two dates it got at creation, and a live row that has expired did so
  after the last look of the timer. Gives `LifetimeBounded` and `AbsoluteNeverBinds`.
* `InTurn`: for a user who never sent a token twice, each live session has either
  exactly one unused token at the row's version or one request at work on it.
  This is why a mismatch implies a replay; gives `ReuseJustified`.
* `Exactness` on top of `InTurn` and `Pristine`: such a session's counter is its
  number of rotations. Gives `CountExact`.
* `OneToken`: when refreshes of a session do not overlap, each version up to the number
  of its rotations was reached with a token of its own (`OneEach`), so there are no
  fewer tokens sent than rotations (`VersionsCount`, by an injection). Gives
  `RotatedOnceApart`, which is about `ApartSpec`: atomicity of check and write is all
  that the detection of reuse lacks.
* `LifecycleImplemented` maps every action to an action of `SessionLifecycle` or a
  stutter, one lemma per abstract action.

`SessionsEnd` is a liveness property and is model-checked only.

## 3. YouTube accounts

### What is modelled

`YtAccounts.tla` models the table `creator_account_map`, the credentials of the
one `oauth2Client` of the process and the requests in flight.

| TLA+ | code |
|---|---|
| `rows[i]`, `Row` | a row; `kept` says whether it is there; `channel` is its mail address and stands for `creatorId` and `status` too, which are read, given and saved like it and decide nothing here |
| `client` | the credentials of `oauth2Client` |
| `req[r].at` | the await at which a handler waits |
| `given` | history: the accounts whose tokens the callback, a `POST` or a `PUT` gave for a row |
| `GetUserEmail`, `CreateCreatorEntry` | the callback before and after the mail address is known; `PostCreatorEntry` is the endpoint that saves a row directly, over one that is there or was deleted if the body names its `id` |
| `UploadBegin` ... `UploadInsert` | `uploadVideo` from `setCredentials` over the validity test, the refresh and `updateCreatorEntry` to `videos.insert` |
| `GetChannelInfo`, `ChannelInfoRefused`, `RefreshToken`, `RefreshTokenAnswer` | channel info and the refresh endpoint; the Google library refreshes on its own when it has no access token or Google refuses it |
| `UpdateFind`/`UpdateSave` | the two awaits of `updateCreatorEntry` called by a `PUT`, which sets any of the columns and leaves the others as found: each is any account, the one found included |
| `DeleteFind`/`DeleteRow` | the two awaits of `deleteCreatorEntry` |

A token is represented by the channel it belongs to. Whether Google finds an
access token good or expired is a free choice at every test. `setCredentials` and
the call that follows it without an await are one step, because the library reads
the credentials when the call is made. `save` looks the row up and writes it; it
is one step that inserts the row when it is gone. The callback gets the tokens of
one account; nothing in a `POST` or a `PUT` ties the mail address, the access token
and the refresh token to one account, so each ranges over all of them.

### What is checked

| run | instance | properties |
|---|---|---|
| `YtRaces.cfg` | three requests, two channels, one row | `TypeOK`, `StoredTokensBelong`, `OwnChannelIfUndisturbed`, `SavesLikePartialUpdate` |
| `YtUpload.cfg` | two requests | `VideoReachesOwnChannel`, which the code violates |
| `YtDelete.cfg` | two requests | `DeletedStaysDeleted`, which the code violates |

Two channels are the least that can be confused; the third request lets a second
one disturb the first after another did. One row is enough for `YtRaces.cfg`, as
the requests meet in the client whatever row they work on (callback, refresh
endpoint and every `POST` bring the other channel) and in the table only on the
same row; the other two runs have two rows. Nothing is fair: no liveness is
claimed, as every wait is for Google or the database.

What holds of the rows. `StoredTokensBelong`: a row holds no token but those given
for it and Google's renewals of them, although the uploads that renew tokens share
the client, because the stored token is taken from the answer of the request's own
refresh. So the row of a channel that was connected by the callback and never
given another account's tokens keeps its own. It does *not* hold that the tokens of
a row are those of its mail address, nor that they are the last ones given:

- a `PUT` (or a `POST`) may give the tokens of one account and not its mail
  address, or an access token of one account and a refresh token of another;
- an upload reads the tokens when it begins and writes them, renewed or not, into
  the row it reads again later (`yt-auth.service.ts:263-266`). A `PUT` that connects
  the row to another account in between loses its tokens to the old ones and keeps
  its mail address.

`SavesLikePartialUpdate` says that the second takes such an overlap: an upload
during which nobody writes the row leaves its refresh token and puts in no access
token but the one there or its renewal, and nobody who writes before the upload's
second read loses any other column. `stale` tells the two apart ("tokens": written
since the upload began, "row": since it read the row again).

Disagreements. A video is published with whatever credentials the shared client
holds when `videos.insert` runs, so an upload can go to another creator's channel
(`VideoReachesOwnChannel`). What holds is weaker: it goes to the channel of the
access token in its row, as read or renewed, if no other request set the client
meanwhile. And an update or upload under way while its row is deleted inserts it
again (`DeletedStaysDeleted`; that a `POST` with the row's `id` does too is left
aside, since it asks for it).

These races are all there is behind the disagreements, which is proved below.
`UploadsApartSpec` is the specification in which no other request uses the client
while an upload is under way (`UploadsApart`); `DeletesApartSpec` the one in which
no save of a row waits for its turn between the lookup and the end of a deletion of
it (`DeletesApart`). All other interleavings, failures and restarts remain.

### What is proved

`YtAccountsProofs` proves the four properties of `YtRaces.cfg`, and the two others for
the specifications without the races, for any number of channels, rows and requests. The invariant `IInv` says of every request (`Good`)
that the tokens it carries were given for its row, that the client still has the
access token an undisturbed upload put there and that the table still has what a
request that is not stale read; and of the table that the tokens in it were given. Three lemmas, one per kind of step (a
request goes on, sets the client, writes a row), do the part about the other
requests once. `OwnChannelApart` adds that nobody disturbs an upload
(`Undisturbed`), since whoever would uses the client before its step or after it;
`DeletedApart` adds that a row about to be saved is there (`SavesKept`), which only
the deletion of such a row could end.

## 4. Users

### What is modelled

`Users.tla` models the tables of creators and editors, which users have a row of
preferences, and the requests that write them.

| TLA+ | code |
|---|---|
| `users[u]`, `Row` | a row of `creators` or `editors`; `name` stands for the columns an update can change besides mail address and mobile number, `login` numbers the login `lastLoginAt` dates from |
| `prefs` | the users with a row in the table of preferences |
| `RegisterEmail`, `RegisterMobile`, `RegisterInsert`, `RegisterConflict`, `RegisterPreferences` | the statements of `register`: two lookups, the insert of the user or its refusal by a unique column, the insert of the preferences |
| `UpdateFind`, `UpdateMerge`, `UpdateWrite`, `UpdateAnswer` | `update`: the row read, for an editor read once more by its repository, written back with what was asked for, and the answer |
| `Login`, `Logout`, `TouchFind`, `TouchWrite` | the write at the end of a login or logout; for an editor the repository reads the row and writes all of it |
| `WriteConflict`, `RequestFails`, `Restart` | an identifier taken, a failing statement, the end of the process |

Confirming codes, hashing the password and choosing an access level happen while a
registration waits at `insert`; what they decide is whether it goes on, and a
request that does not is one that fails (what becomes of the rows of codes is in
`Otp`). What preferences contain is left out: an
update of a user without them is refused, after its row was written. A creator's
logout asks to write no column and has no action; the copies for mobile and mail
logins in `auth.service.ts` write what the password login writes.

### What is checked

| run | instance | properties |
|---|---|---|
| `UsersRaces.cfg` | one creator, two editors, two mail addresses, two mobile numbers, two requests, one login | `TypeOK`, `PreferencesUnlessCutShort`, `ConflictOnlyIfRaced`, `ChangesOnlyAsked` |
| `UsersLogin.cfg` | two editors, two requests, one login | `LoginTouchesOnlyLastLogin`, which the code violates |

Two requests suffice for a request to be overtaken by another, and the creator
besides the editors for identifiers shared between the tables, which nothing
forbids. Updates ask for a mail address or a name; a mobile number is treated as
the mail address is. `MaxLogins` bounds the model. Nothing is fair and no liveness
is claimed.

What holds is conditional throughout. A user has no preferences only if its
registration was cut short between the inserts, and then for good: its address is
in use, so it cannot register again. The database has to refuse a registration
only if another request wrote one of its identifiers after the lookup. A request
changes only what it was asked to change if no other wrote the row after it read
it. The creators' login is the exception, since it writes one column.
Disagreement: the editors' login writes the whole row (`user.repository.ts:150`),
so it undoes an update it overlapped, mail address included
(`LoginTouchesOnlyLastLogin`), though its comment says it updates the last login.
Updates are the only cause: without one of the same editor about to be written while
a login or logout has the row in hand (`TouchesApart`, `TouchesApartSpec`) the property
holds, and logins may overlap each other.

### What is proved

`UsersProofs` proves the four properties of `UsersRaces.cfg`, and
`LoginTouchesOnlyLastLogin` for `TouchesApartSpec`, for any number of users,
identifiers and requests. `IInv` says of each request that its record is
typed, that its user is there, and (`Current`) that the table still has what a
request that is not stale read; `Paired` adds that the pending inserts of
preferences are of different users and that nobody cut short has preferences.
`TouchesHold` says that the row a login has in hand is that of the table but for the
login; without updates meanwhile it is inductive and gives `TouchesApartOnlyLogin`.

## 5. Codes for mail addresses and phone numbers

### What is modelled

`Otp.tla` models the table `otps`, the codes under way to their addresses and the
requests that make and confirm them.

| TLA+ | code |
|---|---|
| `otps[s]` | what became of send `s`: the message under way or arrived, its row pending or verified; the row's id and the send's are one |
| `now` | time in the windows codes are generated for: 60 seconds for mail, 30 for messages |
| `RequestCode`, `Deliver`, `SendAnswered`, `SaveRow` | `sendOtpMail` and `requestMobileOTP`: the code generated, the message out, the answer of the service (from which the row's expiry is counted), the insert |
| `RequestTestCode` | a test address: a random code is kept in the row and nothing is sent |
| `FindPendingOTP`, `CheckVerification`, `MarkAsVerified` | `verifyOTP` and `verifyOtpMail`: the latest pending row, the check of the code, the update |
| `Verify`, `Found` | `OTPRepositoryAdaptor.verify`: the row looked up by address and code and marked without a check. `verifyOTP` and `verifyOtpMail` call it for test addresses; `register` of either half calls it for every mobile number when `MOBILE_VERIFICATION` is on, and the code of a registration may be left out |
| `StoredCode` | the column `code`: `requestMobileOTP` leaves it empty for numbers that are not a test's |
| `Accepts` | `OtpService.verifyToken` (this window or the one before) and `Fast2SmsService.checkVerification` (this window) |

Addresses have nothing in common but the process, so one clock stands for windows of
either length. What Twilio answers is its own affair and a free choice. Clients
confirm with codes that have arrived at their address, late or used ones included;
a code that was never sent is refused and changes nothing. A registration may come
without a code: TypeORM drops a condition that is undefined, so the look-up takes any
pending row of the number, of a test number or not (`None` in `Confirm`). Without a
code a mail's check throws and changes nothing. What the rate limiter
refuses is in `Logins`. The creator and the editor half share the table and their
copies of the handlers are the same actions; the editors' mail login is not one,
because it checks the code against the clock and leaves the rows alone.

### What is checked

`OtpCodes.cfg`: an address of each kind, three sends, two requests, a clock of three
windows, rows that live for two; the random codes of test addresses are two.

* `ConfirmedOnceUnlessOverlapped`: a row confirms once, and more often only for
  confirmations that held it at the same time. Nothing stronger holds, because
  marking is not conditional on the row being unverified.
* `ArrivedCodesConfirm`: by the confirmation endpoints and the logins, a code that
  arrived and is within its time is confirmed unless its row was used or was not
  saved. A registration is no such way, and the property says that, too: it looks
  for the code in a column that is empty for every number but the test numbers. With
  `MOBILE_VERIFICATION` on it refuses a production number every code, arrived in
  time or not, and takes any pending row of the number from a client that gives
  none. That row is used up, also when the registration is then refused for its
  mail code or fails. In the endpoints the check does not know which row a
  code belongs to, so with several codes under way one uses up the row of another;
  the numbers still come out right. The expiry of a row never refuses a code the
  clock accepts, so the ten minutes matter for test addresses only.
* `ImplementsLifecycle`: `OtpLifecycle.tla` is what a row promises without messages,
  codes and addresses. It is opened once, and whoever it confirms came while it was
  neither used nor expired. Expiry and use are looked at when the row is read, never
  at the mark: a request that came in time is confirmed however long its check takes,
  and two that came together may both be.

Two windows are the least life the assumption `Times` allows and the tightest for the
second property; two requests suffice for two confirmations of one row, and three
sends for a code whose row another code used while a third is pending.

### What is proved

`OtpProofs` proves the four properties for any number of addresses, sends and
requests and any life of a row above one window. The inductive invariant `IInv`
adds which send a request waits with (`Waiting`), that no two make the same one
(`Alone`), that requests holding one row have overlapped (`Held`), how expiry and
code are related (`Dated`) and where codes without a row are (`Accounted`). The
refinement needs only `Typed` and `Waiting` of it: up to the save no step changes what
clients see of a row (`MakingRefines`), then each step is one of the abstract
specification or lets a client go (`Leaves`).

## 6. Maps and the pool of connections

### What is modelled

`EditorMaps.tla` models the handlers of `map.repository.ts` and the pool of database
connections that every request of the process takes one from.

| TLA+ | code |
|---|---|
| `rows` | the committed rows of `creator_editor_map`, `account_editor_map` and, for requests of other modules, of any other table; of a row only its status |
| `conn[c]` | who holds connection `c`, and the transaction and the uncommitted writes the server keeps for it |
| `Open`, `StartTransactionThrows` | `connect` and `startTransaction`, which stand before the `try` |
| `Find`, `FindByCreatorIdAndEditorId`, `NotFound`, `RequestEditor`, `Save`, `Update`, `Delete` and the `Account` ones | what the handlers do inside the `try` |
| `Fail`, `Rollback` | a statement that throws, and the `catch` |
| `Commit` | `commitTransaction` and the `finally`; the find with which `update` ends changes nothing, whether it succeeds or not |
| `OtherWrite`, `WriteAlone` | an update or a delete of another repository, such as `invalidate` or `markAsVerified`: one statement with no transaction of its own |
| `left`, `joined`, `promised` | history: connections in a transaction left open, rows written on such a one, what requests were told |

The server is external and modelled from how the code uses it: read committed
isolation, row locks held to the end of a transaction, `START TRANSACTION` inside a
transaction is a warning, every statement of an aborted transaction is refused until
a rollback. `release` gives a connection back as it is. The repositories' `save`
calls elsewhere start and end a transaction like the handlers here and add nothing.
Handlers of `media.repository.ts` have the same shape and are in `MediaStore`.

The point is the early return of `findByCreatorIdAndEditorId`: when the pair has a
map it answers from inside the `try` with neither commit nor rollback, and the
connection goes back to the pool in its transaction. A later session invalidation
on that connection is answered and not committed; the next handler's commit takes it
along, the next rollback or restart drops it. Until then it holds its row lock. If a
statement fails there, the transaction is aborted, and the next handler's
`startTransaction` throws before the `try` that would give the connection back: the
pool has one connection less. No document or comment says anything about this, so
it is no finding against one; the properties say exactly how far it reaches.

### What is checked

`MapsPool.cfg`: a row of each table, two requests, two connections, one status.

* `OnlyLookUpLeavesOpen`: that return is the only path of all handlers, errors
  included, that gives a connection back in a transaction or loses it.
* `AcknowledgedWritesKept`: what requests were told about a row is in the table
  unless the row was written on a connection left open.
* `CommitsOwnWrites`: a request commits only its own write, unless its connection
  had been left open.
* `NotAllWait`: as long as no connection is left open, some request in flight has what
  it waits for: requests never all wait for each other, be it for connections, for
  row locks or for both.
* `ImplementsTable`: to their clients the handlers are `RowTable`, a table whose rows
  change one at a time together with the answer and are not undeleted. Rows written on
  a connection left open are the exception: they `Join` it and are told about apart
  from their change; even they never come back.
* `RequestsEnd`: while no connection is left open every request ends: each gets a
  connection, and row locks are always released by requests that wait for nothing.

An update and a delete take the same steps and differ in the value they write, so
with one status a lost write shows as a deleted row that is back. Two connections
and two requests are the least for a lock that another request waits for and for a
connection that passes from one to the other; a row of another table on a
connection with a handler's row is the least for a foreign commit.

Fairness: strong for getting a connection and for getting a row lock, because the
pool and the server serve those who wait in order; weak for the other steps of a
request, which are answers of the server. Starting requests, failing and restarting
need not happen.

### What is proved

`EditorMapsProofs` proves the type invariant, the safety properties and the
refinement for any pool, any number of rows and requests. The inductive invariant `IInv` adds whose an
uncommitted write is (`Accounted`), that a handler commits what it is going to
answer (`OwnWrite`) and that single statements run inside a transaction only on a
connection left open (`InTransaction`).

* `NoDeadlock` is the proof of `NotAllWait`, with the assumption that the pool has a
  connection (`PoolNotEmpty`). If a request waits for a connection and none is free,
  somebody holds one; if a request waits for a row, whoever has written that row
  holds a connection and, unless it was left open, is about to commit or roll back,
  for which it waits for nobody. No handler holds more than one connection or waits
  for a second row.
* `MapsAreATable` maps every step to a `Change`, a `Join` or a stutter of `RowTable`. It
  needs `Locked` (who has written a row has it locked and found it there) and
  `NothingUndone` besides `IInv`; the run checks the parts of `IInv` that are
  properties, and TLC agreed to the others before they were proved.

`RequestsEnd` is checked by TLC only.

## 7. Media rows and S3 objects

### What is modelled

`MediaStore.tla` models the table `media`, the objects of one S3 bucket and the
handlers of `media.repository.ts` and `s3.controller.ts`.

| TLA+ | code |
|---|---|
| `rows`, `objects`, `bucket` | committed rows, objects, whether the configured bucket exists; a row and its object have one id, because the object's name is made from a fresh uuid |
| `req[r].op`, `req[r].at` | the handler and the await it waits at |
| `Call`, `Create`, `Upload`, `CreateBucket` | the endpoints |
| `Connect` | `connect` and `startTransaction`, before the `try` |
| `BucketExists`, `PutObject`, `DeleteFile` | the calls to S3 of `uploadFile` and `deleteFile` |
| `FindOne`, `Insert`, `Write` | the statements of find, save, update and delete; `Write` waits for the lock of its row |
| `Commit`, `Answer` | the commit, and the `finally` with the answer |
| `End`, `RequestFails`, `Restart` | an await that throws, with the rollback of the `catch`; the end of the process |
| `taken`, `saved`, `begun`, `deleted`, `direct`, `unsaved`, `undeleted` | history |

The transaction covers the row alone. S3 is external: it does what it is asked or the
call throws; a call that throws after it took effect is the call followed by a
failure. A row without a key of its object cannot be made through the service, so the
test for the key is left out, and of what an update changes nothing matters here.
`upload-image` and `upload-video` let the caller name the object; names of objects
the table never knew concern nobody. Finding all is like finding one. The pool is
the requests' own here; that it is shared with handlers that lose connections is in
`EditorMaps`.

### What is checked

`Media.cfg`: one medium, three requests, two connections.

* `RowsHaveObjects`: a row names an object that is not there only while a deletion
  is between S3 and its commit, or after one was cut short there.
* `OrphansAccounted`: an object without a row is being saved, was left by a save
  that was cut short, or was uploaded directly.
* `AnswersAreFinal`: an answered save has row and object until a deletion gets to S3;
  an answered deletion is final but for an upload under the name.
* `ImplementsLifecycle`: the component implements `MediaLifecycle`, in which a row is
  made once and with its object there, goes only after its object was removed and never
  comes back. `Stage` says from the tables and the deletions under way or cut short how
  far the row of a medium has come.
* `RequestsEnd`: every request ends, although connections are held across S3 calls
  and row locks.

A failed save or deletion is cleaned up by nobody: the first two properties say that
this is the only way the two stores come apart. Media share only the pool, and ids
are fresh, so one medium suffices; three requests are the least for a deletion, a
second one and an upload or a waiting third on two connections.

Fairness: strong for each request, because the pool serves who waits in order and so
does the server for a row lock; each other await is an answer of S3 or the server.
Calls, failures, restarts and the making of the bucket are not fair.

### What is proved

`MediaStoreProofs` proves the type invariant, the three safety properties and the
refinement for any number of media and requests and any pool. The inductive invariant adds that a
request is at a place of its handler (`Placed`), that saves have ids of their own
(`SavesApart`), what a save has and has not done by each await (`SavesNew`), that a
deletion is noted and its object gone (`DeletionsNoted`), and that what was saved,
begun or left is no longer being saved (`Settled`). `MediaLifecycleImplemented` maps
each step to `Put`, `Enter`, `Strip`, `Drop` or a stutter; the same invariant carries it.
`RequestsEnd` is model-checked.

## 8. Rate limits, access policy and logins

### What is modelled

`RateLimits.tla` models the counters of `rate-limiter-flexible`; `AccessPolicy.tla`
holds the decisions of `auth-policy.service.ts` and `validateToken` as operators;
`Logins.tla` composes both with the login handlers of `auth.service.ts` and
`user-authentication.service.ts`.

| TLA+ | code |
|---|---|
| `Keys`, `Points`, `Duration`, `BlockDuration` | the limiters and their keys: mail address and mobile number share `verificationLimiter` (3 in 10 minutes, 30 blocked) under different keys, `loginLimiter` (5 in 15 minutes, 1 hour), the refresh limiter by token (5 in 1 minute, 5 minutes) |
| `counters` | the record of a key, gone when it expires |
| `Admit`, `Refuse`, `Blocked` | `consumePoint`: a point in the window, or the block |
| `Forget`, `Restart` | the process ends: counters and requests are lost |
| `admitted` | history: when calls were let through |
| `InitiateMailLogin`, `InitiateMobileLogin`, `VerifyOtpMail`, `RefreshAccessToken` | calls that take a point; the rest of them is in `Otp` and `SessionTokens` |
| `ValidateUser`, `LoginWithPassword` | the local strategy and `login`: a point, the lookup, the test of the channel |
| `CompleteMobileLogin`, `CreatorCompleteMailLogin`, `EditorCompleteMailLogin` | the logins by code |
| `CreateSession`, `TouchFind`, `Touch` | the session is opened, then the user is written; an editor's row is read and written back whole |
| `UpdateFind`, `Merge`, `UpdateWrite` | `update` of the user: status and channels |
| `IsChannelAuthorized`, `IsTokenUsageValid`, `CanAccessResource`, `ValidateToken` | the methods of the same names |

One user, whose half is chosen at the start, is enough: keys of different users and
the limiters of the two halves have nothing in common (each OTP module has one
`RateLimiterService`). Mail is taken to be configured; without it nothing is sent and
nothing counted. The clock is in units in which windows and blocks are counted; the
library's arithmetic is external and modelled from its documented behaviour: the
record of a key expires its duration after the first point, the first refused call
sets its block, later ones change nothing.

The code has its peculiarities, all of them in the model: a success does not reset
a counter; sending a mail and confirming its code take points of one counter, while
confirming a message takes none; an editor's mailed code is compared with the clock
alone, so it takes no point and is good again within its two windows; logins by code
do not look at the channels of the user, and no login looks at its status, so that an
inactive user gets a session which only validation refuses. `consumePoint` turns
refusals into an answer of its own only if they are an `Error`, which the library's
are not: the call is refused with another status, and is refused all the same.

### What is checked

`Logins.cfg`: five calls, two requests at once, a clock to 3; two points and a window
of 2 for mail, one point and a window of 1 for the others, blocks of 2.

* `BurstBounded`: of as many consecutive calls as twice the points, the first and the
  last are at least a window apart. One less can come together: the last of one
  window and those of the next.
* `RefusedOnlyIfSpent`: a call is refused only if that many were let through since a
  window and a block ago; going on calling does not prolong a block.
* `SessionsUsable`: every session that was opened is good for its channel exactly as
  long as its user is active, the api always: logins that do not test the channel
  never open one that validation refuses an active user, whatever stale row is
  written back. Active is what the row says now: that a login's stale write can undo
  a deactivation is a matter of `ChangesOnlyAsked` and `LoginTouchesOnlyLastLogin`
  of `Users`, not of this property.

Two points are the least with which a window has an inside. Five calls are one more
than twice the points of mail, and the clock reaches the end of a block. `MaxCalls` and
`MaxTime` bound the model, which therefore ends; no liveness is claimed, and deadlock
is not checked in this run.

### What is proved

`LoginsProofs` proves the four properties for any limits that satisfy the assumption
`Limits` (a block is no shorter than a window, as with the defaults), any number of
calls, requests and channels. For each key the invariant `Limited` says where its
current window began: the counter counts the calls since, its end is a duration, or
when blocked less than a block and a duration, after the first of them, and as many
calls before it as there are points lie a duration back. Lemmas `Opens`, `Counts`,
`Blocks` and `Refused` prove it for one limiter in plain arithmetic. `RowsComplete` says
that no row, stored or about to be written, lacks a channel of registration.

## 9. Plan

In order of importance; each module comes with its runs, mutants and proofs.

1. `SessionTokens`, `SessionLifecycle` - done.
2. `Otp`: concurrent confirmations, sent but not saved codes, codes that overtake
   each other - done.
3. `Users`: registration against itself, creator and editor updates, login's
   update - done.
4. `YtAccounts`: the shared OAuth client, deletion against update, token refresh -
   done.
5. `EditorMaps`: connections of the pool, transactions left open, lost writes - done.
6. `MediaStore`: rows and objects under failures and concurrent deletes - done.
7. `RateLimits`, `AccessPolicy`, `Logins`: counters, blocks, what sessions are good
   for - done.

8. What the components promise, apart from how: `RowTable` for `EditorMaps`,
   `MediaLifecycle` for `MediaStore`, `OtpLifecycle` for `Otp`, as `SessionLifecycle` is for `SessionTokens` - done.
9. For each disagreement, that the race the run shows is its only cause: `ApartSpec`,
   `UploadsApartSpec`, `DeletesApartSpec`, `TouchesApartSpec` - done.

The specifications under 9 are `Spec` with one exclusion conjoined to the next state.
They exclude no single request, only that two are at given places at once. They have
no runs of their own: named in the place of `Spec` in the configuration that shows the
violation, each of them makes TLC find none.

What only TLC checks: the liveness properties `SessionsEnd` and the two `RequestsEnd`,
which rest on fairness and so on `ENABLED` and are out of the prover's reach, and the
four runs that exhibit a disagreement. Theorems about data by induction and recursive
operators are out of its reach, too; the modules have neither. Every invariant, action
property and refinement of a passing run is proved.

## 10. Not modelled

* Cryptography (signatures, hashes and codes are unforgeable values), HTTP and
  validation of bodies, logging, DTOs, wiring, health.
* Second factors: `setup2FA` is reached by no controller and nothing else sets
  `twoFactorEnabled`, so neither the code nor its limiter ever runs.
* `PasswordPolicyService`, `resetPoints` and `getRemainingPoints`: called by nobody.
* `determineUserAccessLevel` and the permissions in the database (`check_permission`):
  they decide about tokens that carry a url, and no service issues one.
* The limiter by IP address (`IpRateLimitGuard`): a guard of an external package.
* That a pair of creator and editor can have two maps: neither code nor documents say
  it cannot, so there is no property to state.
* `policy.sql`: nothing reads it.
