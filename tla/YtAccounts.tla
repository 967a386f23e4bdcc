----------------------------- MODULE YtAccounts -----------------------------
(***************************************************************************)
(* The YouTube accounts of creators and the one OAuth client of the        *)
(* process.                                                                *)
(*                                                                         *)
(* Every request that talks to Google first stores credentials in the      *)
(* shared client and then goes on over several awaits; a call to Google    *)
(* takes the credentials the client holds when the call is made.  Account  *)
(* rows are read, changed in memory and saved whole.                       *)
(*                                                                         *)
(* A token is represented by the channel (the Google account) it belongs   *)
(* to: two tokens of a channel differ only in whether Google still accepts *)
(* them, and Google may find any access token expired at any time.         *)
(***************************************************************************)
CONSTANTS
  Channels,   \* Google accounts, and the tokens Google issues for them
  Rows,       \* ids of creator_account_map, fresh uuids never used again
  Requests,   \* handlers that can be in flight at once
  None        \* no token, no row

ASSUME NoneIsNothing == None \notin Channels \cup Rows

\* A row of the table; `kept` says whether it is there.  `channel` is the mail address,
\* the account a row is for, and stands for creatorId and status too: they are
\* read, given and saved as it is, and nothing is decided by them.
Row == [kept: {"never", "yes", "deleted"}, channel: Channels \cup {None},
        access: Channels \cup {None}, refresh: Channels \cup {None}]

Entry(channel, access, refresh) ==
  [kept |-> "yes", channel |-> channel, access |-> access, refresh |-> refresh]
NoRow == [Entry(None, None, None) EXCEPT !.kept = "never"]

Credentials(access, refresh) == [access |-> access, refresh |-> refresh]

VARIABLES
  rows,     \* creator_account_map
  client,   \* credentials of the shared oauth2Client
  req,      \* the requests in flight
  given     \* history: the accounts whose tokens callers gave for a row

vars == <<rows, client, req, given>>

\* Where a request waits, its row's id and the row it has in memory; history:
\* whether another request set the client since this one did, and whether another
\* wrote the row ("row") since this one read it, or since it read the tokens it
\* puts into the row ("tokens").
Request == [at: {"idle", "callback", "validity", "refresh", "find", "save",
                 "insert", "update", "delete", "call", "refreshing"},
            id: Rows \cup {None}, row: Row, disturbed: BOOLEAN,
            stale: {"no", "tokens", "row"}]

Waiting(at, i, row) ==
  [at |-> at, id |-> i, row |-> row, disturbed |-> FALSE, stale |-> "no"]
Idle == Waiting("idle", None, NoRow)

Init ==
  /\ rows = [i \in Rows |-> NoRow]
  /\ client = Credentials(None, None)
  /\ req = [r \in Requests |-> Idle]
  /\ given = [i \in Rows |-> {}]

Kept(i) == rows[i].kept = "yes"

\* Request r goes to its next await and leaves the client alone.
Go(r, next) == req' = [req EXCEPT ![r] = next]

\* Requests that run over the awaits in between find other credentials.
Disturb(r, next) ==
  req' = [q \in Requests |->
            IF q = r THEN next
            ELSE [req[q] EXCEPT !.disturbed = req[q].at # "idle"]]

\* Request r replaces the credentials of the client and goes on to next.
SetCredentials(r, credentials, next) ==
  /\ client' = credentials
  /\ Disturb(r, next)

\* Request r writes row i and goes on to next; others that hold the row are stale.
Write(r, i, row, next) ==
  /\ rows' = [rows EXCEPT ![i] = row]
  /\ req' = [q \in Requests |->
              IF q = r THEN next
              ELSE [req[q] EXCEPT !.stale = IF req[q].id = i THEN "row" ELSE @]]

\* A caller gives tokens for row i.
Give(i, tokens) == given' = [given EXCEPT ![i] = @ \cup tokens]

\* The answer to a refresh: the client keeps the refresh token it holds by now.
Refreshed(r, c, next) ==
  /\ client' = [client EXCEPT !.access = c]
  /\ Disturb(r, next)
-----------------------------------------------------------------------------
(* A creator connects a channel: the code is exchanged for tokens, the     *)
(* mail address is asked for with them, and a row is inserted.             *)

GetUserEmail(r, c) ==
  /\ req[r].at = "idle"
  /\ SetCredentials(r, Credentials(c, None),
                    Waiting("callback", None, Entry(c, c, c)))
  /\ UNCHANGED <<rows, given>>

CreateCreatorEntry(r, i) ==
  /\ req[r].at = "callback"
  /\ rows[i].kept = "never"
  /\ Write(r, i, req[r].row, Idle)
  /\ Give(i, {req[r].row.access, req[r].row.refresh})
  /\ UNCHANGED client

HandleOAuthCallback(r) ==
  \/ \E c \in Channels : GetUserEmail(r, c)
  \/ \E i \in Rows : CreateCreatorEntry(r, i)

\* The endpoint of the creator service saves an entry it is given, whatever account
\* each column is of.  The entry may name its id: then the row is overwritten, or
\* inserted again, and a refresh token that is not given stays.
PostCreatorEntry(r, i, channel, access, refresh) ==
  /\ req[r].at = "idle"
  /\ Write(r, i, Entry(channel, access, refresh), Idle)
  /\ Give(i, {access, refresh})
  /\ UNCHANGED client
-----------------------------------------------------------------------------
(* Calls with a row's credentials.                                         *)

RowCredentials(row) == Credentials(row.access, row.refresh)

\* The channel a call reaches: that of the client's access token, or without one
\* that of the refresh token, which the client exchanges first.
Target == IF client.access # None THEN client.access ELSE client.refresh

\* The client itself asks for an access token, with the refresh token it holds.
ClientRefreshes(r) ==
  /\ client.refresh # None
  /\ Go(r, Waiting("refreshing", None, [NoRow EXCEPT !.refresh = client.refresh]))

\* The call is made in the step that sets the credentials.
GetChannelInfo(r, i) ==
  /\ req[r].at = "idle"
  /\ Kept(i)
  /\ SetCredentials(r, RowCredentials(rows[i]), Waiting("call", i, rows[i]))
  /\ UNCHANGED <<rows, given>>

ChannelInfoAnswer(r) ==
  /\ req[r].at = "call"
  /\ Go(r, Idle)
  /\ UNCHANGED <<rows, client, given>>

\* Google refuses the access token: the client refreshes and calls again.
ChannelInfoRefused(r) ==
  /\ req[r].at = "call"
  /\ ClientRefreshes(r)
  /\ UNCHANGED <<rows, client, given>>

\* Mutant: the credentials are set once per process, not once per upload.
UploadBegin_KeepsClient(r, i) ==
  /\ req[r].at = "idle"
  /\ Kept(i)
  /\ IF client.access = None
     THEN SetCredentials(r, RowCredentials(rows[i]), Waiting("validity", i, rows[i]))
     ELSE Go(r, Waiting("validity", i, rows[i])) /\ UNCHANGED client
  /\ UNCHANGED <<rows, given>>

UploadBegin(r, i) ==
  /\ req[r].at = "idle"
  /\ Kept(i)
  /\ SetCredentials(r, RowCredentials(rows[i]), Waiting("validity", i, rows[i]))
  /\ UNCHANGED <<rows, given>>

\* getTokenValidity finds the token good.
UploadValid(r) ==
  /\ req[r].at = "validity"
  /\ Go(r, [req[r] EXCEPT !.at = "find"])
  /\ UNCHANGED <<rows, client, given>>

\* Or expired: refreshToken sets the refresh token alone and asks for a new one.
UploadExpired(r) ==
  /\ req[r].at = "validity"
  /\ SetCredentials(r, Credentials(None, req[r].row.refresh),
                    [req[r] EXCEPT !.at = "refresh", !.disturbed = FALSE])
  /\ UNCHANGED <<rows, given>>

\* Mutant: the new token is read back from the client.
UploadRefreshed_FromClient(r) ==
  /\ req[r].at = "refresh"
  /\ LET c == IF client.access # None THEN client.access ELSE req[r].row.refresh
     IN  Refreshed(r, c, [req[r] EXCEPT !.at = "find", !.row.access = c])
  /\ UNCHANGED <<rows, given>>

UploadRefreshed(r) ==
  /\ req[r].at = "refresh"
  /\ LET c == req[r].row.refresh
     IN  Refreshed(r, c, [req[r] EXCEPT !.at = "find", !.row.access = c])
  /\ UNCHANGED <<rows, given>>

\* How stale the tokens are that a request holds when it reads the row again.
HeldTokens(stale) == IF stale = "no" THEN "no" ELSE "tokens"

\* Mutant: the row need not be there.
UploadFind_Unchecked(r) ==
  /\ req[r].at = "find"
  /\ Go(r, [req[r] EXCEPT !.at = "save", !.stale = HeldTokens(@),
              !.row = [rows[req[r].id] EXCEPT !.access = req[r].row.access,
                                              !.refresh = req[r].row.refresh]])
  /\ UNCHANGED <<rows, client, given>>

\* Mutant: the row read when the upload began is saved.
UploadFind_NotAgain(r) ==
  /\ req[r].at = "find"
  /\ Kept(req[r].id)
  /\ Go(r, [req[r] EXCEPT !.at = "save", !.stale = HeldTokens(@)])
  /\ UNCHANGED <<rows, client, given>>

\* updateCreatorEntry reads the row again and puts the tokens into it.
UploadFind(r) ==
  /\ req[r].at = "find"
  /\ Kept(req[r].id)
  /\ Go(r, [req[r] EXCEPT !.at = "save", !.stale = HeldTokens(@),
              !.row = [rows[req[r].id] EXCEPT !.access = req[r].row.access,
                                              !.refresh = req[r].row.refresh]])
  /\ UNCHANGED <<rows, client, given>>

\* save writes the whole row, and inserts it when it is not there.
UploadSave(r) ==
  /\ req[r].at = "save"
  /\ Write(r, req[r].id, req[r].row, [req[r] EXCEPT !.at = "insert"])
  /\ UNCHANGED <<client, given>>

\* The video is inserted in the channel Target.
UploadInsert(r) ==
  /\ req[r].at = "insert"
  /\ IF client.access # None THEN Go(r, Idle) ELSE ClientRefreshes(r)
  /\ UNCHANGED <<rows, client, given>>

UploadVideo(r) ==
  \/ \E i \in Rows : UploadBegin(r, i)
  \/ UploadValid(r) \/ UploadExpired(r) \/ UploadRefreshed(r)
  \/ UploadFind(r) \/ UploadSave(r) \/ UploadInsert(r)

\* The refresh-token endpoint refreshes with any token, through the same client.
RefreshToken(r, c) ==
  /\ req[r].at = "idle"
  /\ SetCredentials(r, Credentials(None, c),
                    Waiting("refreshing", None, [NoRow EXCEPT !.refresh = c]))
  /\ UNCHANGED <<rows, given>>

\* The answer to a refresh that no row waits for: the endpoint's or the client's own.
RefreshTokenAnswer(r) ==
  /\ req[r].at = "refreshing"
  /\ Refreshed(r, req[r].row.refresh, Idle)
  /\ UNCHANGED <<rows, given>>
-----------------------------------------------------------------------------
(* Updating and deleting a row: find, then save or delete.                 *)

\* A PUT replaces what it gives, every column apart from the others: what it does
\* not give is what rows[i] has, one of the values the parameters range over.
UpdateFind(r, i, channel, access, refresh) ==
  /\ req[r].at = "idle"
  /\ Kept(i)
  /\ Go(r, Waiting("update", i, [rows[i] EXCEPT !.channel = channel, !.access = access,
                                                !.refresh = refresh]))
  /\ Give(i, {access, refresh})
  /\ UNCHANGED <<rows, client>>

UpdateSave(r) ==
  /\ req[r].at = "update"
  /\ Write(r, req[r].id, req[r].row, Idle)
  /\ UNCHANGED <<client, given>>

UpdateCreatorEntry(r) ==
  \/ \E i \in Rows, channel, access, refresh \in Channels :
       UpdateFind(r, i, channel, access, refresh)
  \/ UpdateSave(r)

DeleteFind(r, i) ==
  /\ req[r].at = "idle"
  /\ Kept(i)
  /\ Go(r, Waiting("delete", i, rows[i]))
  /\ UNCHANGED <<rows, client, given>>

DeleteRow(r) ==
  /\ req[r].at = "delete"
  /\ Write(r, req[r].id, [NoRow EXCEPT !.kept = "deleted"], Idle)
  /\ UNCHANGED <<client, given>>

DeleteCreatorEntry(r) == (\E i \in Rows : DeleteFind(r, i)) \/ DeleteRow(r)
-----------------------------------------------------------------------------
\* A request fails at an await: Google or the database refuses, or the row is gone.
RequestFails(r) ==
  /\ req[r].at # "idle"
  /\ Go(r, Idle)
  /\ UNCHANGED <<rows, client, given>>

\* The process starts again with a new client.
Restart ==
  /\ client' = Credentials(None, None)
  /\ req' = [r \in Requests |-> Idle]
  /\ UNCHANGED <<rows, given>>

Next ==
  \/ \E r \in Requests :
       \/ HandleOAuthCallback(r) \/ UploadVideo(r)
       \/ \E i \in Rows, channel, access, refresh \in Channels :
            PostCreatorEntry(r, i, channel, access, refresh)
       \/ \E i \in Rows : GetChannelInfo(r, i)
       \/ ChannelInfoAnswer(r) \/ ChannelInfoRefused(r)
       \/ \E c \in Channels : RefreshToken(r, c)
       \/ RefreshTokenAnswer(r)
       \/ UpdateCreatorEntry(r) \/ DeleteCreatorEntry(r)
       \/ RequestFails(r)
  \/ Restart

Spec == Init /\ [][Next]_vars
-----------------------------------------------------------------------------
(* Correctness.                                                            *)

\* Every variable has its type, and a request that works on a row holds one that
\* was there when it was read.
TypeOK ==
  /\ rows \in [Rows -> Row]
  /\ client \in [access: Channels \cup {None}, refresh: Channels \cup {None}]
  /\ req \in [Requests -> Request]
  /\ given \in [Rows -> SUBSET Channels]
  /\ \A r \in Requests :
       req[r].at \notin {"idle", "callback", "refreshing"} =>
         req[r].id \in Rows /\ req[r].row.kept = "yes"

\* Although all requests share one client, a row never gets a token of an account
\* nobody gave it tokens of: every token in it was given for it, by the callback, a
\* POST or a PUT, or is Google's answer to one that was.  So the row of a channel
\* that was connected and never given others keeps its own tokens.  (Which of the
\* accounts given it holds last, and whether its mail address is that account's,
\* is up to the PUTs and their overlaps with uploads.)
StoredTokensBelong ==
  \A i \in Rows : Kept(i) => {rows[i].access, rows[i].refresh} \subseteq given[i]

\* An upload reaches the account of its row's access token, as it was read or as the
\* row's refresh token renewed it, if no other request set the client between the
\* upload's own setCredentials and its last call.
OwnChannelIfUndisturbed ==
  \A r \in Requests :
    req[r].at = "insert" /\ ~ req[r].disturbed => Target = req[r].row.access

\* Rows are saved whole, with what was read before an await.  An upload that nobody
\* overtook since it read the row again saves the tokens alone, in a row that is
\* there; and if nobody wrote the row since the upload began, it leaves the refresh
\* token and puts none but a renewed access token.  So only a PUT or POST in the
\* middle of an upload has its tokens undone.  An update that nobody overtook
\* saves a row that is there.
SavesLikePartialUpdate ==
  [][\A r \in Requests :
       LET i == req[r].id IN
       /\ UploadSave(r) /\ req[r].stale # "row" =>
            /\ Kept(i)
            /\ rows'[i] = [rows[i] EXCEPT !.access = rows'[i].access,
                                          !.refresh = rows'[i].refresh]
       /\ UploadSave(r) /\ req[r].stale = "no" =>
            /\ rows'[i].refresh = rows[i].refresh
            /\ rows'[i].access \in {rows[i].access, rows[i].refresh}
       /\ UpdateSave(r) /\ req[r].stale = "no" => Kept(i)
    ]_vars

\* What the comments of uploadVideo say ("Get creator credentials", "Set
\* credentials"): the video is published with the creator's own credentials.  A
\* request that sets the shared client during one of its awaits redirects it.
VideoReachesOwnChannel ==
  \A r \in Requests : req[r].at = "insert" => Target \in {None, req[r].row.access}

\* What deleteCreatorEntry answers ("Creator with Id ... deleted successfully!!!"):
\* a deleted row is gone, until an entry with its id is posted.  A save under way
\* brings it back.
Posted(i) ==
  \E r \in Requests, channel, access, refresh \in Channels :
    PostCreatorEntry(r, i, channel, access, refresh)

DeletedStaysDeleted ==
  [][\A i \in Rows :
       rows[i].kept = "deleted" => rows'[i].kept = "deleted" \/ Posted(i)]_vars

\* Nothing else is behind the two.  The first holds as long as no request uses the
\* shared client during an upload, the second as long as nothing saves a row between
\* a delete's look at it and its end; all other requests may overlap as they like.
Uploading(r)  == req[r].at \in {"validity", "refresh", "find", "save", "insert"}
UsesClient(r) == Uploading(r) \/ req[r].at \in {"callback", "call", "refreshing"}

UploadsApart == \A q, r \in Requests : Uploading(q) /\ UsesClient(r) => q = r

DeletesApart ==
  \A q, r \in Requests :
    ~ (req[q].at = "delete" /\ req[r].at \in {"update", "save"} /\ req[q].id = req[r].id)

UploadsApartSpec == Init /\ [][Next /\ UploadsApart']_vars
DeletesApartSpec == Init /\ [][Next /\ DeletesApart']_vars
=============================================================================
