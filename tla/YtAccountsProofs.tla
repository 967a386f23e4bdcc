-------------------------- MODULE YtAccountsProofs --------------------------
(***************************************************************************)
(* Proofs of the safety properties of YtAccounts for any number of         *)
(* channels, rows and requests.                                            *)
(*                                                                         *)
(* The invariant speaks of one request at a time (Good): the tokens it     *)
(* carries were given for its row, the client still has what an            *)
(* undisturbed upload put there, and the table still has what a request    *)
(* that is not stale read.  Every step is one of three kinds - it goes on, *)
(* it sets the client, or it writes a row - and for each kind one lemma    *)
(* says that the other requests stay good and what is left to show of the  *)
(* request itself.                                                         *)
(***************************************************************************)
EXTENDS YtAccounts, TLAPS

Clients == [access: Channels \cup {None}, refresh: Channels \cup {None}]

Tokens(row) == {row.access, row.refresh}

\* The tokens of the rows that are there were given for them.
RowsGiven(rs, g) == \A i \in Rows : rs[i].kept = "yes" => Tokens(rs[i]) \subseteq g[i]

\* Request q, seen with the table rs, the client cl and the tokens given, g.
OnRow(q) == q.at \notin {"idle", "callback", "refreshing"}

Typed(q) ==
  /\ q \in Request
  /\ OnRow(q) => q.id \in Rows
  /\ q.at \notin {"idle", "refreshing"} => q.row.kept = "yes"

Carrying(q, g) ==
  /\ q.at \notin {"idle", "refreshing"} => Tokens(q.row) \subseteq Channels
  /\ OnRow(q) => Tokens(q.row) \subseteq g[q.id]

\* The refresh under way will put the token of its account into client and row.
Alone(q, cl) ==
  ~ q.disturbed /\ q.at \in {"validity", "find", "save", "insert"} => cl.access = q.row.access

\* Nobody wrote the row since the request read it, or since it read the tokens.
Fresh(q, rs) ==
  /\ q.at = "save" /\ q.stale # "row" =>
       rs[q.id].kept = "yes" /\ rs[q.id].channel = q.row.channel
  /\ q.at = "update" /\ q.stale = "no" => rs[q.id].kept = "yes"
  /\ q.at \in {"validity", "refresh", "find", "save"} /\ q.stale = "no" =>
       /\ rs[q.id].refresh = q.row.refresh
       /\ q.row.access \in {rs[q.id].access, rs[q.id].refresh}

Good(q, rs, cl, g) == Typed(q) /\ Carrying(q, g) /\ Alone(q, cl) /\ Fresh(q, rs)

Gifts == [Rows -> SUBSET Channels]

TableOK(rs, cl, g) == rs \in [Rows -> Row] /\ cl \in Clients /\ g \in Gifts /\ RowsGiven(rs, g)

IInv ==
  /\ TableOK(rows, client, given)
  /\ req \in [Requests -> Request]
  /\ \A r \in Requests : Good(req[r], rows, client, given)
-----------------------------------------------------------------------------
(* The three kinds of steps.                                               *)

\* A request that goes on disturbs nobody; a caller may give tokens as it does.
LEMMA GoStep ==
  ASSUME IInv, NEW r \in Requests, NEW next, NEW g \in Gifts, given' = g,
         \A i \in Rows : given[i] \subseteq g[i],
         Good(next, rows, client, g), Go(r, next), UNCHANGED <<rows, client>>
  PROVE  IInv'
<1>1. next \in Request
  BY DEF Good, Typed
<1>2. req' \in [Requests -> Request]
  BY <1>1 DEF IInv, Go
<1>3. ASSUME NEW q \in Requests PROVE Good(req'[q], rows, client, g)
  <2>1. CASE q = r
    BY <2>1 DEF IInv, Go
  <2>2. CASE q # r
    <3>1. req'[q] = req[q] /\ Good(req[q], rows, client, given)
      BY <2>2 DEF IInv, Go
    <3> QED
      BY <3>1 DEF Good, Typed, Carrying, OnRow
  <2> QED
    BY <2>1, <2>2
<1>4. TableOK(rows, client, g)
  BY DEF IInv, TableOK, RowsGiven
<1> QED
  BY <1>2, <1>3, <1>4 DEF IInv

\* The other requests only lose the claim on a client that was set.
LEMMA SetStep ==
  ASSUME IInv, NEW r \in Requests, NEW next, NEW cl, client' = cl, cl \in Clients,
         Good(next, rows, cl, given), Disturb(r, next), UNCHANGED <<rows, given>>
  PROVE  IInv'
<1>1. next \in Request
  BY DEF Good, Typed
<1>2. req' \in [Requests -> Request]
  <2>1. ASSUME NEW q \in Requests, NEW b \in BOOLEAN
        PROVE  [req[q] EXCEPT !.disturbed = b] \in Request
    BY DEF IInv, Request
  <2>2. \A q \in Requests : (req[q].at # "idle") \in BOOLEAN
    OBVIOUS
  <2>3. \A q \in Requests : [req[q] EXCEPT !.disturbed = req[q].at # "idle"] \in Request
    BY <2>1, <2>2
  <2> QED
    BY <1>1, <2>3 DEF Disturb
<1>3. ASSUME NEW q \in Requests PROVE Good(req'[q], rows, cl, given)
  <2>1. CASE q = r
    BY <2>1 DEF Disturb
  <2>2. CASE q # r
    <3>1. req'[q] = [req[q] EXCEPT !.disturbed = req[q].at # "idle"]
      BY <2>2 DEF Disturb
    <3>2. Good(req[q], rows, client, given) /\ req[q] \in Request
      BY DEF IInv
    <3>3. /\ req'[q] \in Request /\ req'[q].at = req[q].at /\ req'[q].id = req[q].id
          /\ req'[q].row = req[q].row /\ req'[q].stale = req[q].stale
          /\ req'[q].disturbed = (req[q].at # "idle")
      BY <3>1, <3>2, <1>2 DEF Request
    <3> QED
      BY <3>2, <3>3 DEF Good, Typed, Carrying, Alone, Fresh, OnRow
  <2> QED
    BY <2>1, <2>2
<1>4. TableOK(rows', client', given')
  BY DEF IInv, TableOK
<1> QED
  BY <1>2, <1>3, <1>4 DEF IInv

\* The other requests only lose the claim on a row that was written.
LEMMA WriteStep ==
  ASSUME IInv, NEW r \in Requests, NEW next, NEW i \in Rows, NEW row \in Row,
         NEW g \in Gifts, given' = g, \A j \in Rows : given[j] \subseteq g[j],
         row.kept = "yes" => Tokens(row) \subseteq g[i],
         Good(next, [rows EXCEPT ![i] = row], client, g),
         Write(r, i, row, next), UNCHANGED client
  PROVE  IInv'
<1>1. next \in Request
  BY DEF Good, Typed
<1>2. rows' = [rows EXCEPT ![i] = row] /\ rows \in [Rows -> Row]
  BY DEF Write, IInv, TableOK
<1>3. req' \in [Requests -> Request]
  <2>1. ASSUME NEW q \in Requests, NEW s \in {"no", "tokens", "row"}
        PROVE  [req[q] EXCEPT !.stale = s] \in Request
    BY DEF IInv, Request
  <2>2. \A q \in Requests : (IF req[q].id = i THEN "row" ELSE req[q].stale) \in {"no", "tokens", "row"}
    BY DEF IInv, Request
  <2>3. \A q \in Requests :
          [req[q] EXCEPT !.stale = IF req[q].id = i THEN "row" ELSE req[q].stale] \in Request
    BY <2>1, <2>2
  <2> QED
    BY <1>1, <2>3 DEF Write
<1>4. ASSUME NEW q \in Requests PROVE Good(req'[q], rows', client, g)
  <2>1. CASE q = r
    BY <2>1, <1>2 DEF Write, IInv
  <2>2. CASE q # r
    <3>1. req'[q] = [req[q] EXCEPT !.stale = IF req[q].id = i THEN "row" ELSE req[q].stale]
      BY <2>2 DEF Write
    <3>2. Good(req[q], rows, client, given) /\ req[q] \in Request
      BY DEF IInv
    <3>3. /\ req'[q] \in Request /\ req'[q].at = req[q].at /\ req'[q].id = req[q].id
          /\ req'[q].row = req[q].row /\ req'[q].disturbed = req[q].disturbed
          /\ req'[q].stale = IF req[q].id = i THEN "row" ELSE req[q].stale
      BY <3>1, <3>2, <1>3 DEF Request
    <3>4. req'[q].stale # "row" /\ req[q].id \in Rows =>
            rows'[req[q].id] = rows[req[q].id] /\ req'[q].stale = req[q].stale
      BY <3>3, <1>2
    <3>5. Typed(req'[q]) /\ Carrying(req'[q], g)
      BY <3>2, <3>3 DEF Good, Typed, Carrying, OnRow
    <3>6. Alone(req'[q], client)
      BY <3>2, <3>3 DEF Good, Alone
    <3>7. Fresh(req'[q], rows')
      BY <3>2, <3>3, <3>4 DEF Good, Typed, Fresh, OnRow
    <3> QED
      BY <3>5, <3>6, <3>7 DEF Good
  <2> QED
    BY <2>1, <2>2
<1>5. TableOK(rows', client, g)
  <2>1. RowsGiven(rows', g)
    BY <1>2 DEF IInv, TableOK, RowsGiven
  <2> QED
    BY <1>2, <2>1 DEF IInv, TableOK
<1> QED
  BY <1>3, <1>4, <1>5 DEF IInv

\* Giving tokens for a row takes none away.
LEMMA GiveGrows ==
  ASSUME IInv, NEW i \in Rows, NEW tokens \in SUBSET Channels, Give(i, tokens)
  PROVE  /\ given' \in Gifts /\ tokens \subseteq given'[i]
         /\ \A j \in Rows : given[j] \subseteq given'[j]
<1>1. given \in [Rows -> SUBSET Channels] /\ given' = [given EXCEPT ![i] = given[i] \cup tokens]
  BY DEF IInv, TableOK, Gifts, Give
<1>2. \A j \in Rows : given'[j] = IF j = i THEN given[i] \cup tokens ELSE given[j]
  BY <1>1
<1> QED
  BY <1>1, <1>2 DEF Gifts
-----------------------------------------------------------------------------
\* Requests that hold no row, or a row of their own, are good.
LEMMA IdleGood ==
  ASSUME NEW rs, NEW cl, NEW g
  PROVE  Good(Idle, rs, cl, g) /\ Idle \in Request
BY DEF Good, Typed, Carrying, Alone, Fresh, OnRow, Idle, Waiting, Request, Row, NoRow, Entry

LEMMA RefreshingGood ==
  ASSUME NEW rs, NEW cl, NEW g, NEW c \in Channels \cup {None}
  PROVE  Good(Waiting("refreshing", None, [NoRow EXCEPT !.refresh = c]), rs, cl, g)
BY DEF Good, Typed, Carrying, Alone, Fresh, OnRow, Waiting, Request, Row, NoRow, Entry

\* An entry of channels.
LEMMA EntryRow ==
  ASSUME NEW channel \in Channels, NEW access \in Channels, NEW refresh \in Channels
  PROVE  /\ Entry(channel, access, refresh) \in Row
         /\ Entry(channel, access, refresh).kept = "yes"
         /\ Tokens(Entry(channel, access, refresh)) = {access, refresh}
BY DEF Row, Entry, Tokens

\* A row found in the table, and the request that has just read it.
LEMMA RowFound ==
  ASSUME IInv, NEW i \in Rows, Kept(i)
  PROVE  /\ rows[i] \in Row /\ rows[i].kept = "yes"
         /\ Tokens(rows[i]) \subseteq given[i] /\ Tokens(rows[i]) \subseteq Channels
         /\ RowCredentials(rows[i]).access = rows[i].access
         /\ RowCredentials(rows[i]) \in Clients
<1>1. /\ rows[i] \in Row /\ rows[i].kept = "yes" /\ Tokens(rows[i]) \subseteq given[i]
      /\ given[i] \subseteq Channels
  BY DEF IInv, TableOK, RowsGiven, Gifts, Kept
<1> QED
  BY <1>1 DEF Tokens, RowCredentials, Credentials, Clients

LEMMA StartGood ==
  ASSUME NEW at \in {"validity", "delete", "call"}, NEW i \in Rows, NEW row \in Row,
         row.kept = "yes", NEW g, Tokens(row) \subseteq g[i], Tokens(row) \subseteq Channels,
         NEW rs, rs[i] = row, NEW cl, cl.access = row.access \/ at # "validity"
  PROVE  Good(Waiting(at, i, row), rs, cl, g)
<1>1. Typed(Waiting(at, i, row))
  BY DEF Typed, Waiting, Request
<1>2. Carrying(Waiting(at, i, row), g) /\ Fresh(Waiting(at, i, row), rs)
  BY DEF Carrying, Fresh, Waiting
<1>3. Alone(Waiting(at, i, row), cl)
  BY DEF Alone, Waiting
<1> QED
  BY <1>1, <1>2, <1>3 DEF Good
-----------------------------------------------------------------------------
(* The steps of the handlers.                                              *)

LEMMA ConnectStep ==
  ASSUME IInv, NEW r \in Requests,
         \/ \E c \in Channels : GetUserEmail(r, c)
         \/ \E i \in Rows : CreateCreatorEntry(r, i)
         \/ \E i \in Rows, channel, access, refresh \in Channels :
              PostCreatorEntry(r, i, channel, access, refresh)
  PROVE  IInv'
<1>1. ASSUME NEW c \in Channels, GetUserEmail(r, c) PROVE IInv'
  <2> DEFINE row == Entry(c, c, c)
             next == Waiting("callback", None, row)
             cl == Credentials(c, None)
  <2>1. row \in Row /\ row.kept = "yes" /\ Tokens(row) \subseteq Channels
    BY EntryRow
  <2>2. cl \in Clients /\ client' = cl /\ Disturb(r, next) /\ UNCHANGED <<rows, given>>
    BY <1>1 DEF GetUserEmail, SetCredentials, Credentials, Clients
  <2> HIDE DEF row
  <2>3. Good(next, rows, cl, given)
    BY <2>1 DEF Good, Typed, Carrying, Alone, Fresh, OnRow, Waiting, Request
  <2> HIDE DEF next, cl
  <2> QED
    BY <2>2, <2>3, SetStep
<1>2. ASSUME NEW i \in Rows, CreateCreatorEntry(r, i) PROVE IInv'
  <2> DEFINE row == req[r].row
  <2>1. row \in Row /\ row.kept = "yes" /\ Tokens(row) \subseteq Channels
    BY <1>2 DEF CreateCreatorEntry, IInv, Good, Typed, Carrying, Request
  <2>2. Write(r, i, row, Idle) /\ UNCHANGED client /\ Give(i, Tokens(row))
    BY <1>2 DEF CreateCreatorEntry, Tokens
  <2> HIDE DEF row
  <2>3. /\ given' \in Gifts /\ Tokens(row) \subseteq given'[i]
        /\ \A j \in Rows : given[j] \subseteq given'[j]
    BY <2>1, <2>2, GiveGrows
  <2>4. Good(Idle, [rows EXCEPT ![i] = row], client, given')
    BY IdleGood
  <2> QED
    BY <2>1, <2>2, <2>3, <2>4, WriteStep
<1>3. ASSUME NEW i \in Rows, NEW channel \in Channels, NEW access \in Channels,
             NEW refresh \in Channels, PostCreatorEntry(r, i, channel, access, refresh)
      PROVE  IInv'
  <2> DEFINE row == Entry(channel, access, refresh)
  <2>1. row \in Row /\ row.kept = "yes" /\ Tokens(row) = {access, refresh}
    BY EntryRow
  <2>2. Write(r, i, row, Idle) /\ UNCHANGED client /\ Give(i, {access, refresh})
    BY <1>3 DEF PostCreatorEntry
  <2> HIDE DEF row
  <2>3. /\ given' \in Gifts /\ Tokens(row) \subseteq given'[i]
        /\ \A j \in Rows : given[j] \subseteq given'[j]
    BY <2>1, <2>2, GiveGrows
  <2>4. Good(Idle, [rows EXCEPT ![i] = row], client, given')
    BY IdleGood
  <2> QED
    BY <2>1, <2>2, <2>3, <2>4, WriteStep
<1> QED
  BY <1>1, <1>2, <1>3

\* Handlers that set the client to a row's credentials.
LEMMA SetRowStep ==
  ASSUME IInv, NEW r \in Requests, NEW i \in Rows,
         GetChannelInfo(r, i) \/ UploadBegin(r, i)
  PROVE  IInv'
<1> DEFINE cl == RowCredentials(rows[i])
<1>1. PICK at \in {"call", "validity"} :
        /\ Kept(i) /\ client' = cl /\ Disturb(r, Waiting(at, i, rows[i]))
        /\ UNCHANGED <<rows, given>>
  BY DEF GetChannelInfo, UploadBegin, SetCredentials
<1>2. /\ rows[i] \in Row /\ rows[i].kept = "yes" /\ cl \in Clients
      /\ Tokens(rows[i]) \subseteq given[i] /\ Tokens(rows[i]) \subseteq Channels
      /\ cl.access = rows[i].access
  BY <1>1, RowFound
<1> HIDE DEF cl
<1>3. Good(Waiting(at, i, rows[i]), rows, cl, given)
  BY <1>2, StartGood
<1> QED
  BY <1>1, <1>2, <1>3, SetStep

\* Steps that give no token.
LEMMA NothingGiven ==
  ASSUME IInv
  PROVE  given \in Gifts /\ \A i \in Rows : given[i] \subseteq given[i]
BY DEF IInv, TableOK

LEMMA ClientStep ==
  ASSUME IInv, NEW r \in Requests,
         ChannelInfoAnswer(r) \/ ChannelInfoRefused(r) \/ UploadInsert(r) \/ RequestFails(r)
  PROVE  IInv'
<1> DEFINE next == Waiting("refreshing", None, [NoRow EXCEPT !.refresh = client.refresh])
<1>1. (Go(r, Idle) \/ Go(r, next)) /\ UNCHANGED <<rows, client, given>>
  BY DEF ChannelInfoAnswer, ChannelInfoRefused, UploadInsert, RequestFails, ClientRefreshes
<1>2. client.refresh \in Channels \cup {None}
  BY DEF IInv, TableOK, Clients
<1>3. Good(next, rows, client, given)
  BY <1>2, RefreshingGood
<1>4. Good(Idle, rows, client, given)
  BY IdleGood
<1> HIDE DEF next
<1> QED
  BY <1>1, <1>3, <1>4, GoStep, NothingGiven

LEMMA RefreshStep ==
  ASSUME IInv, NEW r \in Requests,
         (\E c \in Channels : RefreshToken(r, c)) \/ RefreshTokenAnswer(r)
  PROVE  IInv'
<1>1. ASSUME NEW c \in Channels, RefreshToken(r, c) PROVE IInv'
  <2> DEFINE next == Waiting("refreshing", None, [NoRow EXCEPT !.refresh = c])
             cl == Credentials(None, c)
  <2>1. cl \in Clients /\ client' = cl /\ Disturb(r, next) /\ UNCHANGED <<rows, given>>
    BY <1>1 DEF RefreshToken, SetCredentials, Credentials, Clients
  <2>2. Good(next, rows, cl, given)
    BY RefreshingGood
  <2> HIDE DEF next, cl
  <2> QED
    BY <2>1, <2>2, SetStep
<1>2. CASE RefreshTokenAnswer(r)
  <2> DEFINE cl == [client EXCEPT !.access = req[r].row.refresh]
  <2>1. req[r].row.refresh \in Channels \cup {None}
    BY DEF IInv, Request, Row
  <2>2. cl \in Clients
    BY <2>1 DEF IInv, TableOK, Clients
  <2>3. client' = cl /\ Disturb(r, Idle) /\ UNCHANGED <<rows, given>>
    BY <1>2 DEF RefreshTokenAnswer, Refreshed
  <2> HIDE DEF cl
  <2>4. Good(Idle, rows, cl, given)
    BY IdleGood
  <2> QED
    BY <2>2, <2>3, <2>4, SetStep
<1> QED
  BY <1>1, <1>2

\* What a request at work on a row holds.
LEMMA Holding ==
  ASSUME IInv, NEW r \in Requests
  PROVE  /\ req[r] \in Request /\ Good(req[r], rows, client, given)
         /\ req[r].row \in Row /\ (req[r].id \in Rows \/ req[r].id = None)
         /\ OnRow(req[r]) =>
              /\ req[r].id \in Rows /\ req[r].row.kept = "yes"
              /\ Tokens(req[r].row) \subseteq given[req[r].id]
              /\ req[r].row.access \in Channels /\ req[r].row.refresh \in Channels
BY DEF IInv, Good, Typed, Carrying, Request, OnRow, Tokens

LEMMA UploadValidStep ==
  ASSUME IInv, NEW r \in Requests, UploadValid(r)
  PROVE  IInv'
<1> DEFINE next == [req[r] EXCEPT !.at = "find"]
<1>1. Go(r, next) /\ UNCHANGED <<rows, client, given>> /\ req[r].at = "validity"
  BY DEF UploadValid
<1>2. Good(req[r], rows, client, given) /\ req[r] \in Request
  BY Holding
<1>3. /\ next \in Request /\ next.at = "find" /\ next.id = req[r].id /\ next.row = req[r].row
      /\ next.disturbed = req[r].disturbed /\ next.stale = req[r].stale
  BY <1>2 DEF Request
<1> HIDE DEF next
<1>4. Good(next, rows, client, given)
  BY <1>1, <1>2, <1>3 DEF Good, Typed, Carrying, Alone, Fresh, OnRow
<1> QED
  BY <1>1, <1>4, GoStep, NothingGiven

LEMMA UploadExpiredStep ==
  ASSUME IInv, NEW r \in Requests, UploadExpired(r)
  PROVE  IInv'
<1> DEFINE next == [req[r] EXCEPT !.at = "refresh", !.disturbed = FALSE]
           cl == Credentials(None, req[r].row.refresh)
<1>1. /\ client' = cl /\ Disturb(r, next) /\ UNCHANGED <<rows, given>>
      /\ req[r].at = "validity"
  BY DEF UploadExpired, SetCredentials
<1>2. /\ Good(req[r], rows, client, given) /\ req[r] \in Request
      /\ req[r].row.refresh \in Channels
  BY <1>1, Holding DEF OnRow
<1>3. cl \in Clients
  BY <1>2 DEF Credentials, Clients
<1>4. /\ next \in Request /\ next.at = "refresh" /\ next.id = req[r].id
      /\ next.row = req[r].row /\ next.stale = req[r].stale
  BY <1>2 DEF Request
<1> HIDE DEF next, cl
<1>5. Good(next, rows, cl, given)
  BY <1>1, <1>2, <1>4 DEF Good, Typed, Carrying, Alone, Fresh, OnRow
<1> QED
  BY <1>1, <1>3, <1>5, SetStep

LEMMA UploadRefreshedStep ==
  ASSUME IInv, NEW r \in Requests, UploadRefreshed(r)
  PROVE  IInv'
<1> DEFINE c == req[r].row.refresh
           row == [req[r].row EXCEPT !.access = c]
           next == [req[r] EXCEPT !.at = "find", !.row.access = c]
           cl == [client EXCEPT !.access = c]
<1>1. client' = cl /\ Disturb(r, next) /\ UNCHANGED <<rows, given>> /\ req[r].at = "refresh"
  BY DEF UploadRefreshed, Refreshed
<1>2. /\ Good(req[r], rows, client, given) /\ req[r] \in Request /\ req[r].row \in Row
      /\ req[r].id \in Rows /\ req[r].row.kept = "yes" /\ c \in Channels
      /\ Tokens(req[r].row) \subseteq given[req[r].id]
  BY <1>1, Holding DEF OnRow
<1>3. client \in Clients
  BY DEF IInv, TableOK
<1>4. cl \in Clients /\ cl.access = c
  BY <1>2, <1>3 DEF Clients
<1>5. row \in Row /\ row.kept = "yes" /\ row.access = c /\ row.refresh = c
  BY <1>2 DEF Row
<1>6. Tokens(row) = {c} /\ c \in given[req[r].id]
  BY <1>2, <1>5 DEF Tokens
<1>7. /\ next \in Request /\ next.at = "find" /\ next.id = req[r].id
      /\ next.row = row /\ next.disturbed = req[r].disturbed
      /\ next.stale = req[r].stale
  BY <1>2, <1>5 DEF Request
<1>8. req[r].stale = "no" => rows[req[r].id].refresh = c
  BY <1>1, <1>2 DEF Good, Fresh
<1> HIDE DEF next, cl, c, row
<1>9. Typed(next) /\ Carrying(next, given)
  BY <1>2, <1>5, <1>6, <1>7 DEF Typed, Carrying, OnRow
<1>10. Alone(next, cl) /\ Fresh(next, rows)
  BY <1>4, <1>5, <1>7, <1>8 DEF Alone, Fresh
<1> QED
  BY <1>1, <1>4, <1>9, <1>10, SetStep DEF Good

LEMMA UploadFindStep ==
  ASSUME IInv, NEW r \in Requests, UploadFind(r)
  PROVE  IInv'
<1> DEFINE i == req[r].id
           row == [rows[i] EXCEPT !.access = req[r].row.access,
                                  !.refresh = req[r].row.refresh]
           stale == HeldTokens(req[r].stale)
           next == [req[r] EXCEPT !.at = "save", !.stale = stale, !.row = row]
<1>1. Go(r, next) /\ UNCHANGED <<rows, client, given>> /\ req[r].at = "find" /\ Kept(i)
  BY DEF UploadFind
<1>2. /\ Good(req[r], rows, client, given) /\ req[r] \in Request /\ i \in Rows
      /\ req[r].row.access \in Channels /\ req[r].row.refresh \in Channels
      /\ Tokens(req[r].row) \subseteq given[i]
  BY <1>1, Holding DEF OnRow
<1>3. rows[i] \in Row /\ rows[i].kept = "yes"
  BY <1>1, <1>2, RowFound
<1>4. /\ row \in Row /\ row.kept = "yes" /\ row.channel = rows[i].channel
      /\ row.access = req[r].row.access /\ row.refresh = req[r].row.refresh
  BY <1>2, <1>3 DEF Row
<1>5. Tokens(row) = Tokens(req[r].row) /\ Tokens(row) \subseteq Channels
  BY <1>2, <1>4 DEF Tokens
<1>6. stale \in {"no", "tokens", "row"} /\ (stale = "no" => req[r].stale = "no")
  BY DEF HeldTokens
<1> HIDE DEF row, stale
<1>7. /\ next \in Request /\ next.at = "save" /\ next.id = i /\ next.row = row
      /\ next.disturbed = req[r].disturbed /\ next.stale = stale
  BY <1>2, <1>4, <1>6 DEF Request
<1>8. stale = "no" => /\ rows[i].refresh = row.refresh
                      /\ row.access \in {rows[i].access, rows[i].refresh}
  BY <1>1, <1>2, <1>4, <1>6 DEF Good, Fresh
<1>9. ~ req[r].disturbed => client.access = row.access
  BY <1>1, <1>2, <1>4 DEF Good, Alone
<1> HIDE DEF next, i
<1>10. Typed(next) /\ Carrying(next, given)
  BY <1>2, <1>4, <1>5, <1>7 DEF Typed, Carrying, OnRow
<1>11. Alone(next, client) /\ Fresh(next, rows)
  BY <1>3, <1>4, <1>7, <1>8, <1>9 DEF Alone, Fresh
<1> QED
  BY <1>1, <1>10, <1>11, GoStep, NothingGiven DEF Good

LEMMA UploadSaveStep ==
  ASSUME IInv, NEW r \in Requests, UploadSave(r)
  PROVE  IInv'
<1> DEFINE i == req[r].id
           row == req[r].row
           next == [req[r] EXCEPT !.at = "insert"]
<1>1. Write(r, i, row, next) /\ UNCHANGED <<client, given>> /\ req[r].at = "save"
  BY DEF UploadSave
<1>2. /\ Good(req[r], rows, client, given) /\ req[r] \in Request /\ row \in Row
      /\ i \in Rows /\ row.kept = "yes" /\ Tokens(row) \subseteq given[i]
  BY <1>1, Holding DEF OnRow
<1>3. /\ next \in Request /\ next.at = "insert" /\ next.id = i /\ next.row = row
      /\ next.disturbed = req[r].disturbed
  BY <1>2 DEF Request
<1> HIDE DEF next
<1>4. ASSUME NEW rs PROVE Good(next, rs, client, given)
  BY <1>1, <1>2, <1>3 DEF Good, Typed, Carrying, Alone, Fresh, OnRow
<1> HIDE DEF row, i
<1>5. Good(next, [rows EXCEPT ![i] = row], client, given)
  BY <1>4
<1> QED
  BY <1>1, <1>2, <1>5, WriteStep, NothingGiven

LEMMA UpdateStep ==
  ASSUME IInv, NEW r \in Requests,
         \/ \E i \in Rows, channel, access, refresh \in Channels :
              UpdateFind(r, i, channel, access, refresh)
         \/ UpdateSave(r)
  PROVE  IInv'
<1>1. ASSUME NEW i \in Rows, NEW channel \in Channels, NEW access \in Channels,
             NEW refresh \in Channels, UpdateFind(r, i, channel, access, refresh)
      PROVE  IInv'
  <2> DEFINE row == [rows[i] EXCEPT !.channel = channel, !.access = access, !.refresh = refresh]
             next == Waiting("update", i, row)
  <2>1. Go(r, next) /\ UNCHANGED <<rows, client>> /\ Kept(i) /\ Give(i, {access, refresh})
    BY <1>1 DEF UpdateFind
  <2>2. rows[i] \in Row /\ rows[i].kept = "yes"
    BY <2>1, RowFound
  <2>3. row \in Row /\ row.access = access /\ row.refresh = refresh /\ row.kept = "yes"
    BY <2>2 DEF Row
  <2>4. /\ given' \in Gifts /\ {access, refresh} \subseteq given'[i]
        /\ \A j \in Rows : given[j] \subseteq given'[j]
    BY <2>1, GiveGrows
  <2> HIDE DEF row
  <2>5. Tokens(row) \subseteq given'[i] /\ Tokens(row) \subseteq Channels
    BY <2>3, <2>4 DEF Tokens
  <2>6. /\ next \in Request /\ next.at = "update" /\ next.id = i /\ next.row = row
    BY <2>3 DEF Waiting, Request
  <2> HIDE DEF next
  <2>7. Good(next, rows, client, given')
    BY <2>2, <2>3, <2>5, <2>6 DEF Good, Typed, Carrying, Alone, Fresh, OnRow
  <2> QED
    BY <2>1, <2>4, <2>7, GoStep
<1>2. CASE UpdateSave(r)
  <2> DEFINE i == req[r].id
             row == req[r].row
  <2>1. Write(r, i, row, Idle) /\ UNCHANGED <<client, given>> /\ req[r].at = "update"
    BY <1>2 DEF UpdateSave
  <2>2. row \in Row /\ i \in Rows /\ Tokens(row) \subseteq given[i]
    BY <2>1, Holding DEF OnRow
  <2> HIDE DEF row, i
  <2>3. Good(Idle, [rows EXCEPT ![i] = row], client, given)
    BY IdleGood
  <2> QED
    BY <2>1, <2>2, <2>3, WriteStep, NothingGiven
<1> QED
  BY <1>1, <1>2

LEMMA DeleteStep ==
  ASSUME IInv, NEW r \in Requests, (\E i \in Rows : DeleteFind(r, i)) \/ DeleteRow(r)
  PROVE  IInv'
<1>1. ASSUME NEW i \in Rows, DeleteFind(r, i) PROVE IInv'
  <2>1. Go(r, Waiting("delete", i, rows[i])) /\ UNCHANGED <<rows, client, given>> /\ Kept(i)
    BY <1>1 DEF DeleteFind
  <2>2. /\ rows[i] \in Row /\ rows[i].kept = "yes"
        /\ Tokens(rows[i]) \subseteq given[i] /\ Tokens(rows[i]) \subseteq Channels
    BY <2>1, RowFound
  <2>3. Good(Waiting("delete", i, rows[i]), rows, client, given)
    BY <2>2, StartGood
  <2> QED
    BY <2>1, <2>3, GoStep, NothingGiven
<1>2. CASE DeleteRow(r)
  <2> DEFINE i == req[r].id
             row == [NoRow EXCEPT !.kept = "deleted"]
  <2>1. Write(r, i, row, Idle) /\ UNCHANGED <<client, given>> /\ req[r].at = "delete"
    BY <1>2 DEF DeleteRow
  <2>2. i \in Rows
    BY <2>1, Holding DEF OnRow
  <2>3. row \in Row /\ row.kept = "deleted"
    BY DEF Row, NoRow, Entry
  <2> HIDE DEF row, i
  <2>4. Good(Idle, [rows EXCEPT ![i] = row], client, given)
    BY IdleGood
  <2> QED
    BY <2>1, <2>2, <2>3, <2>4, WriteStep, NothingGiven
<1> QED
  BY <1>1, <1>2
-----------------------------------------------------------------------------
(* The theorems.                                                           *)

LEMMA Inductive == Spec => []IInv
<1>1. Init => IInv
  <2> SUFFICES ASSUME Init PROVE IInv
    OBVIOUS
  <2>1. TableOK(rows, client, given)
    BY DEF Init, TableOK, RowsGiven, Gifts, Clients, Credentials, NoRow, Entry, Row
  <2>2. \A r \in Requests : Good(req[r], rows, client, given)
    BY IdleGood DEF Init
  <2>3. req \in [Requests -> Request]
    BY IdleGood DEF Init
  <2> QED
    BY <2>1, <2>2, <2>3 DEF IInv
<1>2. IInv /\ [Next]_vars => IInv'
  <2> SUFFICES ASSUME IInv, [Next]_vars PROVE IInv'
    OBVIOUS
  <2>1. ASSUME NEW r \in Requests, HandleOAuthCallback(r) PROVE IInv'
    BY <2>1, ConnectStep DEF HandleOAuthCallback
  <2>2. ASSUME NEW r \in Requests, UploadVideo(r) PROVE IInv'
    BY <2>2, SetRowStep, UploadValidStep, UploadExpiredStep, UploadRefreshedStep,
       UploadFindStep, UploadSaveStep, ClientStep DEF UploadVideo
  <2>3. ASSUME NEW r \in Requests,
               \/ \E i \in Rows, channel, access, refresh \in Channels :
                    PostCreatorEntry(r, i, channel, access, refresh)
               \/ \E i \in Rows : GetChannelInfo(r, i)
               \/ ChannelInfoAnswer(r) \/ ChannelInfoRefused(r)
        PROVE  IInv'
    BY <2>3, ConnectStep, SetRowStep, ClientStep
  <2>4. ASSUME NEW r \in Requests,
               \/ \E c \in Channels : RefreshToken(r, c)
               \/ RefreshTokenAnswer(r)
               \/ RequestFails(r)
        PROVE  IInv'
    BY <2>4, RefreshStep, ClientStep
  <2>5. ASSUME NEW r \in Requests, UpdateCreatorEntry(r) \/ DeleteCreatorEntry(r)
        PROVE  IInv'
    BY <2>5, UpdateStep, DeleteStep DEF UpdateCreatorEntry, DeleteCreatorEntry
  <2>6. CASE Restart
    <3>1. TableOK(rows', client', given')
      BY <2>6 DEF Restart, IInv, TableOK, Clients, Credentials
    <3>2. \A r \in Requests : Good(req'[r], rows', client', given')
      BY <2>6, IdleGood DEF Restart
    <3>3. req' \in [Requests -> Request]
      BY <2>6, IdleGood DEF Restart
    <3> QED
      BY <3>1, <3>2, <3>3 DEF IInv
  <2>7. CASE UNCHANGED vars
    BY <2>7 DEF vars, IInv
  <2> QED
    BY <2>1, <2>2, <2>3, <2>4, <2>5, <2>6, <2>7 DEF Next
<1> QED
  BY <1>1, <1>2, PTL DEF Spec

\* Types, and the row of a request that works on one (TypeOK).
THEOREM YtTypeCorrect == Spec => []TypeOK
<1>1. IInv => TypeOK
  <2> SUFFICES ASSUME IInv PROVE TypeOK
    OBVIOUS
  <2>1. rows \in [Rows -> Row] /\ client \in Clients /\ given \in Gifts
    BY DEF IInv, TableOK
  <2>2. \A r \in Requests : Typed(req[r])
    BY DEF IInv, Good
  <2> QED
    BY <2>1, <2>2 DEF IInv, TypeOK, Clients, Gifts, Typed, OnRow
<1> QED
  BY <1>1, Inductive, PTL

\* A row never gets a token of an account nobody gave it tokens of, although the
\* requests share the client: each upload takes the new token from the answer to
\* its own refresh, whose refresh token came from the row, and whatever it undoes
\* of a PUT it undoes with tokens that were given earlier.
THEOREM StoredBelong == Spec => []StoredTokensBelong
<1>1. IInv => StoredTokensBelong
  BY DEF IInv, TableOK, RowsGiven, Tokens, StoredTokensBelong, Kept
<1> QED
  BY <1>1, Inductive, PTL

\* An upload whose client no other request set goes to the account of the access
\* token it read or renewed.
THEOREM OwnChannel == Spec => []OwnChannelIfUndisturbed
<1>1. IInv => OwnChannelIfUndisturbed
  <2> SUFFICES ASSUME IInv, NEW r \in Requests, req[r].at = "insert", ~ req[r].disturbed
               PROVE  Target = req[r].row.access
    BY DEF OwnChannelIfUndisturbed
  <2>1. client.access = req[r].row.access /\ req[r].row.access \in Channels
    BY Holding DEF Good, Alone, OnRow
  <2> QED
    BY <2>1, NoneIsNothing DEF Target
<1> QED
  BY <1>1, Inductive, PTL

\* A whole-row save that nobody overtook acts like an update of the columns it is for,
\* on a row that is still there, and an upload undoes a PUT or POST only if that came
\* between the upload's start and its save.
THEOREM SavesPartial == Spec => SavesLikePartialUpdate
<1> DEFINE Step == \A r \in Requests :
       LET i == req[r].id IN
       /\ UploadSave(r) /\ req[r].stale # "row" =>
            /\ Kept(i)
            /\ rows'[i] = [rows[i] EXCEPT !.access = rows'[i].access,
                                          !.refresh = rows'[i].refresh]
       /\ UploadSave(r) /\ req[r].stale = "no" =>
            /\ rows'[i].refresh = rows[i].refresh
            /\ rows'[i].access \in {rows[i].access, rows[i].refresh}
       /\ UpdateSave(r) /\ req[r].stale = "no" => Kept(i)
<1>1. IInv /\ [Next]_vars => [Step]_vars
  <2> SUFFICES ASSUME IInv, NEW r \in Requests
               PROVE  LET i == req[r].id IN
                      /\ UploadSave(r) /\ req[r].stale # "row" =>
                           /\ Kept(i)
                           /\ rows'[i] = [rows[i] EXCEPT !.access = rows'[i].access,
                                                         !.refresh = rows'[i].refresh]
                      /\ UploadSave(r) /\ req[r].stale = "no" =>
                           /\ rows'[i].refresh = rows[i].refresh
                           /\ rows'[i].access \in {rows[i].access, rows[i].refresh}
                      /\ UpdateSave(r) /\ req[r].stale = "no" => Kept(i)
    OBVIOUS
  <2> DEFINE i == req[r].id
             row == req[r].row
  <2>1. Good(req[r], rows, client, given) /\ row \in Row /\ rows \in [Rows -> Row]
    BY Holding DEF IInv, TableOK
  <2>2. CASE UploadSave(r)
    <3>1. req[r].at = "save" /\ i \in Rows /\ row.kept = "yes" /\ rows'[i] = row
      BY <2>1, <2>2, Holding DEF UploadSave, Write, OnRow
    <3>2. ASSUME req[r].stale # "row"
          PROVE  Kept(i) /\ row = [rows[i] EXCEPT !.access = row.access, !.refresh = row.refresh]
      <4>1. rows[i].kept = "yes" /\ rows[i].channel = row.channel /\ rows[i] \in Row
        BY <2>1, <3>1, <3>2 DEF Good, Fresh
      <4>2. ASSUME NEW a \in Row, NEW b \in Row, a.kept = b.kept, a.channel = b.channel
            PROVE  a = [b EXCEPT !.access = a.access, !.refresh = a.refresh]
        BY <4>2 DEF Row
      <4> QED
        BY <2>1, <3>1, <4>1, <4>2 DEF Kept
    <3>3. ASSUME req[r].stale = "no"
          PROVE  row.refresh = rows[i].refresh /\ row.access \in {rows[i].access, rows[i].refresh}
      BY <2>1, <3>1, <3>3 DEF Good, Fresh
    <3>4. ~ UpdateSave(r)
      BY <3>1 DEF UpdateSave
    <3> QED
      BY <3>1, <3>2, <3>3, <3>4
  <2>3. CASE UpdateSave(r)
    <3>1. req[r].at = "update"
      BY <2>3 DEF UpdateSave
    <3>2. req[r].stale = "no" => Kept(i)
      BY <2>1, <3>1 DEF Good, Fresh, Kept
    <3>3. ~ UploadSave(r)
      BY <3>1 DEF UploadSave
    <3> QED
      BY <3>2, <3>3
  <2> QED
    BY <2>2, <2>3
<1>2. Spec => [][Step]_vars
  BY <1>1, Inductive, PTL DEF Spec
<1> QED
  BY <1>2 DEF SavesLikePartialUpdate
-----------------------------------------------------------------------------
(* The two promises that races break, without the races.                   *)

Undisturbed == \A r \in Requests : Uploading(r) => ~ req[r].disturbed

\* Whoever disturbs uses the client before its step or after it, so nobody uploads.
LEMMA UndisturbedStep ==
  ASSUME IInv, Undisturbed, UploadsApart, UploadsApart', NEW r \in Requests, NEW next,
         next.at \in {"validity", "refresh", "find", "save", "insert"} => ~ next.disturbed,
         \/ Go(r, next)
         \/ \E i, row : Write(r, i, row, next)
         \/ /\ Disturb(r, next)
            /\ UsesClient(r) \/ next.at \in {"callback", "call", "refreshing", "validity"}
  PROVE  Undisturbed'
<1> SUFFICES ASSUME NEW q \in Requests, Uploading(q)' PROVE ~ req'[q].disturbed
  BY DEF Undisturbed
<1>1. req'[r] = next /\ req \in [Requests -> Request]
  BY DEF IInv, Go, Write, Disturb
<1>2. CASE q = r
  BY <1>1, <1>2 DEF Uploading
<1>3. CASE q # r /\ (Go(r, next) \/ \E i, row : Write(r, i, row, next))
  <2>1. req'[q].at = req[q].at /\ req'[q].disturbed = req[q].disturbed
    BY <1>1, <1>3 DEF Go, Write, Request
  <2> QED
    BY <2>1 DEF Undisturbed, Uploading
<1>4. CASE q # r /\ Disturb(r, next)
  <2>1. req'[q].at = req[q].at
    BY <1>1, <1>4 DEF Disturb, Request
  <2>2. Uploading(q)
    BY <2>1 DEF Uploading
  <2>3. CASE UsesClient(r)
    BY <1>4, <2>2, <2>3 DEF UploadsApart
  <2>4. CASE next.at \in {"callback", "call", "refreshing", "validity"}
    <3>1. UsesClient(r)'
      BY <1>1, <2>4 DEF UsesClient, Uploading
    <3> QED
      BY <1>4, <3>1 DEF UploadsApart
  <2>5. CASE Go(r, next) \/ \E i, row : Write(r, i, row, next)
    BY <1>3, <1>4, <2>5
  <2> QED
    BY <1>1, <1>3, <1>4, <2>3, <2>4, <2>5
<1> QED
  BY <1>2, <1>3, <1>4

LEMMA UndisturbedInductive ==
  IInv /\ Undisturbed /\ UploadsApart /\ UploadsApart' /\ [Next]_vars => Undisturbed'
<1> SUFFICES ASSUME IInv, Undisturbed, UploadsApart, UploadsApart', [Next]_vars PROVE Undisturbed'
  OBVIOUS
<1>1. /\ Idle.at = "idle"
      /\ \A at, i, row : Waiting(at, i, row).at = at /\ ~ Waiting(at, i, row).disturbed
  BY DEF Idle, Waiting
<1>2. ASSUME NEW r \in Requests, NEW at, NEW i, NEW row,
             \/ Go(r, Waiting(at, i, row))
             \/ /\ Disturb(r, Waiting(at, i, row))
                /\ at \in {"callback", "call", "refreshing", "validity"}
      PROVE  Undisturbed'
  BY <1>1, <1>2, UndisturbedStep
<1>3. ASSUME NEW r \in Requests,
             \/ Go(r, Idle) \/ \E i, row : Write(r, i, row, Idle)
             \/ Disturb(r, Idle) /\ UsesClient(r)
      PROVE  Undisturbed'
  BY <1>1, <1>3, UndisturbedStep
<1>4. ASSUME NEW r \in Requests, HandleOAuthCallback(r) PROVE Undisturbed'
  BY <1>2, <1>3, <1>4 DEF HandleOAuthCallback, GetUserEmail, CreateCreatorEntry, SetCredentials
<1>5. ASSUME NEW r \in Requests, UploadVideo(r) PROVE Undisturbed'
  <2>1. req[r] \in Request /\ (Uploading(r) => ~ req[r].disturbed)
    BY DEF IInv, Undisturbed
  <2>2. ASSUME NEW next, UsesClient(r), ~ next.disturbed,
               \/ Go(r, next) \/ Disturb(r, next)
               \/ \E i, row : Write(r, i, row, next)
        PROVE  Undisturbed'
    BY <2>2, UndisturbedStep
  <2>3. ASSUME NEW i \in Rows, UploadBegin(r, i) PROVE Undisturbed'
    BY <1>2, <2>3 DEF UploadBegin, SetCredentials
  <2>4. CASE UploadValid(r)
    <3>1. UsesClient(r) /\ ~ [req[r] EXCEPT !.at = "find"].disturbed
      BY <2>1, <2>4 DEF UploadValid, UsesClient, Uploading, Request
    <3> QED
      BY <2>2, <2>4, <3>1 DEF UploadValid
  <2>5. CASE UploadExpired(r)
    <3>1. UsesClient(r) /\ ~ [req[r] EXCEPT !.at = "refresh", !.disturbed = FALSE].disturbed
      BY <2>1, <2>5 DEF UploadExpired, UsesClient, Uploading, Request
    <3> QED
      BY <2>2, <2>5, <3>1 DEF UploadExpired, SetCredentials
  <2>6. CASE UploadRefreshed(r)
    <3> DEFINE next == [req[r] EXCEPT !.at = "find", !.row.access = req[r].row.refresh]
    <3>1. UsesClient(r) /\ ~ next.disturbed /\ Disturb(r, next)
      BY <2>1, <2>6 DEF UploadRefreshed, Refreshed, UsesClient, Uploading, Request
    <3> HIDE DEF next
    <3> QED
      BY <2>2, <3>1
  <2>7. CASE UploadFind(r)
    <3> DEFINE row == [rows[req[r].id] EXCEPT !.access = req[r].row.access,
                                              !.refresh = req[r].row.refresh]
               next == [req[r] EXCEPT !.at = "save", !.stale = HeldTokens(req[r].stale), !.row = row]
    <3>1. UsesClient(r) /\ ~ next.disturbed /\ Go(r, next)
      BY <2>1, <2>7 DEF UploadFind, UsesClient, Uploading, Request
    <3> HIDE DEF next
    <3> QED
      BY <2>2, <3>1
  <2>8. CASE UploadSave(r)
    <3>1. UsesClient(r) /\ ~ [req[r] EXCEPT !.at = "insert"].disturbed
      BY <2>1, <2>8 DEF UploadSave, UsesClient, Uploading, Request
    <3> QED
      BY <2>2, <2>8, <3>1 DEF UploadSave
  <2>9. CASE UploadInsert(r)
    BY <1>2, <1>3, <2>9 DEF UploadInsert, ClientRefreshes
  <2> QED
    BY <1>5, <2>3, <2>4, <2>5, <2>6, <2>7, <2>8, <2>9 DEF UploadVideo
<1>6. ASSUME NEW r \in Requests,
             \/ \E i \in Rows, channel, access, refresh \in Channels :
                  PostCreatorEntry(r, i, channel, access, refresh)
             \/ \E i \in Rows : GetChannelInfo(r, i)
             \/ ChannelInfoAnswer(r) \/ ChannelInfoRefused(r)
      PROVE  Undisturbed'
  BY <1>2, <1>3, <1>6 DEF PostCreatorEntry, GetChannelInfo, ChannelInfoAnswer, ChannelInfoRefused,
                         ClientRefreshes, SetCredentials
<1>7. ASSUME NEW r \in Requests, \E c \in Channels : RefreshToken(r, c) PROVE Undisturbed'
  BY <1>2, <1>7 DEF RefreshToken, SetCredentials
<1>8. ASSUME NEW r \in Requests, RefreshTokenAnswer(r) PROVE Undisturbed'
  <2>1. UsesClient(r)
    BY <1>8 DEF RefreshTokenAnswer, UsesClient
  <2> QED
    BY <1>3, <1>8, <2>1 DEF RefreshTokenAnswer, Refreshed
<1>9. ASSUME NEW r \in Requests,
             UpdateCreatorEntry(r) \/ DeleteCreatorEntry(r) \/ RequestFails(r)
      PROVE  Undisturbed'
  BY <1>2, <1>3, <1>9 DEF UpdateCreatorEntry, UpdateFind, UpdateSave, DeleteCreatorEntry,
                         DeleteFind, DeleteRow, RequestFails
<1>10. CASE Restart
  BY <1>1, <1>10 DEF Restart, Undisturbed, Uploading
<1>11. CASE UNCHANGED vars
  BY <1>11 DEF vars, Undisturbed, Uploading
<1> QED
  BY <1>4, <1>5, <1>6, <1>7, <1>8, <1>9, <1>10, <1>11 DEF Next

\* What the apart specifications are.
LEMMA UploadsApartRefines ==
  UploadsApartSpec => Spec /\ []UploadsApart
<1>1. [Next /\ UploadsApart']_vars => [Next]_vars
  OBVIOUS
<1>2. Init => UploadsApart
  BY DEF Init, UploadsApart, Uploading, Idle, Waiting
<1>3. UploadsApart /\ [Next /\ UploadsApart']_vars => UploadsApart'
  BY DEF UploadsApart, Uploading, UsesClient, vars
<1> QED
  BY <1>1, <1>2, <1>3, PTL DEF UploadsApartSpec, Spec

\* An upload goes to the channel of its row if no other request uses the client
\* from its start to its end, however the others overlap among themselves.
THEOREM OwnChannelApart == UploadsApartSpec => []VideoReachesOwnChannel
<1>1. Init => Undisturbed
  BY DEF Init, Undisturbed, Uploading, Idle, Waiting
<1>2. OwnChannelIfUndisturbed /\ Undisturbed => VideoReachesOwnChannel
  BY DEF OwnChannelIfUndisturbed, Undisturbed, Uploading, VideoReachesOwnChannel
<1> QED
  BY <1>1, <1>2, UploadsApartRefines, UndisturbedInductive, Inductive, OwnChannel, PTL DEF Spec

\* A row that a request is about to save is there.
SavesKept == \A r \in Requests : req[r].at \in {"update", "save"} => Kept(req[r].id)

LEMMA Unmoved ==
  ASSUME IInv, NEW r \in Requests, NEW next, NEW q \in Requests, q # r,
         Go(r, next) \/ Disturb(r, next) \/ \E i, row : Write(r, i, row, next)
  PROVE  req'[q].at = req[q].at /\ req'[q].id = req[q].id
<1>1. req \in [Requests -> Request] /\ req[q] \in Request
  BY DEF IInv
<1>2. CASE Go(r, next)
  BY <1>1, <1>2 DEF Go
<1>3. CASE Disturb(r, next)
  <2>1. req'[q] = [req[q] EXCEPT !.disturbed = req[q].at # "idle"]
    BY <1>3 DEF Disturb
  <2> QED
    BY <1>1, <2>1 DEF Request
<1>4. ASSUME NEW i, NEW row, Write(r, i, row, next)
      PROVE  req'[q].at = req[q].at /\ req'[q].id = req[q].id
  <2>1. req'[q] = [req[q] EXCEPT !.stale = IF req[q].id = i THEN "row" ELSE req[q].stale]
    BY <1>4 DEF Write
  <2> QED
    BY <1>1, <2>1 DEF Request
<1> QED
  BY <1>2, <1>3, <1>4

\* A step that leaves the rows that are there, and goes on to no save of another row.
LEMMA SavesKeptStep ==
  ASSUME IInv, SavesKept, NEW r \in Requests, NEW next, req'[r] = next,
         next.at \in {"update", "save"} => rows'[next.id].kept = "yes",
         Go(r, next) \/ Disturb(r, next) \/ \E i, row : Write(r, i, row, next),
         \A i \in Rows : rows[i].kept = "yes" => rows'[i].kept = "yes"
  PROVE  SavesKept'
<1> SUFFICES ASSUME NEW q \in Requests, req'[q].at \in {"update", "save"}
             PROVE  rows'[req'[q].id].kept = "yes"
  BY DEF SavesKept, Kept
<1>1. CASE q = r
  BY <1>1
<1>2. CASE q # r
  <2>1. req'[q].at = req[q].at /\ req'[q].id = req[q].id
    BY <1>2, Unmoved
  <2>2. rows[req[q].id].kept = "yes" /\ req[q].id \in Rows
    BY <2>1 DEF SavesKept, Kept, IInv, Good, Typed, OnRow
  <2> QED
    BY <2>1, <2>2
<1> QED
  BY <1>1, <1>2

\* Writing a row that is kept takes no row away.
LEMMA WriteKeeps ==
  ASSUME IInv, NEW r, NEW i \in Rows, NEW row, row.kept = "yes", NEW next, Write(r, i, row, next)
  PROVE  \A j \in Rows : rows[j].kept = "yes" => rows'[j].kept = "yes"
<1>1. rows' = [rows EXCEPT ![i] = row] /\ rows \in [Rows -> Row]
  BY DEF IInv, TableOK, Write
<1>2. \A j \in Rows : rows'[j] = IF j = i THEN row ELSE rows[j]
  BY <1>1
<1> QED
  BY <1>2

LEMMA SavesKeptInductive ==
  IInv /\ SavesKept /\ DeletesApart /\ [Next]_vars => SavesKept'
<1> SUFFICES ASSUME IInv, SavesKept, DeletesApart, [Next]_vars PROVE SavesKept'
  OBVIOUS
<1>1. /\ Idle.at = "idle"
      /\ \A at, i, row : Waiting(at, i, row).at = at /\ Waiting(at, i, row).id = i
  BY DEF Idle, Waiting
<1>2. /\ req \in [Requests -> Request]
      /\ \A r \in Requests : Typed(req[r])
  BY DEF IInv, Good
\* A request that goes on to a find, a call or nothing.
<1>3. ASSUME NEW r \in Requests, NEW next, next.at \notin {"update", "save"},
             Go(r, next) \/ Disturb(r, next), UNCHANGED rows
      PROVE  SavesKept'
  <2>1. req'[r] = next
    BY <1>2, <1>3 DEF Go, Disturb
  <2> QED
    BY <1>3, <2>1, SavesKeptStep
\* A request that saves a row and holds it no longer.
<1>4. ASSUME NEW r \in Requests, NEW next, next.at \notin {"update", "save"},
             NEW i \in Rows, NEW row, row.kept = "yes", Write(r, i, row, next)
      PROVE  SavesKept'
  <2>1. req'[r] = next
    BY <1>2, <1>4 DEF Write
  <2>2. \A j \in Rows : rows[j].kept = "yes" => rows'[j].kept = "yes"
    BY <1>4, WriteKeeps
  <2> QED
    BY <1>4, <2>1, <2>2, SavesKeptStep
<1>5. ASSUME NEW r \in Requests, HandleOAuthCallback(r) PROVE SavesKept'
  <2>1. ASSUME NEW c \in Channels, GetUserEmail(r, c) PROVE SavesKept'
    BY <1>1, <1>3, <2>1 DEF GetUserEmail, SetCredentials
  <2>2. ASSUME NEW i \in Rows, CreateCreatorEntry(r, i) PROVE SavesKept'
    <3>1. req[r].row.kept = "yes"
      BY <1>2, <2>2 DEF CreateCreatorEntry, Typed, OnRow
    <3> QED
      BY <1>1, <1>4, <2>2, <3>1 DEF CreateCreatorEntry
  <2> QED
    BY <1>5, <2>1, <2>2 DEF HandleOAuthCallback
<1>6. ASSUME NEW r \in Requests, UploadVideo(r) PROVE SavesKept'
  <2>1. ASSUME NEW at \in {"find", "refresh"}, NEW d \in BOOLEAN
        PROVE  [req[r] EXCEPT !.at = at, !.disturbed = d].at = at /\ [req[r] EXCEPT !.at = at].at = at
    BY <1>2 DEF Request
  <2>2. ASSUME NEW i \in Rows, UploadBegin(r, i) PROVE SavesKept'
    BY <1>1, <1>3, <2>2 DEF UploadBegin, SetCredentials
  <2>3. CASE UploadValid(r)
    BY <1>3, <2>1, <2>3 DEF UploadValid
  <2>4. CASE UploadExpired(r)
    BY <1>3, <2>1, <2>4 DEF UploadExpired, SetCredentials
  <2>5. CASE UploadRefreshed(r)
    <3> DEFINE next == [req[r] EXCEPT !.at = "find", !.row.access = req[r].row.refresh]
    <3>1. next.at = "find" /\ Disturb(r, next) /\ UNCHANGED rows
      BY <1>2, <2>5 DEF UploadRefreshed, Refreshed, Request
    <3> HIDE DEF next
    <3> QED
      BY <1>3, <3>1
  <2>6. CASE UploadFind(r)
    <3> DEFINE row == [rows[req[r].id] EXCEPT !.access = req[r].row.access,
                                              !.refresh = req[r].row.refresh]
               next == [req[r] EXCEPT !.at = "save", !.stale = HeldTokens(req[r].stale), !.row = row]
    <3>1. next.id = req[r].id /\ Go(r, next) /\ UNCHANGED rows /\ rows[req[r].id].kept = "yes"
      BY <1>2, <2>6 DEF UploadFind, Request, Kept
    <3> HIDE DEF next
    <3>2. req'[r] = next /\ rows'[next.id].kept = "yes"
      BY <1>2, <3>1 DEF Go
    <3> QED
      BY <3>1, <3>2, SavesKeptStep
  <2>7. CASE UploadSave(r)
    <3> DEFINE next == [req[r] EXCEPT !.at = "insert"]
    <3>1. /\ next.at = "insert" /\ Write(r, req[r].id, req[r].row, next)
          /\ req[r].id \in Rows /\ req[r].row.kept = "yes"
      BY <1>2, <2>7 DEF UploadSave, Request, Typed, OnRow
    <3> HIDE DEF next
    <3> QED
      BY <1>4, <3>1
  <2>8. CASE UploadInsert(r)
    BY <1>1, <1>3, <2>8 DEF UploadInsert, ClientRefreshes
  <2> QED
    BY <1>6, <2>2, <2>3, <2>4, <2>5, <2>6, <2>7, <2>8 DEF UploadVideo
<1>7. ASSUME NEW r \in Requests, NEW i \in Rows, NEW channel \in Channels,
             NEW access \in Channels, NEW refresh \in Channels,
             PostCreatorEntry(r, i, channel, access, refresh)
      PROVE  SavesKept'
  <2> DEFINE row == Entry(channel, access, refresh)
  <2>1. row.kept = "yes"
    BY EntryRow
  <2>2. Write(r, i, row, Idle)
    BY <1>7 DEF PostCreatorEntry
  <2> HIDE DEF row
  <2> QED
    BY <1>1, <1>4, <2>1, <2>2
<1>8. ASSUME NEW r \in Requests,
             \/ \E i \in Rows : GetChannelInfo(r, i)
             \/ ChannelInfoAnswer(r) \/ ChannelInfoRefused(r)
             \/ \E c \in Channels : RefreshToken(r, c)
             \/ RefreshTokenAnswer(r) \/ RequestFails(r)
      PROVE  SavesKept'
  <2>1. ASSUME NEW i, NEW at \in {"call", "refreshing"}, NEW row, UNCHANGED rows,
               LET next == Waiting(at, i, row) IN Go(r, next) \/ Disturb(r, next)
        PROVE  SavesKept'
    BY <1>1, <1>3, <2>1
  <2>2. ASSUME UNCHANGED rows, Go(r, Idle) \/ Disturb(r, Idle) PROVE SavesKept'
    BY <1>1, <1>3, <2>2
  <2>3. CASE (\E i \in Rows : GetChannelInfo(r, i)) \/ ChannelInfoRefused(r)
    BY <2>1, <2>3 DEF GetChannelInfo, ChannelInfoRefused, ClientRefreshes, SetCredentials
  <2>4. CASE \E c \in Channels : RefreshToken(r, c)
    BY <2>1, <2>4 DEF RefreshToken, SetCredentials
  <2>5. CASE ChannelInfoAnswer(r) \/ RefreshTokenAnswer(r) \/ RequestFails(r)
    BY <2>2, <2>5 DEF ChannelInfoAnswer, RefreshTokenAnswer, Refreshed, RequestFails
  <2> QED
    BY <1>8, <2>3, <2>4, <2>5
<1>9. ASSUME NEW r \in Requests, UpdateCreatorEntry(r) PROVE SavesKept'
  <2>1. ASSUME NEW i \in Rows, NEW channel \in Channels, NEW access \in Channels,
               NEW refresh \in Channels, UpdateFind(r, i, channel, access, refresh)
        PROVE  SavesKept'
    <3> DEFINE next == Waiting("update", i, [rows[i] EXCEPT !.channel = channel, !.access = access,
                                                           !.refresh = refresh])
    <3>1. next.id = i /\ Go(r, next) /\ UNCHANGED rows /\ rows[i].kept = "yes"
      BY <1>1, <2>1 DEF UpdateFind, Kept
    <3> HIDE DEF next
    <3>2. req'[r] = next /\ rows'[next.id].kept = "yes"
      BY <1>2, <3>1 DEF Go
    <3> QED
      BY <3>1, <3>2, SavesKeptStep
  <2>2. CASE UpdateSave(r)
    <3>1. req[r].id \in Rows /\ req[r].row.kept = "yes"
      BY <1>2, <2>2 DEF UpdateSave, Typed, OnRow
    <3> QED
      BY <1>1, <1>4, <2>2, <3>1 DEF UpdateSave
  <2> QED
    BY <1>9, <2>1, <2>2 DEF UpdateCreatorEntry
<1>10. ASSUME NEW r \in Requests, DeleteCreatorEntry(r) PROVE SavesKept'
  <2>1. ASSUME NEW i \in Rows, DeleteFind(r, i) PROVE SavesKept'
    BY <1>1, <1>3, <2>1 DEF DeleteFind
  \* Nobody is about to save the row that is deleted.
  <2>2. CASE DeleteRow(r)
    <3> DEFINE row == [NoRow EXCEPT !.kept = "deleted"]
    <3>1. Write(r, req[r].id, row, Idle) /\ req[r].at = "delete"
      BY <2>2 DEF DeleteRow
    <3> HIDE DEF row
    <3> SUFFICES ASSUME NEW q \in Requests, req'[q].at \in {"update", "save"}
                 PROVE  rows'[req'[q].id].kept = "yes"
      BY DEF SavesKept, Kept
    <3>2. q # r
      BY <1>1, <1>2, <3>1 DEF Write
    <3>3. req'[q].at = req[q].at /\ req'[q].id = req[q].id
      BY <3>1, <3>2, Unmoved
    <3>4. rows[req[q].id].kept = "yes" /\ req[q].id # req[r].id
      BY <3>1, <3>3 DEF SavesKept, Kept, DeletesApart
    <3>5. rows' = [rows EXCEPT ![req[r].id] = row] /\ rows \in [Rows -> Row] /\ req[q].id \in Rows
      BY <1>2, <3>1, <3>3 DEF Write, IInv, TableOK, Typed, OnRow
    <3> QED
      BY <3>3, <3>4, <3>5
  <2> QED
    BY <1>10, <2>1, <2>2 DEF DeleteCreatorEntry
<1>11. CASE Restart
  BY <1>1, <1>11 DEF Restart, SavesKept
<1>12. CASE UNCHANGED vars
  BY <1>12 DEF vars, SavesKept, Kept
<1> QED
  BY <1>5, <1>6, <1>7, <1>8, <1>9, <1>10, <1>11, <1>12 DEF Next

LEMMA DeletesApartRefines ==
  DeletesApartSpec => Spec /\ []DeletesApart
<1>1. [Next /\ DeletesApart']_vars => [Next]_vars
  OBVIOUS
<1>2. Init => DeletesApart
  BY DEF Init, DeletesApart, Idle, Waiting
<1>3. DeletesApart /\ [Next /\ DeletesApart']_vars => DeletesApart'
  BY DEF DeletesApart, vars
<1> QED
  BY <1>1, <1>2, <1>3, PTL DEF DeletesApartSpec, Spec

\* A row stays deleted if nothing saves it between the look and the end of a delete
\* of it, however updates, uploads and deletes of it overlap otherwise.
THEOREM DeletedApart == DeletesApartSpec => DeletedStaysDeleted
<1> DEFINE Step == \A i \in Rows :
                     rows[i].kept = "deleted" => rows'[i].kept = "deleted" \/ Posted(i)
<1>1. IInv /\ SavesKept /\ [Next]_vars => [Step]_vars
  <2> SUFFICES ASSUME IInv, SavesKept, Next, NEW i \in Rows, rows[i].kept = "deleted"
               PROVE  rows'[i].kept = "deleted" \/ Posted(i)
    OBVIOUS
  <2>1. /\ rows \in [Rows -> Row]
        /\ \A r \in Requests : Typed(req[r])
    BY DEF IInv, TableOK, Good
  \* What is written is a new row, one that is there, a posted one, or a deletion.
  <2>2. ASSUME NEW r \in Requests, NEW j \in Rows, NEW row, NEW next, Write(r, j, row, next),
               rows[j].kept # "deleted" \/ row.kept = "deleted"
        PROVE  rows'[i].kept = "deleted"
    BY <2>1, <2>2 DEF Write
  <2>3. ASSUME NEW r \in Requests, NEW j \in Rows, CreateCreatorEntry(r, j)
        PROVE  rows'[i].kept = "deleted"
    BY <2>2, <2>3 DEF CreateCreatorEntry
  <2>4. ASSUME NEW r \in Requests, NEW j \in Rows, NEW channel \in Channels,
               NEW access \in Channels, NEW refresh \in Channels,
               PostCreatorEntry(r, j, channel, access, refresh)
        PROVE  rows'[i].kept = "deleted" \/ Posted(i)
    <3>1. CASE j = i
      BY <2>4, <3>1 DEF Posted
    <3>2. CASE j # i
      BY <2>1, <2>4, <3>2 DEF PostCreatorEntry, Write
    <3> QED
      BY <3>1, <3>2
  <2>5. ASSUME NEW r \in Requests, UploadSave(r) PROVE rows'[i].kept = "deleted"
    <3>1. req[r].id \in Rows /\ rows[req[r].id].kept = "yes"
      BY <2>1, <2>5 DEF UploadSave, Typed, OnRow, SavesKept, Kept
    <3> QED
      BY <2>2, <2>5, <3>1 DEF UploadSave
  <2>6. ASSUME NEW r \in Requests, UpdateSave(r) PROVE rows'[i].kept = "deleted"
    <3>1. req[r].id \in Rows /\ rows[req[r].id].kept = "yes"
      BY <2>1, <2>6 DEF UpdateSave, Typed, OnRow, SavesKept, Kept
    <3> QED
      BY <2>2, <2>6, <3>1 DEF UpdateSave
  <2>7. ASSUME NEW r \in Requests, DeleteRow(r) PROVE rows'[i].kept = "deleted"
    <3>1. req[r].id \in Rows /\ [NoRow EXCEPT !.kept = "deleted"].kept = "deleted"
      BY <2>1, <2>7 DEF DeleteRow, Typed, OnRow, NoRow, Entry
    <3> QED
      BY <2>2, <2>7, <3>1 DEF DeleteRow
  <2>8. ASSUME UNCHANGED rows PROVE rows'[i].kept = "deleted"
    BY <2>8
  <2> QED
    BY <2>3, <2>4, <2>5, <2>6, <2>7, <2>8
       DEF Next, HandleOAuthCallback, GetUserEmail, UploadVideo, UploadBegin, UploadValid,
           UploadExpired, UploadRefreshed, UploadFind, UploadInsert, GetChannelInfo,
           ChannelInfoAnswer, ChannelInfoRefused, RefreshToken, RefreshTokenAnswer,
           UpdateCreatorEntry, UpdateFind, DeleteCreatorEntry, DeleteFind, RequestFails, Restart
<1>2. Init => SavesKept
  BY DEF Init, SavesKept, Idle, Waiting
<1>3. DeletesApartSpec => [][Step]_vars
  BY <1>1, <1>2, DeletesApartRefines, SavesKeptInductive, Inductive, PTL DEF Spec
<1> QED
  BY <1>3 DEF DeletedStaysDeleted
=============================================================================
