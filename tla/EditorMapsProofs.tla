-------------------------- MODULE EditorMapsProofs --------------------------
(***************************************************************************)
(* Theorems about EditorMaps, for any pool and any number of rows and      *)
(* requests.                                                               *)
(***************************************************************************)
EXTENDS EditorMaps, TLAPS

LEMMA IdleIsRequest == Idle \in Request
BY DEF Idle, Request, Value

LEMMA NoWritesIsNothing == NoWrites \in [Ids -> {"same"}] /\ \A i \in Ids : NoWrites[i] = "same"
BY DEF NoWrites

LEMMA FreeIsConn == Free \in Conn /\ Free.by = None /\ Free.tx = "none" /\ Free.writes = NoWrites
BY NoWritesIsNothing DEF Free, Conn

\* What an invariant says is kept by steps that change nothing.
LEMMA Stutter == ASSUME IInv, UNCHANGED vars PROVE IInv'
BY DEF IInv, vars, TypeOK, Paired, OnlyLookUpLeavesOpen, AcknowledgedWritesKept, Accounted,
       OwnWrite, InTransaction

LEMMA CallStep ==
  ASSUME IInv, NEW r \in Requests, NEW auto \in BOOLEAN, Call(r, auto)
  PROVE  IInv'
<1> DEFINE next == [Idle EXCEPT !.at = "connect", !.auto = auto]
<1>1. /\ next \in Request /\ next.conn = None /\ next.at = "connect" /\ next.auto = auto
      /\ next.id = None
  BY IdleIsRequest DEF Request, Idle
<1>2. req' = [req EXCEPT ![r] = next] /\ UNCHANGED <<rows, conn, left, joined, promised>>
  BY DEF Call, Go
<1>3. req[r].at = "idle" /\ req[r].conn = None
  BY DEF IInv, TypeOK, Call
<1> HIDE DEF next
<1>4. TypeOK'
  BY <1>1, <1>2, <1>3, NothingElse DEF IInv, TypeOK, Paired
<1>5. OnlyLookUpLeavesOpen' /\ AcknowledgedWritesKept'
  BY <1>2 DEF IInv, OnlyLookUpLeavesOpen, AcknowledgedWritesKept
<1>6. Accounted' /\ OwnWrite' /\ InTransaction'
  BY <1>1, <1>2, <1>3, NothingElse DEF IInv, TypeOK, Accounted, OwnWrite, InTransaction, Idle
<1> QED BY <1>4, <1>5, <1>6 DEF IInv

\* A request and the connection it holds, or takes, change together.
LEMMA TypeStep ==
  ASSUME TypeOK, NEW r \in Requests, NEW c \in Conns, NEW next \in Request, NEW held \in Conn,
         conn' = [conn EXCEPT ![c] = held], req' = [req EXCEPT ![r] = next],
         req[r].conn \in {c, None}, conn[c].by \in {r} \/ conn[c].by \notin Requests,
         \/ next.conn = c /\ held.by = r
         \/ next.conn = None /\ held.by \notin Requests,
         next.at \in {"idle", "connect"} <=> next.conn = None,
         held.tx # "open" => held.writes = NoWrites,
         rows' \in [Ids -> Value], left' \subseteq Conns, joined' \subseteq Ids,
         promised' \in [Ids -> Value]
  PROVE  TypeOK'
<1>1. conn' \in [Conns -> Conn] /\ req' \in [Requests -> Request]
  BY DEF TypeOK
<1>2. ASSUME NEW q \in Requests, NEW d \in Conns PROVE Paired(q, d)'
  BY NothingElse DEF TypeOK, Paired
<1>3. \A q \in Requests : req'[q].at \in {"idle", "connect"} <=> req'[q].conn = None
  BY DEF TypeOK
<1>4. \A d \in Conns : conn'[d].tx # "open" => conn'[d].writes = NoWrites
  BY DEF TypeOK
<1> QED BY <1>1, <1>2, <1>3, <1>4 DEF TypeOK

\* What a request that is not waiting for a connection holds.
LEMMA Holding ==
  ASSUME TypeOK, NEW r \in Requests, req[r].at \notin {"idle", "connect"}
  PROVE  /\ req[r].conn \in Conns /\ conn[req[r].conn].by = r
         /\ req[r] \in Request /\ conn[req[r].conn] \in Conn
BY DEF TypeOK, Paired, Request

LEMMA OpenStep ==
  ASSUME IInv, NEW r \in Requests, NEW c \in Conns, Open(r, c)
  PROVE  IInv'
<1> DEFINE next == [req[r] EXCEPT !.at = "run", !.conn = c]
           held == [conn[c] EXCEPT !.by = r, !.tx = IF req[r].auto THEN conn[c].tx ELSE "open"]
<1>1. req[r] \in Request /\ conn[c] \in Conn /\ req[r].conn = None /\ conn[c].by = None
  BY DEF IInv, TypeOK, Open
<1>2. /\ next \in Request /\ next.conn = c /\ next.at = "run" /\ next.auto = req[r].auto
      /\ next.id = None
  BY <1>1 DEF Request, IInv, OwnWrite, Open
<1>3. /\ held \in Conn /\ held.by = r /\ held.writes = conn[c].writes
      /\ req[r].auto => held.tx = conn[c].tx
      /\ ~req[r].auto => held.tx = "open"
  BY <1>1 DEF Conn
<1>4. /\ conn' = [conn EXCEPT ![c] = held] /\ req' = [req EXCEPT ![r] = next]
      /\ UNCHANGED <<rows, left, joined, promised>>
  BY DEF Open, Go
<1>5. c \notin left => conn[c].tx = "none"
  BY <1>1, NothingElse DEF IInv, OnlyLookUpLeavesOpen
<1> HIDE DEF next, held
<1>6. TypeOK'
  <2>1. held.tx # "open" => held.writes = NoWrites
    BY <1>3 DEF IInv, TypeOK
  <2> QED BY <1>1, <1>2, <1>3, <1>4, <2>1, NothingElse, TypeStep DEF IInv, TypeOK
<1>7. OnlyLookUpLeavesOpen' /\ AcknowledgedWritesKept'
  BY <1>3, <1>4 DEF IInv, TypeOK, OnlyLookUpLeavesOpen, AcknowledgedWritesKept
<1>8. Accounted'
  BY <1>1, <1>2, <1>3, <1>4, NothingElse DEF IInv, TypeOK, Accounted
<1>9. OwnWrite'
  BY <1>2, <1>3, <1>4 DEF IInv, TypeOK, OwnWrite
<1>10. InTransaction'
  <2>1. \A q \in Requests : q # r => req[q].conn # c
    BY <1>1, NothingElse DEF IInv, TypeOK, Paired
  <2> QED BY <1>2, <1>3, <1>4, <1>5, <2>1 DEF IInv, TypeOK, InTransaction
<1> QED BY <1>6, <1>7, <1>8, <1>9, <1>10 DEF IInv

\* A connection is given back: nothing may be uncommitted on it unless it is left open.
LEMMA GivenBack ==
  ASSUME IInv, NEW r \in Requests, NEW c \in Conns, req[r].conn = c, conn[c].by = r,
         NEW tx \in {"none", "open", "aborted"}, NEW writes \in [Ids -> Value \cup {"same"}],
         Release(r, c, tx, writes),
         tx # "open" => writes = NoWrites,
         rows' \in [Ids -> Value], promised' \in [Ids -> Value],
         left' \subseteq Conns, \A d \in Conns \ {c} : d \in left' <=> d \in left,
         joined' \subseteq Ids, joined \subseteq joined',
         c \notin left' => tx = "none",
         \A i \in Ids : writes[i] # "same" => c \in left' /\ i \in joined',
         \A i \in Ids : promised'[i] # rows'[i] => i \in joined'
  PROVE  IInv'
<1> DEFINE held == [by |-> None, tx |-> tx, writes |-> writes]
<1>1. held \in Conn /\ held.by = None /\ held.tx = tx /\ held.writes = writes
  BY DEF Conn
<1>2. Idle \in Request /\ Idle.conn = None /\ Idle.at = "idle" /\ Idle.auto = FALSE /\ Idle.id = None
  BY IdleIsRequest DEF Idle
<1>3. conn' = [conn EXCEPT ![c] = held] /\ req' = [req EXCEPT ![r] = Idle]
  BY DEF Release, Go
<1> HIDE DEF held
<1>4. TypeOK'
  BY <1>1, <1>2, <1>3, NothingElse, TypeStep DEF IInv
<1>5. OnlyLookUpLeavesOpen' /\ AcknowledgedWritesKept'
  BY <1>1, <1>3, NothingElse, LostIsNobody
     DEF IInv, TypeOK, OnlyLookUpLeavesOpen, AcknowledgedWritesKept
<1>6. Accounted'
  <2>1. ASSUME NEW d \in Conns \ {c}, NEW i \in Ids, conn[d].writes[i] # "same", d \notin left
        PROVE  \E q \in Requests : req'[q].conn = d /\ req'[q].at = "commit" /\ req'[q].id = i
    <3>1. PICK q \in Requests : req[q].conn = d /\ req[q].at = "commit" /\ req[q].id = i
      BY <2>1 DEF IInv, Accounted
    <3> QED BY <1>3, <3>1 DEF IInv, TypeOK
  <2> QED BY <1>1, <1>3, <2>1 DEF IInv, TypeOK, Accounted
<1>7. \A q \in Requests : q # r => req[q].conn # c
  BY DEF IInv, TypeOK, Paired
<1>8. OwnWrite' /\ InTransaction'
  BY <1>1, <1>2, <1>3, <1>7 DEF IInv, TypeOK, OwnWrite, InTransaction
<1> QED BY <1>4, <1>5, <1>6, <1>8 DEF IInv

\* A handler goes on with its connection: what is uncommitted there is its own write,
\* unless the connection was left open.
LEMMA GoesOn ==
  ASSUME IInv, NEW r \in Requests, NEW c \in Conns, req[r].conn = c, conn[c].by = r,
         NEW next \in Request, NEW held \in Conn,
         conn' = [conn EXCEPT ![c] = held], req' = [req EXCEPT ![r] = next],
         UNCHANGED <<rows, left, promised>>, joined' \subseteq Ids, joined \subseteq joined',
         next.conn = c, held.by = r, next.at \notin {"idle", "connect", "run"},
         held.tx # "open" => held.writes = NoWrites,
         c \in left => \A i \in Ids : held.writes[i] # "same" => i \in joined',
         c \notin left => \A i \in Ids : held.writes[i] # "same" =>
                                        next.at = "commit" /\ next.id = i,
         next.at = "commit" /\ next.id # None => held.writes[next.id] = next.to,
         next.auto /\ c \notin left => held.tx = "none",
         next.at = "write" => next.id # None /\ (~next.auto => held.tx = "open")
  PROVE  IInv'
<1>1. TypeOK'
  BY NothingElse, TypeStep DEF IInv, TypeOK
<1>2. OnlyLookUpLeavesOpen' /\ AcknowledgedWritesKept'
  BY DEF IInv, TypeOK, OnlyLookUpLeavesOpen, AcknowledgedWritesKept
<1>3. Accounted'
  <2>1. ASSUME NEW d \in Conns \ {c}, NEW i \in Ids, conn[d].writes[i] # "same", d \notin left
        PROVE  \E q \in Requests : req'[q].conn = d /\ req'[q].at = "commit" /\ req'[q].id = i
    <3>1. PICK q \in Requests : req[q].conn = d /\ req[q].at = "commit" /\ req[q].id = i
      BY <2>1 DEF IInv, Accounted
    <3> QED BY <3>1 DEF IInv, TypeOK
  <2> QED BY <2>1 DEF IInv, TypeOK, Accounted
<1>4. \A q \in Requests : q # r => req[q].conn # c
  BY DEF IInv, TypeOK, Paired
<1>5. OwnWrite' /\ InTransaction'
  BY <1>4 DEF IInv, TypeOK, OwnWrite, InTransaction
<1> QED BY <1>1, <1>2, <1>3, <1>5 DEF IInv

\* On a connection that was not left open only its holder has written, and only what it
\* is about to commit.
LEMMA OwnOnly ==
  ASSUME IInv, NEW r \in Requests, NEW c \in Conns, req[r].conn = c, c \notin left,
         NEW i \in Ids, conn[c].writes[i] # "same"
  PROVE  req[r].at = "commit" /\ req[r].id = i
<1>1. PICK q \in Requests : req[q].conn = c /\ req[q].at = "commit" /\ req[q].id = i
  BY DEF IInv, Accounted
<1>2. q = r
  BY <1>1 DEF IInv, TypeOK, Paired
<1> QED BY <1>1, <1>2

LEMMA StartTransactionThrowsStep ==
  ASSUME IInv, NEW r \in Requests, NEW c \in Conns, StartTransactionThrows(r, c)
  PROVE  IInv'
<1> DEFINE held == [conn[c] EXCEPT !.by = "lost"]
<1>1. conn[c] \in Conn /\ req[r].conn = None /\ conn[c].by = None
  BY DEF IInv, TypeOK, StartTransactionThrows
<1>2. held \in Conn /\ held.by = "lost" /\ held.tx = conn[c].tx /\ held.writes = conn[c].writes
  BY <1>1 DEF Conn
<1>3. Idle \in Request /\ Idle.conn = None /\ Idle.at = "idle" /\ Idle.auto = FALSE /\ Idle.id = None
  BY IdleIsRequest DEF Idle
<1>4. /\ conn' = [conn EXCEPT ![c] = held] /\ req' = [req EXCEPT ![r] = Idle]
      /\ UNCHANGED <<rows, left, joined, promised>>
  BY DEF StartTransactionThrows, Go
<1>5. c \in left
  BY <1>1, NothingElse DEF IInv, OnlyLookUpLeavesOpen, StartTransactionThrows
<1> HIDE DEF held
<1>6. TypeOK'
  <2>1. held.tx # "open" => held.writes = NoWrites
    BY <1>2 DEF IInv, TypeOK
  <2> QED BY <1>1, <1>2, <1>3, <1>4, <2>1, NothingElse, LostIsNobody, TypeStep DEF IInv, TypeOK
<1>7. OnlyLookUpLeavesOpen' /\ AcknowledgedWritesKept'
  BY <1>4, <1>5 DEF IInv, TypeOK, OnlyLookUpLeavesOpen, AcknowledgedWritesKept
<1>8. Accounted'
  BY <1>1, <1>2, <1>3, <1>4, NothingElse DEF IInv, TypeOK, Accounted
<1>9. OwnWrite' /\ InTransaction'
  BY <1>2, <1>3, <1>4, NothingElse DEF IInv, TypeOK, OwnWrite, InTransaction
<1> QED BY <1>6, <1>7, <1>8, <1>9 DEF IInv

\* What a transaction sees has a value for every row.
LEMMA VisibleType ==
  ASSUME TypeOK, NEW c \in Conns
  PROVE  /\ Visible(c) \in [Ids -> Value]
         /\ \A i \in Ids : Visible(c)[i] = IF conn[c].writes[i] = "same" THEN rows[i]
                                          ELSE conn[c].writes[i]
BY DEF TypeOK, Visible, Conn

LEMMA CommitStep ==
  ASSUME IInv, NEW r \in Requests, Commit(r)
  PROVE  IInv'
<1> DEFINE c == req[r].conn
<1>1. c \in Conns /\ conn[c].by = r /\ req[r] \in Request /\ req[r].at = "commit"
  BY Holding DEF IInv, Commit
<1>2. /\ Release(r, c, "none", NoWrites) /\ rows' = Visible(c) /\ left' = left \ {c}
      /\ joined' = joined
      /\ promised' = IF req[r].id = None THEN promised
                     ELSE [promised EXCEPT ![req[r].id] = req[r].to]
  BY DEF Commit
<1>3. NoWrites \in [Ids -> Value \cup {"same"}] /\ \A i \in Ids : NoWrites[i] = "same"
  BY NoWritesIsNothing
<1>4. rows' \in [Ids -> Value] /\ promised' \in [Ids -> Value]
  BY <1>1, <1>2, VisibleType DEF IInv, TypeOK, Request
<1>5. ASSUME NEW i \in Ids, promised'[i] # rows'[i] PROVE i \in joined
  <2>1. CASE req[r].id = i
    <3>1. promised'[i] = req[r].to /\ conn[c].writes[i] = req[r].to
      BY <1>1, <1>2, <2>1, NothingElse DEF IInv, TypeOK, OwnWrite
    <3>2. req[r].to # "same"
      BY <1>1, MapStatuses DEF Request, Value
    <3> QED BY <1>1, <1>2, <1>5, <3>1, <3>2, VisibleType DEF IInv
  <2>2. CASE req[r].id # i
    <3>1. promised'[i] = promised[i]
      BY <1>1, <1>2, <2>2 DEF IInv, TypeOK, Request
    <3>2. CASE conn[c].writes[i] = "same"
      BY <1>1, <1>2, <1>5, <3>1, <3>2, VisibleType DEF IInv, AcknowledgedWritesKept
    <3>3. CASE conn[c].writes[i] # "same"
      <4>1. c \in left
        BY <1>1, <2>2, <3>3, OwnOnly
      <4> QED BY <1>1, <3>3, <4>1 DEF IInv, Accounted
    <3> QED BY <3>2, <3>3
  <2> QED BY <2>1, <2>2
<1> HIDE DEF c
<1> QED BY <1>1, <1>2, <1>3, <1>4, <1>5, GivenBack DEF IInv, TypeOK, c

LEMMA RollbackStep ==
  ASSUME IInv, NEW r \in Requests, Rollback(r)
  PROVE  IInv'
<1> DEFINE c == req[r].conn
<1>1. c \in Conns /\ conn[c].by = r
  BY Holding DEF IInv, Rollback
<1>2. /\ Release(r, c, "none", NoWrites) /\ left' = left \ {c}
      /\ UNCHANGED <<rows, joined, promised>>
  BY DEF Rollback
<1>3. NoWrites \in [Ids -> Value \cup {"same"}] /\ \A i \in Ids : NoWrites[i] = "same"
  BY NoWritesIsNothing
<1> HIDE DEF c
<1> QED BY <1>1, <1>2, <1>3, GivenBack DEF IInv, TypeOK, AcknowledgedWritesKept, c

\* What a request at a statement knows of its connection.
LEMMA AtStatement ==
  ASSUME IInv, NEW r \in Requests, req[r].at \in {"run", "write"}, NEW c, c = req[r].conn
  PROVE  /\ c \in Conns /\ conn[c].by = r /\ conn[c] \in Conn /\ req[r] \in Request
         /\ conn[c].tx # "open" => conn[c].writes = NoWrites
         /\ c \notin left => \A i \in Ids : conn[c].writes[i] = "same"
         /\ c \in left => \A i \in Ids : conn[c].writes[i] # "same" => i \in joined
         /\ c \notin left /\ req[r].auto => conn[c].tx = "none"
<1>1. c \in Conns /\ conn[c].by = r /\ conn[c] \in Conn /\ req[r] \in Request
  BY Holding DEF IInv
<1>2. conn[c].tx # "open" => conn[c].writes = NoWrites
  BY <1>1 DEF IInv, TypeOK
<1>3. c \notin left => \A i \in Ids : conn[c].writes[i] = "same"
  BY <1>1, OwnOnly
<1>4. c \in left => \A i \in Ids : conn[c].writes[i] # "same" => i \in joined
  BY <1>1 DEF IInv, Accounted
<1>5. c \notin left /\ req[r].auto => conn[c].tx = "none"
  BY <1>1 DEF IInv, InTransaction
<1> QED BY <1>1, <1>2, <1>3, <1>4, <1>5

\* A request that has nothing of its own to say gives the connection back as it is.
LEMMA ReleaseAsIs ==
  ASSUME IInv, NEW r \in Requests, req[r].at \in {"run", "write"}, NEW c, c = req[r].conn,
         Release(r, c, conn[c].tx, conn[c].writes),
         UNCHANGED <<rows, joined, promised>>,
         \/ req[r].auto /\ left' = left
         \/ left' = left \cup {c} /\ \A i \in Ids : conn[c].writes[i] # "same" => c \in left
  PROVE  IInv'
<1>1. /\ c \in Conns /\ conn[c].by = r
      /\ conn[c].tx \in {"none", "open", "aborted"} /\ conn[c].writes \in [Ids -> Value \cup {"same"}]
  BY AtStatement DEF Conn
<1>2. c \notin left' => conn[c].tx = "none"
  BY AtStatement
<1>3. \A i \in Ids : conn[c].writes[i] # "same" => c \in left' /\ i \in joined'
  BY AtStatement
<1>4. conn[c].tx # "open" => conn[c].writes = NoWrites
  BY AtStatement
<1> QED BY <1>1, <1>2, <1>3, <1>4, GivenBack DEF IInv, TypeOK, AcknowledgedWritesKept

LEMMA FailStep ==
  ASSUME IInv, NEW r \in Requests, Fail(r)
  PROVE  IInv'
<1> SUFFICES ASSUME NEW c, c = req[r].conn PROVE IInv'
  OBVIOUS
<1> DEFINE tx == IF conn[c].tx = "none" THEN "none" ELSE "aborted"
<1>1. /\ req[r].at \in {"run", "write"} /\ UNCHANGED <<rows, left, joined, promised>>
      /\ c \in Conns /\ conn[c].by = r /\ conn[c] \in Conn /\ req[r] \in Request
  BY AtStatement DEF Fail
<1>2. NoWrites \in [Ids -> Value \cup {"same"}] /\ \A i \in Ids : NoWrites[i] = "same"
  BY NoWritesIsNothing
<1>3. CASE req[r].auto
  <2>1. Release(r, c, tx, NoWrites)
    BY <1>3 DEF Fail
  <2>2. c \notin left' => tx = "none"
    BY <1>1, <1>3, AtStatement
  <2> QED BY <1>1, <1>2, <2>1, <2>2, GivenBack DEF IInv, TypeOK, AcknowledgedWritesKept
<1>4. CASE ~req[r].auto
  <2> DEFINE next == [req[r] EXCEPT !.at = "rollback", !.id = None, !.to = "unused"]
             held == [conn[c] EXCEPT !.tx = tx, !.writes = NoWrites]
  <2>1. conn' = [conn EXCEPT ![c] = held] /\ req' = [req EXCEPT ![r] = next]
    BY <1>4 DEF Fail, Go
  <2>2. next \in Request /\ next.at = "rollback" /\ next.conn = c /\ next.auto = FALSE
    BY <1>1, <1>4 DEF Request, Value
  <2>3. held \in Conn /\ held.by = r /\ held.writes = NoWrites
    BY <1>1, <1>2 DEF Conn
  <2>4. joined \subseteq Ids
    BY DEF IInv, TypeOK
  <2> HIDE DEF next, held, tx
  <2> QED BY <1>1, <1>2, <2>1, <2>2, <2>3, <2>4, GoesOn
<1> QED BY <1>3, <1>4

\* A handler that only changes where it waits, and what for.
LEMMA Waits ==
  ASSUME IInv, NEW r \in Requests, req[r].at \in {"run", "write"}, NEW next \in Request,
         req' = [req EXCEPT ![r] = next], UNCHANGED <<rows, conn, left, joined, promised>>,
         next.conn = req[r].conn, next.auto = req[r].auto,
         next.at \notin {"idle", "connect", "run"}, next.at = "commit" => next.id = None,
         next.at = "write" => next.id # None
  PROVE  IInv'
<1>1. req[r].conn \in Conns /\ req[r].conn # None
  BY AtStatement, NothingElse
<1>2. TypeOK'
  BY <1>1 DEF IInv, TypeOK, Paired
<1>3. OnlyLookUpLeavesOpen' /\ AcknowledgedWritesKept'
  BY DEF IInv, OnlyLookUpLeavesOpen, AcknowledgedWritesKept
<1>4. Accounted'
  <2>1. ASSUME NEW d \in Conns, NEW i \in Ids, conn[d].writes[i] # "same", d \notin left
        PROVE  \E q \in Requests : req'[q].conn = d /\ req'[q].at = "commit" /\ req'[q].id = i
    <3>1. PICK q \in Requests : req[q].conn = d /\ req[q].at = "commit" /\ req[q].id = i
      BY <2>1 DEF IInv, Accounted
    <3> QED BY <3>1 DEF IInv, TypeOK
  <2> QED BY <2>1 DEF IInv, Accounted
<1>5. OwnWrite' /\ InTransaction'
  BY <1>1 DEF IInv, TypeOK, OwnWrite, InTransaction
<1> QED BY <1>2, <1>3, <1>4, <1>5 DEF IInv

LEMMA FindStep ==
  ASSUME IInv, NEW r \in Requests, Find(r)
  PROVE  IInv'
<1>1. req[r].at = "run" /\ req[r] \in Request /\ req[r].id = None
  BY AtStatement DEF Find, Runs, IInv, OwnWrite
<1>2. CASE req[r].auto
  BY <1>1, <1>2, ReleaseAsIs DEF Find
<1>3. CASE ~req[r].auto
  <2> DEFINE next == [req[r] EXCEPT !.at = "commit"]
  <2>1. next \in Request /\ next.at = "commit" /\ next.id = None /\ next.conn = req[r].conn
        /\ next.auto = req[r].auto
    BY <1>1 DEF Request
  <2>2. req' = [req EXCEPT ![r] = next] /\ UNCHANGED <<rows, conn, left, joined, promised>>
    BY <1>3 DEF Find, Go
  <2> HIDE DEF next
  <2> QED BY <1>1, <2>1, <2>2, Waits
<1> QED BY <1>2, <1>3

LEMMA LookUpStep ==
  ASSUME IInv, NEW r \in Requests, NEW i \in Ids, FindByCreatorIdAndEditorId(r, i)
  PROVE  IInv'
<1> SUFFICES ASSUME NEW c, c = req[r].conn PROVE IInv'
  OBVIOUS
<1>1. /\ req[r].at = "run" /\ Release(r, c, conn[c].tx, conn[c].writes)
      /\ left' = left \cup {c} /\ UNCHANGED <<rows, joined, promised>>
  BY DEF FindByCreatorIdAndEditorId, Runs
<1>2. \A j \in Ids : conn[c].writes[j] # "same" => c \in left
  BY <1>1, AtStatement
<1> QED BY <1>1, <1>2, ReleaseAsIs

LEMMA NotFoundStep ==
  ASSUME IInv, NEW r \in Requests, NotFound(r)
  PROVE  IInv'
<1> DEFINE next == [req[r] EXCEPT !.at = "rollback"]
<1>1. req[r].at = "run" /\ req[r] \in Request
  BY AtStatement DEF NotFound, Runs
<1>2. /\ next \in Request /\ next.at = "rollback" /\ next.conn = req[r].conn
      /\ next.auto = req[r].auto
  BY <1>1 DEF Request
<1>3. req' = [req EXCEPT ![r] = next] /\ UNCHANGED <<rows, conn, left, joined, promised>>
  BY DEF NotFound, Go
<1> HIDE DEF next
<1> QED BY <1>1, <1>2, <1>3, Waits

LEMMA AskStep ==
  ASSUME IInv, NEW r \in Requests, NEW i \in Ids, NEW to \in Value, Ask(r, i, to)
  PROVE  IInv'
<1> DEFINE next == [req[r] EXCEPT !.at = "write", !.id = i, !.to = to]
<1>1. req[r].at = "run" /\ req[r] \in Request
  BY AtStatement DEF Ask, Runs
<1>2. /\ next \in Request /\ next.at = "write" /\ next.conn = req[r].conn
      /\ next.auto = req[r].auto
  BY <1>1 DEF Request
<1>3. req' = [req EXCEPT ![r] = next] /\ UNCHANGED <<rows, conn, left, joined, promised>>
  BY DEF Ask, Go
<1>4. next.id # None
  BY <1>1, NothingElse DEF Request
<1> HIDE DEF next
<1> QED BY <1>1, <1>2, <1>3, <1>4, Waits

\* A connection with one more write.
LEMMA OneMoreWrite ==
  ASSUME NEW held \in Conn, NEW i \in Ids, NEW to \in Value
  PROVE  LET new == [held EXCEPT !.writes = [held.writes EXCEPT ![i] = to]] IN
         /\ new \in Conn /\ new.by = held.by /\ new.tx = held.tx /\ new.writes[i] = to
         /\ \A j \in Ids \ {i} : new.writes[j] = held.writes[j]
BY DEF Conn

LEMMA InsertStep ==
  ASSUME IInv, NEW r \in Requests, NEW i \in Ids, NEW status \in Statuses, Insert(r, i, status)
  PROVE  IInv'
<1> SUFFICES ASSUME NEW c, c = req[r].conn, NEW to \in Value, to = status PROVE IInv'
  BY DEF Value
<1> DEFINE next == [req[r] EXCEPT !.at = "commit", !.id = i, !.to = to]
           held == [conn[c] EXCEPT !.writes = [conn[c].writes EXCEPT ![i] = to]]
<1>1. /\ req[r].at \in {"run", "write"} /\ req[r] \in Request /\ ~req[r].auto
      /\ conn[c].tx = "open" /\ conn[c] \in Conn
  BY AtStatement DEF Insert, Runs, IInv, InTransaction
<1>2. /\ next \in Request /\ next.at = "commit" /\ next.id = i /\ next.to = to
      /\ next.conn = c /\ ~next.auto
  BY <1>1 DEF Request
<1>3. /\ held \in Conn /\ held.by = conn[c].by /\ held.tx = conn[c].tx
      /\ held.writes[i] = to /\ \A j \in Ids \ {i} : held.writes[j] = conn[c].writes[j]
  BY <1>1, OneMoreWrite
<1>4. /\ conn' = [conn EXCEPT ![c] = held] /\ req' = [req EXCEPT ![r] = next]
      /\ UNCHANGED <<rows, left, promised>>
      /\ joined' \subseteq Ids /\ joined \subseteq joined' /\ (c \in left => i \in joined')
  BY DEF Insert, Go, IInv, TypeOK
<1> HIDE DEF next, held
<1>5. c \in Conns /\ conn[c].by = r
  BY <1>1, AtStatement
<1>6. c \in left => \A j \in Ids : held.writes[j] # "same" => j \in joined'
  BY <1>1, <1>3, <1>4, AtStatement
<1>7. c \notin left => \A j \in Ids : held.writes[j] # "same" =>
                                    next.at = "commit" /\ next.id = j
  BY <1>1, <1>2, <1>3, AtStatement
<1> QED BY <1>1, <1>2, <1>3, <1>4, <1>5, <1>6, <1>7, GoesOn

LEMMA WriteNothingStep ==
  ASSUME IInv, NEW r \in Requests, WriteNothing(r)
  PROVE  IInv'
<1>1. req[r].at = "write" /\ req[r] \in Request
  BY AtStatement DEF WriteNothing, Unlocked, Runs
<1>2. CASE req[r].auto
  BY <1>1, <1>2, ReleaseAsIs DEF WriteNothing
<1>3. CASE ~req[r].auto
  <2> DEFINE next == [req[r] EXCEPT !.at = "commit", !.id = None, !.to = "unused"]
  <2>1. /\ next \in Request /\ next.at = "commit" /\ next.id = None
        /\ next.conn = req[r].conn /\ next.auto = req[r].auto
    BY <1>1 DEF Request, Value
  <2>2. req' = [req EXCEPT ![r] = next] /\ UNCHANGED <<rows, conn, left, joined, promised>>
    BY <1>3 DEF WriteNothing, Go
  <2> HIDE DEF next
  <2> QED BY <1>1, <2>1, <2>2, Waits
<1> QED BY <1>2, <1>3

LEMMA WriteAloneStep ==
  ASSUME IInv, NEW r \in Requests, WriteAlone(r), req[r].id \in Ids
  PROVE  IInv'
<1> SUFFICES ASSUME NEW c, c = req[r].conn PROVE IInv'
  OBVIOUS
<1>1. /\ req[r].at = "write" /\ Release(r, c, "none", NoWrites) /\ UNCHANGED <<left, joined>>
      /\ rows' = [rows EXCEPT ![req[r].id] = req[r].to]
      /\ promised' = [promised EXCEPT ![req[r].id] = req[r].to]
  BY DEF WriteAlone, Unlocked, Runs
<1>2. c \in Conns /\ conn[c].by = r /\ req[r].to \in Value
  BY <1>1, AtStatement DEF Request
<1>3. NoWrites \in [Ids -> Value \cup {"same"}] /\ \A i \in Ids : NoWrites[i] = "same"
  BY NoWritesIsNothing
<1>4. /\ rows' \in [Ids -> Value] /\ promised' \in [Ids -> Value]
      /\ left' \subseteq Conns /\ joined' \subseteq Ids
      /\ \A i \in Ids : promised'[i] # rows'[i] => i \in joined'
  BY <1>1, <1>2 DEF IInv, TypeOK, AcknowledgedWritesKept
<1> QED BY <1>1, <1>2, <1>3, <1>4, GivenBack

LEMMA WriteInsideStep ==
  ASSUME IInv, NEW r \in Requests, WriteInside(r), req[r].id \in Ids
  PROVE  IInv'
<1> SUFFICES ASSUME NEW c, c = req[r].conn, NEW i \in Ids, i = req[r].id,
                    NEW to, to = req[r].to
             PROVE  IInv'
  OBVIOUS
<1> DEFINE writes == [conn[c].writes EXCEPT ![i] = to]
<1>1. /\ req[r].at = "write" /\ conn[c].tx = "open" /\ UNCHANGED <<rows, left>>
      /\ joined' = IF c \in left THEN joined \cup {i} ELSE joined
  BY DEF WriteInside, Unlocked, Runs
<1>2. /\ c \in Conns /\ conn[c].by = r /\ req[r] \in Request /\ to \in Value
      /\ writes \in [Ids -> Value \cup {"same"}]
  BY <1>1, AtStatement DEF Request, Conn
<1>3. CASE req[r].auto
  <2>1. Release(r, c, "open", writes) /\ promised' = [promised EXCEPT ![i] = to]
    BY <1>3 DEF WriteInside
  <2>2. c \in left
    BY <1>1, <1>3, AtStatement
  <2>3. \A j \in Ids : writes[j] # "same" => c \in left' /\ j \in joined'
    BY <1>1, <1>2, <2>2, AtStatement DEF Conn
  <2>4. /\ promised' \in [Ids -> Value] /\ rows' \in [Ids -> Value]
        /\ left' \subseteq Conns /\ joined' \subseteq Ids /\ joined \subseteq joined'
        /\ \A j \in Ids : promised'[j] # rows'[j] => j \in joined'
    BY <1>1, <1>2, <2>1, <2>2 DEF IInv, TypeOK, AcknowledgedWritesKept
  <2> HIDE DEF writes
  <2> QED BY <1>1, <1>2, <2>1, <2>2, <2>3, <2>4, GivenBack
<1>4. CASE ~req[r].auto
  <2> DEFINE next == [req[r] EXCEPT !.at = "commit"]
             held == [conn[c] EXCEPT !.writes = [conn[c].writes EXCEPT ![i] = to]]
  <2>1. /\ next \in Request /\ next.at = "commit" /\ next.id = i /\ next.to = to
        /\ next.conn = c /\ ~next.auto
    BY <1>2, <1>4 DEF Request
  <2>2. /\ conn' = [conn EXCEPT ![c] = held] /\ req' = [req EXCEPT ![r] = next]
        /\ UNCHANGED <<rows, left, promised>>
    BY <1>4 DEF WriteInside, Go
  <2>4. joined' \subseteq Ids /\ joined \subseteq joined' /\ (c \in left => i \in joined')
    BY <1>1 DEF IInv, TypeOK
  <2>3. /\ held \in Conn /\ held.by = conn[c].by /\ held.tx = conn[c].tx
        /\ held.writes[i] = to /\ \A j \in Ids \ {i} : held.writes[j] = conn[c].writes[j]
    BY <1>1, <1>2, AtStatement, OneMoreWrite
  <2> HIDE DEF next, held
  <2>5. c \in left => \A j \in Ids : held.writes[j] # "same" => j \in joined'
    BY <1>1, <2>3, <2>4, AtStatement
  <2>6. c \notin left => \A j \in Ids : held.writes[j] # "same" =>
                                      next.at = "commit" /\ next.id = j
    BY <1>1, <2>1, <2>3, AtStatement
  <2>7. held.by = r /\ held.tx = "open" /\ held.writes[next.id] = next.to /\ c \in Conns
    BY <1>1, <1>2, <2>1, <2>3
  <2>8. req[r].conn = c /\ conn[c].by = r
    BY <1>2
  <2> QED BY <2>1, <2>2, <2>3, <2>4, <2>5, <2>6, <2>7, <2>8, GoesOn
<1> QED BY <1>3, <1>4

LEMMA RestartStep ==
  ASSUME IInv, Restart
  PROVE  IInv'
<1>1. /\ Idle \in Request /\ Idle.conn = None /\ Idle.at = "idle" /\ Idle.auto = FALSE
      /\ Idle.id = None
  BY IdleIsRequest DEF Idle
<1>2. /\ Free \in Conn /\ Free.by = None /\ Free.tx = "none" /\ Free.writes = NoWrites
      /\ \A i \in Ids : NoWrites[i] = "same"
  BY FreeIsConn, NoWritesIsNothing
<1>3. /\ conn' = [c \in Conns |-> Free] /\ req' = [r \in Requests |-> Idle] /\ left' = {}
      /\ UNCHANGED <<rows, joined, promised>>
  BY DEF Restart
<1>4. TypeOK'
  BY <1>1, <1>2, <1>3, NothingElse DEF IInv, TypeOK, Paired
<1>5. OnlyLookUpLeavesOpen' /\ AcknowledgedWritesKept'
  BY <1>2, <1>3, LostIsNobody DEF IInv, OnlyLookUpLeavesOpen, AcknowledgedWritesKept
<1>6. Accounted' /\ OwnWrite' /\ InTransaction'
  BY <1>1, <1>2, <1>3, NothingElse DEF Accounted, OwnWrite, InTransaction
<1> QED BY <1>4, <1>5, <1>6 DEF IInv

LEMMA InitInv == ASSUME Init PROVE IInv
<1>1. /\ Idle \in Request /\ Idle.conn = None /\ Idle.at = "idle" /\ Idle.auto = FALSE
      /\ Idle.id = None
  BY IdleIsRequest DEF Idle
<1>2. /\ Free \in Conn /\ Free.by = None /\ Free.tx = "none" /\ Free.writes = NoWrites
      /\ \A i \in Ids : NoWrites[i] = "same"
  BY FreeIsConn, NoWritesIsNothing
<1>3. rows \in [Ids -> Value]
  BY DEF Init, Value
<1>4. TypeOK
  BY <1>1, <1>2, <1>3, NothingElse DEF Init, TypeOK, Paired
<1>5. OnlyLookUpLeavesOpen /\ AcknowledgedWritesKept
  BY <1>2, LostIsNobody DEF Init, OnlyLookUpLeavesOpen, AcknowledgedWritesKept
<1>6. Accounted /\ OwnWrite /\ InTransaction
  BY <1>1, <1>2, NothingElse DEF Init, Accounted, OwnWrite, InTransaction
<1> QED BY <1>4, <1>5, <1>6 DEF IInv

\* What a request that writes is to write is a row.
LEMMA RowToWrite ==
  ASSUME IInv, NEW r \in Requests, req[r].at = "write"
  PROVE  req[r].id \in Ids
BY Holding DEF IInv, OwnWrite, Request

LEMMA NextKeepsInv == ASSUME IInv, [Next]_vars PROVE IInv'
<1>1. CASE UNCHANGED vars
  BY <1>1, Stutter
<1>2. ASSUME NEW r \in Requests, NEW auto \in BOOLEAN, Call(r, auto) PROVE IInv'
  BY <1>2, CallStep
<1>3. ASSUME NEW r \in Requests, NEW c \in Conns, Open(r, c) \/ StartTransactionThrows(r, c)
      PROVE  IInv'
  BY <1>3, OpenStep, StartTransactionThrowsStep
<1>4. ASSUME NEW r \in Requests, Proceed(r) PROVE IInv'
  <2>1. CASE Find(r) \/ NotFound(r)
    BY <2>1, FindStep, NotFoundStep
  <2>2. ASSUME NEW i \in Ids, FindByCreatorIdAndEditorId(r, i) \/ RequestEditor(r, i) PROVE IInv'
    BY <2>2, LookUpStep, InsertStep, MapStatuses DEF RequestEditor
  <2>3. ASSUME NEW i \in Ids, NEW status \in Statuses,
               \/ Save(r, i, status) \/ AccountSave(r, i, status)
               \/ Update(r, i, status) \/ AccountUpdate(r, i, status)
        PROVE  IInv'
    <3>1. status \in Value
      BY DEF Value
    <3> QED BY <2>3, <3>1, InsertStep, AskStep DEF Save, AccountSave, Update, AccountUpdate
  <2>4. ASSUME NEW i \in Ids, Delete(r, i) \/ AccountDelete(r, i) PROVE IInv'
    <3>1. "deleted" \in Value
      BY DEF Value
    <3> QED BY <2>4, <3>1, AskStep DEF Delete, AccountDelete
  <2>5. ASSUME NEW i \in Ids, NEW to \in Value, OtherWrite(r, i, to) PROVE IInv'
    BY <2>5, AskStep DEF OtherWrite
  <2> QED BY <1>4, <2>1, <2>2, <2>3, <2>4, <2>5 DEF Proceed
<1>5. ASSUME NEW r \in Requests, Write(r) PROVE IInv'
  <2>1. req[r].id \in Ids
    BY <1>5, RowToWrite DEF Write, WriteNothing, WriteAlone, WriteInside, Unlocked, Runs
  <2> QED BY <1>5, <2>1, WriteNothingStep, WriteAloneStep, WriteInsideStep DEF Write
<1>6. ASSUME NEW r \in Requests, Commit(r) \/ Rollback(r) \/ Fail(r) PROVE IInv'
  BY <1>6, CommitStep, RollbackStep, FailStep
<1>7. CASE Restart
  BY <1>7, RestartStep
<1> QED BY <1>1, <1>2, <1>3, <1>4, <1>5, <1>6, <1>7 DEF Next

LEMMA Invariance == Spec => []IInv
BY InitInv, NextKeepsInv, PTL DEF Spec
-----------------------------------------------------------------------------
(***************************************************************************)
(* The tables, connections and requests keep their types, a request and    *)
(* its connection know of each other, and nothing is uncommitted outside   *)
(* an open transaction.                                                    *)
(***************************************************************************)
THEOREM MapsTypeCorrect == Spec => []TypeOK
BY Invariance, PTL DEF IInv

(***************************************************************************)
(* Every path of every handler but one ends its transaction and gives its  *)
(* connection back.                                                        *)
(***************************************************************************)
THEOREM HandlersEndTransactions == Spec => []OnlyLookUpLeavesOpen
BY Invariance, PTL DEF IInv

(***************************************************************************)
(* An acknowledged write is in the table unless it was made on a           *)
(* connection that had been left open.                                     *)
(***************************************************************************)
THEOREM WritesKept == Spec => []AcknowledgedWritesKept
BY Invariance, PTL DEF IInv

(***************************************************************************)
(* A request commits a write of another only on a connection left open.    *)
(***************************************************************************)
THEOREM OwnCommits == Spec => CommitsOwnWrites
<1> DEFINE Own == \A i \in Ids : rows'[i] # rows[i] =>
                   \E r \in Requests : /\ req[r].conn # None
                                       /\ req[r].id = i \/ req[r].conn \in left
<1>1. ASSUME IInv, [Next]_vars PROVE [Own]_vars
  <2>1. ASSUME NEW r \in Requests, Commit(r) PROVE Own
    <3>1. req[r].conn \in Conns /\ rows' = Visible(req[r].conn)
      BY <1>1, <2>1, Holding DEF IInv, Commit
    <3>2. ASSUME NEW i \in Ids, rows'[i] # rows[i]
          PROVE  req[r].id = i \/ req[r].conn \in left
      <4>1. conn[req[r].conn].writes[i] # "same"
        BY <1>1, <3>1, <3>2, VisibleType DEF IInv
      <4> QED BY <1>1, <3>1, <4>1, OwnOnly
    <3> QED BY <3>1, <3>2, NothingElse
  <2>2. ASSUME NEW r \in Requests, WriteAlone(r) PROVE Own
    <3>1. req[r].conn \in Conns
      BY <1>1, <2>2, Holding DEF IInv, WriteAlone, Unlocked, Runs
    <3>2. ASSUME NEW i \in Ids, rows'[i] # rows[i] PROVE req[r].id = i
      BY <1>1, <2>2, <3>2 DEF IInv, TypeOK, WriteAlone
    <3> QED BY <3>1, <3>2, NothingElse
  <2>3. ASSUME NEW r \in Requests, Proceed(r) PROVE rows' = rows
    BY <2>3 DEF Proceed, Find, NotFound, FindByCreatorIdAndEditorId, RequestEditor, Save,
                AccountSave, Insert, Update, AccountUpdate, Delete, AccountDelete, OtherWrite, Ask
  <2>4. ASSUME NEW r \in Requests, \/ WriteNothing(r) \/ WriteInside(r)
                                   \/ Rollback(r) \/ Fail(r)
        PROVE  rows' = rows
    BY <2>4 DEF WriteNothing, WriteInside, Rollback, Fail
  <2>5. ASSUME NEW r \in Requests, NEW auto \in BOOLEAN, Call(r, auto) PROVE rows' = rows
    BY <2>5 DEF Call
  <2>6. ASSUME NEW r \in Requests, NEW c \in Conns, Open(r, c) \/ StartTransactionThrows(r, c)
        PROVE  rows' = rows
    BY <2>6 DEF Open, StartTransactionThrows
  <2>7. Restart => rows' = rows
    BY DEF Restart
  <2>8. rows' = rows => Own
    OBVIOUS
  <2> HIDE DEF Own
  <2> QED BY <1>1, <2>1, <2>2, <2>3, <2>4, <2>5, <2>6, <2>7, <2>8 DEF Next, Write
<1>2. IInv /\ [Next]_vars => [Own]_vars
  BY <1>1
<1> QED BY <1>2, Invariance, PTL DEF CommitsOwnWrites, Spec
-----------------------------------------------------------------------------
(***************************************************************************)
(* Progress: while no connection is left in a transaction, some request    *)
(* has a next step that no other request holds up.  A request without a    *)
(* connection waits for one that another request holds, and a writer for   *)
(* the lock of a request that has only its commit left.                    *)
(***************************************************************************)
THEOREM NoDeadlock == Spec => []NotAllWait
<1>1. ASSUME IInv, left = {}, NEW q \in Requests, req[q].at # "idle"
      PROVE  \E r \in Requests : NotHeldUp(r)
  \* The server answers whoever holds a connection, or the holder of the lock.
  <2>1. ASSUME NEW r \in Requests, req[r].at \notin {"idle", "connect"}
        PROVE  \E p \in Requests : NotHeldUp(p)
    <3>1. req[r].conn \in Conns /\ conn[req[r].conn].by = r /\ req[r] \in Request
      BY <1>1, <2>1, Holding DEF IInv
    <3>2. req[r].at \in {"run", "write"} => Runs(r, req[r].at)
      BY <1>1, <3>1 DEF Runs, IInv, InTransaction
    <3>3. CASE req[r].at # "write"
      BY <2>1, <3>1, <3>2, <3>3 DEF NotHeldUp, Request
    <3>4. CASE req[r].at = "write" /\ ~Unlocked(r)
      <4>1. PICK d \in Conns : conn[d].writes[req[r].id] # "same"
        BY <3>2, <3>4 DEF Unlocked
      <4>2. req[r].id \in Ids
        BY <1>1, <3>1, <3>4 DEF IInv, OwnWrite, Request
      <4>3. PICK p \in Requests : req[p].at = "commit"
        BY <1>1, <4>1, <4>2 DEF IInv, Accounted
      <4> QED BY <4>3 DEF NotHeldUp
    <3>5. CASE Unlocked(r)
      BY <3>5 DEF NotHeldUp
    <3> QED BY <3>3, <3>4, <3>5
  \* A connection that is not free is held by such a request.
  <2>2. CASE req[q].at = "connect"
    <3>1. PICK c \in Conns : TRUE
      BY PoolNotEmpty
    <3>2. conn[c].by \in Requests \cup {None}
      BY <1>1, <3>1 DEF IInv, TypeOK, Conn, OnlyLookUpLeavesOpen
    <3>3. CASE conn[c].by = None
      BY <2>2, <3>3 DEF NotHeldUp
    <3>4. ASSUME NEW r \in Requests, conn[c].by = r PROVE req[r].at \notin {"idle", "connect"}
      BY <1>1, <3>4, NothingElse DEF IInv, TypeOK, Paired
    <3> QED BY <2>1, <3>2, <3>3, <3>4
  <2> QED BY <1>1, <2>1, <2>2
<1>2. IInv => NotAllWait
  BY <1>1 DEF NotAllWait
<1> QED BY <1>2, Invariance, PTL
-----------------------------------------------------------------------------
(* The tables as the clients see them.                                     *)

\* Row locks, where no row and no new write is involved.
LEMMA KeepsLocks ==
  ASSUME Locked, rows' = rows,
         \A c \in Conns, i \in Ids :
           conn'[c].writes[i] # "same" =>
             conn'[c].writes[i] = conn[c].writes[i] /\ (c \in left => c \in left')
  PROVE  Locked'
BY DEF Locked

\* A transaction ends, or a statement outside of one: rows nobody else has locked change.
LEMMA EndsLocks ==
  ASSUME Locked, TypeOK, NEW c \in Conns, NEW held, left \ {c} \subseteq left',
         conn' = [conn EXCEPT ![c] = held], \A i \in Ids : held.writes[i] = "same",
         \A i \in Ids : rows'[i] # rows[i] => \A d \in Conns \ {c} : conn[d].writes[i] = "same"
  PROVE  Locked'
<1> SUFFICES ASSUME NEW d \in Conns, NEW j \in Ids, conn'[d].writes[j] # "same"
             PROVE  /\ \A e \in Conns \ {d} : conn'[e].writes[j] = "same"
                    /\ rows'[j] # "deleted" /\ conn'[d].writes[j] # "unused"
                    /\ d \in left' \/ conn'[d].writes[j] # "deleted" \/ rows'[j] \in Statuses
  BY DEF Locked
<1>1. /\ conn'[c] = held /\ \A e \in Conns \ {c} : conn'[e] = conn[e]
  BY DEF TypeOK
<1>2. d # c /\ conn[d].writes[j] # "same"
  BY <1>1
<1>3. rows'[j] = rows[j]
  BY <1>2
<1> QED BY <1>1, <1>2, <1>3 DEF Locked

\* What the steps of Next do to the connections and the answers, short of the writes.
LEMMA QuietStep ==
  ASSUME IInv, Locked, NothingUndone, NEW r \in Requests,
         \/ \E auto \in BOOLEAN : Call(r, auto)
         \/ \E c \in Conns : Open(r, c) \/ StartTransactionThrows(r, c)
         \/ Find(r) \/ NotFound(r) \/ WriteNothing(r) \/ Rollback(r) \/ Fail(r)
         \/ \E i \in Ids : FindByCreatorIdAndEditorId(r, i)
  PROVE  Locked' /\ NothingUndone' /\ UNCHANGED <<rows, promised, joined>>
<1>1. UNCHANGED <<rows, promised, joined>>
  BY DEF Call, Open, StartTransactionThrows, Find, NotFound, WriteNothing, Rollback, Fail,
         FindByCreatorIdAndEditorId
<1>2. NothingUndone'
  <2>1. ASSUME NEW next, req' = [req EXCEPT ![r] = next], next.at # "write" PROVE NothingUndone'
    BY <2>1 DEF NothingUndone, IInv, TypeOK
  <2>2. ASSUME Go(r, Idle) PROVE NothingUndone'
    <3>1. Idle.at # "write"
      BY DEF Idle
    <3> QED BY <2>1, <2>2, <3>1 DEF Go
  <2>3. ASSUME NEW old \in Request, NEW at \in {"connect", "run", "commit", "rollback"}, NEW next,
               \/ \E auto : next = [old EXCEPT !.at = at, !.auto = auto]
               \/ \E c : next = [old EXCEPT !.at = at, !.conn = c]
               \/ \E i, to : next = [old EXCEPT !.at = at, !.id = i, !.to = to]
               \/ next = [old EXCEPT !.at = at],
               Go(r, next)
        PROVE  NothingUndone'
    <3>1. next.at = at
      BY <2>3 DEF Request
    <3> QED BY <2>1, <2>3, <3>1 DEF Go
  <2>4. req[r] \in Request /\ Idle \in Request
    BY IdleIsRequest DEF IInv, TypeOK
  <2>5. ASSUME NEW auto \in BOOLEAN, Call(r, auto) PROVE NothingUndone'
    BY <2>3, <2>4, <2>5 DEF Call
  <2>6. ASSUME NEW c \in Conns, Open(r, c) PROVE NothingUndone'
    BY <2>3, <2>4, <2>6 DEF Open
  <2>7. CASE Find(r) \/ NotFound(r) \/ WriteNothing(r)
    BY <2>2, <2>3, <2>4, <2>7 DEF Find, NotFound, WriteNothing, Release
  <2>8. CASE Rollback(r) \/ Fail(r) \/ \E i \in Ids : FindByCreatorIdAndEditorId(r, i)
    BY <2>2, <2>3, <2>4, <2>8 DEF Rollback, Fail, FindByCreatorIdAndEditorId, Release
  <2> QED BY <2>2, <2>5, <2>6, <2>7, <2>8 DEF StartTransactionThrows
<1>3. Locked'
  <2>1. ASSUME conn' = conn, left' = left PROVE Locked'
    BY <1>1, <2>1, KeepsLocks
  <2>2. ASSUME NEW c \in Conns, NEW held, conn' = [conn EXCEPT ![c] = held],
               held.writes = conn[c].writes, left \subseteq left'
        PROVE  Locked'
    <3>1. \A d \in Conns : conn'[d].writes = conn[d].writes
      BY <2>2 DEF IInv, TypeOK
    <3> QED BY <1>1, <2>2, <3>1, KeepsLocks
  <2>3. ASSUME NEW c \in Conns, NEW held, conn' = [conn EXCEPT ![c] = held],
               held.writes = NoWrites, left \ {c} \subseteq left'
        PROVE  Locked'
    BY <1>1, <2>3, EndsLocks, NoWritesIsNothing DEF IInv
  <2>4. CASE (\E auto \in BOOLEAN : Call(r, auto)) \/ NotFound(r)
    BY <2>1, <2>4 DEF Call, NotFound
  <2>5. ASSUME NEW c \in Conns, Open(r, c) \/ StartTransactionThrows(r, c) PROVE Locked'
    <3>1. conn[c] \in Conn
      BY DEF IInv, TypeOK
    <3>2. CASE Open(r, c)
      <4> DEFINE held == [conn[c] EXCEPT !.by = r, !.tx = IF req[r].auto THEN conn[c].tx ELSE "open"]
      <4>1. held.writes = conn[c].writes
        BY <3>1 DEF Conn
      <4>2. conn' = [conn EXCEPT ![c] = held] /\ left' = left
        BY <3>2 DEF Open
      <4> HIDE DEF held
      <4> QED BY <2>2, <4>1, <4>2
    <3>3. CASE StartTransactionThrows(r, c)
      <4> DEFINE held == [conn[c] EXCEPT !.by = "lost"]
      <4>1. held.writes = conn[c].writes
        BY <3>1 DEF Conn
      <4>2. conn' = [conn EXCEPT ![c] = held] /\ left' = left
        BY <3>3 DEF StartTransactionThrows
      <4> HIDE DEF held
      <4> QED BY <2>2, <4>1, <4>2
    <3> QED BY <2>5, <3>2, <3>3
  <2>6. CASE Find(r) \/ WriteNothing(r) \/ \E i \in Ids : FindByCreatorIdAndEditorId(r, i)
    <3>1. req[r].conn \in Conns
      BY <2>6, Holding DEF IInv, Find, WriteNothing, FindByCreatorIdAndEditorId, Unlocked, Runs
    <3>2. /\ left \subseteq left'
          /\ \/ conn' = conn /\ left' = left
             \/ Release(r, req[r].conn, conn[req[r].conn].tx, conn[req[r].conn].writes)
      BY <2>6 DEF Find, WriteNothing, FindByCreatorIdAndEditorId
    <3> QED BY <2>1, <2>2, <3>1, <3>2 DEF Release
  <2>7. CASE Rollback(r) \/ Fail(r)
    <3> DEFINE c == req[r].conn
    <3>1. c \in Conns /\ conn[c] \in Conn
      BY <2>7, Holding DEF IInv, Rollback, Fail
    <3>2. left \ {c} \subseteq left'
      BY <2>7 DEF Rollback, Fail
    <3>3. ASSUME NEW tx, conn' = [conn EXCEPT ![c] = [@ EXCEPT !.tx = tx, !.writes = NoWrites]]
          PROVE  Locked'
      <4> DEFINE held == [conn[c] EXCEPT !.tx = tx, !.writes = NoWrites]
      <4>1. held.writes = NoWrites /\ conn' = [conn EXCEPT ![c] = held]
        BY <3>1, <3>3 DEF Conn
      <4> HIDE DEF held, c
      <4> QED BY <2>3, <3>1, <3>2, <4>1
    <3>4. ASSUME NEW tx, Release(r, c, tx, NoWrites) PROVE Locked'
      <4> DEFINE held == [by |-> None, tx |-> tx, writes |-> NoWrites]
      <4>1. held.writes = NoWrites /\ conn' = [conn EXCEPT ![c] = held]
        BY <3>4 DEF Release
      <4> HIDE DEF held, c
      <4> QED BY <2>3, <3>1, <3>2, <4>1
    <3> QED BY <2>7, <3>3, <3>4 DEF Rollback, Fail
  <2> QED BY <2>4, <2>5, <2>6, <2>7
<1> QED BY <1>1, <1>2, <1>3

\* A write that waits for the commit of its transaction.
LEMMA OneStaged ==
  ASSUME IInv, Locked, NothingUndone, NEW r \in Requests, NEW c \in Conns, NEW i \in Ids,
         NEW to \in Value \ {"unused"}, NEW held, NEW next,
         held.writes = [conn[c].writes EXCEPT ![i] = to], conn' = [conn EXCEPT ![c] = held],
         next.at # "write", req' = [req EXCEPT ![r] = next],
         UNCHANGED <<rows, left>>, joined \subseteq joined',
         \A d \in Conns \ {c} : conn[d].writes[i] = "same",
         rows[i] # "deleted", c \in left \/ rows[i] \in Statuses \/ to # "deleted",
         promised' = promised \/ (promised' = [promised EXCEPT ![i] = to] /\ i \in joined')
  PROVE  Locked' /\ NothingUndone' /\ Table!Join(joined' \ joined)
<1>1. /\ held.writes[i] = to /\ \A j \in Ids \ {i} : held.writes[j] = conn[c].writes[j]
  BY DEF IInv, TypeOK, Conn
<1>2. Locked'
  <2> SUFFICES ASSUME NEW d \in Conns, NEW j \in Ids, conn'[d].writes[j] # "same"
               PROVE  /\ \A e \in Conns \ {d} : conn'[e].writes[j] = "same"
                      /\ rows[j] # "deleted" /\ conn'[d].writes[j] # "unused"
                      /\ d \in left \/ conn'[d].writes[j] # "deleted" \/ rows[j] \in Statuses
    BY DEF Locked
  <2>1. TypeOK /\ held.writes[i] # "unused" /\ (c \in left \/ held.writes[i] # "deleted" \/ rows[i] \in Statuses)
    BY <1>1 DEF IInv
  <2>2. /\ conn'[c] = held /\ \A e \in Conns \ {c} : conn'[e] = conn[e]
    BY <2>1 DEF TypeOK
  <2>3. CASE j = i
    <3>1. d = c
      BY <2>2, <2>3
    <3> QED BY <1>1, <2>2, <2>3, <2>1, <3>1
  <2>4. CASE j # i
    <3>1. ASSUME NEW e \in Conns PROVE conn'[e].writes[j] = conn[e].writes[j]
      <4>1. held.writes[j] = conn[c].writes[j]
        BY <1>1, <2>4
      <4> QED BY <2>2, <4>1
    <3> QED BY <3>1 DEF Locked
  <2> QED BY <2>3, <2>4
<1>3. NothingUndone'
  BY DEF NothingUndone, IInv, TypeOK
<1>4. \A j \in Ids : promised'[j] # promised[j] => j \in joined'
  BY DEF IInv, TypeOK
<1> QED BY <1>2, <1>3, <1>4 DEF Table!Join

LEMMA InsertStaged ==
  ASSUME IInv, Locked, NothingUndone, NEW r \in Requests, NEW i \in Ids, NEW status \in Statuses,
         Insert(r, i, status)
  PROVE  Locked' /\ NothingUndone' /\ Table!Join(joined' \ joined)
<1> DEFINE c == req[r].conn
           held == [conn[c] EXCEPT !.writes = [conn[c].writes EXCEPT ![i] = status]]
           next == [req[r] EXCEPT !.at = "commit", !.id = i, !.to = status]
<1>1. req[r] \in Request /\ c \in Conns /\ conn[c] \in Conn
  BY AtStatement DEF Insert, Runs
<1>2. /\ held.writes = [conn[c].writes EXCEPT ![i] = status] /\ next.at # "write"
  BY <1>1 DEF Request, Conn
<1>3. /\ conn' = [conn EXCEPT ![c] = held] /\ req' = [req EXCEPT ![r] = next]
      /\ \A d \in Conns : conn[d].writes[i] = "same"
      /\ rows[i] = "unused" /\ UNCHANGED <<rows, left, promised>> /\ joined \subseteq joined'
  BY DEF Insert, Go
<1>4. status \in Value \ {"unused"} /\ status # "deleted"
  BY MapStatuses DEF Value
<1> HIDE DEF c, held, next
<1> QED BY <1>1, <1>2, <1>3, <1>4, OneStaged

LEMMA WriteInsideStaged ==
  ASSUME IInv, Locked, NothingUndone, NEW r \in Requests, WriteInside(r), req[r].id \in Ids
  PROVE  Locked' /\ NothingUndone' /\ Table!Join(joined' \ joined)
<1> DEFINE c == req[r].conn
           i == req[r].id
           to == req[r].to
           writes == [conn[c].writes EXCEPT ![i] = to]
           given == [by |-> None, tx |-> "open", writes |-> writes]
           kept == [conn[c] EXCEPT !.writes = writes]
           next == [req[r] EXCEPT !.at = "commit"]
<1>1. /\ req[r].at = "write" /\ Visible(c)[i] \in Statuses /\ conn[c].tx = "open"
      /\ \A d \in Conns \ {c} : conn[d].writes[i] = "same"
      /\ UNCHANGED <<rows, left>> /\ joined \subseteq joined' /\ (c \in left => i \in joined')
  BY DEF WriteInside, Unlocked, Runs, There
<1>2. /\ req[r] \in Request /\ c \in Conns /\ conn[c] \in Conn
      /\ c \notin left => conn[c].writes[i] = "same"
      /\ c \notin left => ~req[r].auto
  BY <1>1, AtStatement
<1>3. to \in Value \ {"unused"}
  BY <1>1, <1>2 DEF NothingUndone, Request
<1>4. rows[i] # "deleted" /\ (c \in left \/ rows[i] \in Statuses)
  BY <1>1, <1>2, VisibleType, MapStatuses DEF IInv, Locked
<1>5. given.writes = writes /\ kept.writes = writes /\ next.at # "write" /\ Idle.at # "write"
  BY <1>2 DEF Request, Conn, Idle
<1>6. \/ /\ c \in left
         /\ conn' = [conn EXCEPT ![c] = given] /\ req' = [req EXCEPT ![r] = Idle]
         /\ promised' = [promised EXCEPT ![i] = to]
      \/ /\ conn' = [conn EXCEPT ![c] = kept] /\ req' = [req EXCEPT ![r] = next]
         /\ promised' = promised
  BY <1>2 DEF WriteInside, Release, Go
<1>7. writes = [conn[c].writes EXCEPT ![i] = to] /\ i \in Ids
  OBVIOUS
<1> HIDE DEF c, i, to, writes, given, kept, next
<1>8. CASE c \in left /\ conn' = [conn EXCEPT ![c] = given] /\ req' = [req EXCEPT ![r] = Idle]
           /\ promised' = [promised EXCEPT ![i] = to]
  BY <1>1, <1>2, <1>3, <1>4, <1>5, <1>7, <1>8, OneStaged
<1>9. CASE conn' = [conn EXCEPT ![c] = kept] /\ req' = [req EXCEPT ![r] = next]
           /\ promised' = promised
  <2>1. kept.writes = [conn[c].writes EXCEPT ![i] = to] /\ next.at # "write"
    BY <1>5, <1>7
  <2>2. c \in left \/ rows[i] \in Statuses \/ to # "deleted"
    BY <1>4
  <2> QED BY <1>1, <1>2, <1>3, <1>4, <1>7, <1>9, <2>1, <2>2, OneStaged
<1> QED BY <1>6, <1>8, <1>9

\* The steps that change the committed rows.
LEMMA WriteAloneChanges ==
  ASSUME IInv, Locked, NothingUndone, NEW r \in Requests, WriteAlone(r), req[r].id \in Ids
  PROVE  Locked' /\ NothingUndone' /\ Table!Next
<1> DEFINE c == req[r].conn
           i == req[r].id
           to == req[r].to
           held == [by |-> None, tx |-> "none", writes |-> NoWrites]
<1>1. /\ req[r].at = "write" /\ Visible(c)[i] \in Statuses /\ conn[c].tx = "none"
      /\ \A d \in Conns \ {c} : conn[d].writes[i] = "same"
      /\ rows' = [rows EXCEPT ![i] = to] /\ promised' = [promised EXCEPT ![i] = to]
      /\ UNCHANGED <<left, joined>>
  BY DEF WriteAlone, Unlocked, Runs, There
<1>2. req[r] \in Request /\ c \in Conns /\ \A j \in Ids : conn[c].writes[j] = "same"
  BY <1>1, AtStatement, NoWritesIsNothing
<1>3. held.writes = NoWrites /\ conn' = [conn EXCEPT ![c] = held] /\ req' = [req EXCEPT ![r] = Idle]
  BY DEF WriteAlone, Release, Go
<1>4. to \in Value \ {"unused"} /\ rows[i] \in Statuses
  BY <1>1, <1>2, VisibleType DEF NothingUndone, Request, IInv
<1>5. i \in Ids /\ rows \in [Ids -> Value] /\ promised \in [Ids -> Value] /\ TypeOK
  BY DEF IInv, TypeOK
<1> HIDE DEF c, i, to, held
<1>6. Locked'
  <2>1. \A j \in Ids : rows'[j] # rows[j] => \A d \in Conns \ {c} : conn[d].writes[j] = "same"
    BY <1>1, <1>5
  <2>2. \A j \in Ids : held.writes[j] = "same"
    BY <1>3, NoWritesIsNothing
  <2>3. left \ {c} \subseteq left'
    BY <1>1
  <2> QED BY <1>1, <1>2, <1>3, <1>5, <2>1, <2>2, <2>3, EndsLocks
<1>7. NothingUndone'
  <2>1. Idle.at # "write"
    BY DEF Idle
  <2> QED BY <1>3, <2>1 DEF NothingUndone, IInv, TypeOK
<1>8. CASE i \in joined
  <2>1. \A j \in Ids : rows'[j] # rows[j] \/ promised'[j] # promised[j] => j = i
    BY <1>1, <1>5
  <2>2. rows[i] # "deleted" /\ rows'[i] # "unused"
    BY <1>1, <1>4, <1>5, MapStatuses
  <2>3. Table!Join({})
    BY <1>1, <1>8, <2>1, <2>2 DEF Table!Join
  <2> QED BY <1>6, <1>7, <2>3 DEF Table!Next
<1>9. CASE i \notin joined
  <2>1. Table!Change(i, to)
    BY <1>1, <1>4, <1>9, MapStatuses DEF Table!Change, Value
  <2> QED BY <1>4, <1>5, <1>6, <1>7, <2>1 DEF Table!Next, Table!Content, Value
<1> QED BY <1>8, <1>9

LEMMA CommitChanges ==
  ASSUME IInv, Locked, NothingUndone, NEW r \in Requests, Commit(r)
  PROVE  Locked' /\ NothingUndone' /\ Table!Next
<1> DEFINE c == req[r].conn
           i == req[r].id
           to == req[r].to
           held == [by |-> None, tx |-> "none", writes |-> NoWrites]
<1>1. /\ req[r].at = "commit" /\ rows' = Visible(c) /\ left' = left \ {c} /\ joined' = joined
      /\ promised' = IF i = None THEN promised ELSE [promised EXCEPT ![i] = to]
  BY DEF Commit
<1>2. /\ req[r] \in Request /\ c \in Conns /\ conn[c].by = r /\ conn[c] \in Conn
      /\ i # None => i \in Ids /\ conn[c].writes[i] = to /\ to \in Value
  BY <1>1, Holding DEF IInv, OwnWrite, Request
<1>3. held.writes = NoWrites /\ conn' = [conn EXCEPT ![c] = held] /\ req' = [req EXCEPT ![r] = Idle]
  BY DEF Commit, Release, Go
<1>4. rows \in [Ids -> Value] /\ promised \in [Ids -> Value] /\ TypeOK
  BY DEF IInv, TypeOK
<1>5. \A j \in Ids : rows'[j] = IF conn[c].writes[j] = "same" THEN rows[j] ELSE conn[c].writes[j]
  BY <1>1, <1>2, <1>4, VisibleType
<1>6. c \notin left => \A j \in Ids : conn[c].writes[j] # "same" => i = j
  BY <1>2, OwnOnly
<1>7. c \in left => \A j \in Ids : conn[c].writes[j] # "same" => j \in joined
  BY <1>2 DEF IInv, Accounted
<1>8. to \in Value => to # "same"
  BY MapStatuses DEF Value
<1>9. rows' \in [Ids -> Value]
  BY <1>1, <1>2, <1>4, VisibleType
<1> HIDE DEF c, i, to, held
<1>10. Locked'
  <2>1. \A j \in Ids : rows'[j] # rows[j] => \A d \in Conns \ {c} : conn[d].writes[j] = "same"
    BY <1>2, <1>5 DEF Locked
  <2>2. \A j \in Ids : held.writes[j] = "same"
    BY <1>3, NoWritesIsNothing
  <2>3. left \ {c} \subseteq left'
    BY <1>1
  <2> QED BY <1>2, <1>3, <1>4, <2>1, <2>2, <2>3, EndsLocks
<1>11. NothingUndone'
  <2>1. Idle.at # "write"
    BY DEF Idle
  <2> QED BY <1>3, <1>4, <2>1 DEF NothingUndone, TypeOK
<1>12. CASE c \in left \/ i = None \/ i \in joined
  <2>1. ASSUME NEW j \in Ids, promised'[j] # promised[j] PROVE j \in joined'
    <3>1. i = j /\ i # None
      BY <1>1, <1>2, <1>4, <2>1
    <3>2. conn[c].writes[j] # "same"
      BY <1>2, <1>8, <3>1
    <3> QED BY <1>1, <1>7, <1>12, <3>1, <3>2
  <2>2. ASSUME NEW j \in Ids, rows'[j] # rows[j]
        PROVE  j \in joined' /\ rows[j] # "deleted" /\ rows'[j] # "unused"
    <3>1. conn[c].writes[j] # "same" /\ rows'[j] = conn[c].writes[j]
      BY <1>5, <2>2
    <3>2. rows[j] # "deleted" /\ rows'[j] # "unused"
      BY <1>2, <3>1 DEF Locked
    <3>3. j \in joined
      BY <1>6, <1>7, <1>12, <3>1, NothingElse
    <3> QED BY <1>1, <3>2, <3>3
  <2>3. Table!Join({})
    BY <1>1, <2>1, <2>2 DEF Table!Join
  <2> QED BY <1>10, <1>11, <2>3 DEF Table!Next
<1>13. CASE c \notin left /\ i # None /\ i \notin joined
  <2>1. i \in Ids /\ conn[c].writes[i] = to /\ to \in Value /\ to # "same"
    BY <1>2, <1>8, <1>13
  <2>2. rows' = [rows EXCEPT ![i] = to]
    <3>1. \A j \in Ids : rows'[j] = [rows EXCEPT ![i] = to][j]
      BY <1>4, <1>5, <1>6, <1>13, <2>1
    <3> QED BY <1>4, <1>9, <2>1, <3>1
  <2>3. rows[i] # "deleted" /\ to # "unused" /\ (to = "deleted" => rows[i] \in Statuses)
    BY <1>2, <1>13, <2>1 DEF Locked
  <2>4. Table!Change(i, to)
    BY <1>1, <1>13, <2>1, <2>2, <2>3 DEF Table!Change, Value
  <2> QED BY <1>10, <1>11, <2>1, <2>4 DEF Table!Next, Table!Content, Value
<1> QED BY <1>12, <1>13

LEMMA TableStep ==
  ASSUME IInv, Locked, NothingUndone, [Next]_vars
  PROVE  Locked' /\ NothingUndone' /\ [Table!Next]_(Table!vars)
<1> DEFINE Same == UNCHANGED <<rows, promised, joined>>
<1>1. CASE UNCHANGED vars
  BY <1>1 DEF vars, Locked, NothingUndone, Table!vars
<1>2. ASSUME NEW r \in Requests, NEW auto \in BOOLEAN, Call(r, auto)
      PROVE  Locked' /\ NothingUndone' /\ Same
  BY <1>2, QuietStep
<1>3. ASSUME NEW r \in Requests, NEW c \in Conns, Open(r, c) \/ StartTransactionThrows(r, c)
      PROVE  Locked' /\ NothingUndone' /\ Same
  BY <1>3, QuietStep
<1>4. ASSUME NEW r \in Requests, Rollback(r) \/ Fail(r)
      PROVE  Locked' /\ NothingUndone' /\ Same
  BY <1>4, QuietStep
\* An inserted row joins, if any does.
<1>5. ASSUME Table!Join(joined' \ joined), joined \subseteq joined', joined' \subseteq Ids
      PROVE  Table!Next
  <2>1. joined' \ joined \in SUBSET Ids
    BY <1>5
  <2> QED BY <1>5, <2>1 DEF Table!Next
<1>6. joined' \subseteq Ids
  BY NextKeepsInv DEF IInv, TypeOK
<1>7. ASSUME NEW r \in Requests, Proceed(r)
      PROVE  Locked' /\ NothingUndone' /\ (Same \/ Table!Next)
  <2>1. CASE Find(r) \/ NotFound(r) \/ \E i \in Ids : FindByCreatorIdAndEditorId(r, i)
    BY <2>1, QuietStep
  <2>2. ASSUME NEW i \in Ids, NEW status \in Statuses, Insert(r, i, status)
        PROVE  Locked' /\ NothingUndone' /\ (Same \/ Table!Next)
    <3>1. joined \subseteq joined'
      BY <2>2 DEF Insert
    <3> QED BY <1>5, <1>6, <2>2, <3>1, InsertStaged
  <2>3. ASSUME NEW i, NEW to, to # "unused", Ask(r, i, to)
        PROVE  Locked' /\ NothingUndone' /\ (Same \/ Table!Next)
    <3>1. req[r] \in Request
      BY <2>3, AtStatement DEF Ask, Runs
    <3>2. [req[r] EXCEPT !.at = "write", !.id = i, !.to = to].to = to
      BY <3>1 DEF Request
    <3>3. Same /\ UNCHANGED <<conn, left>> /\ req' = [req EXCEPT ![r] = [req[r] EXCEPT !.at = "write", !.id = i, !.to = to]]
      BY <2>3 DEF Ask, Go
    <3>4. NothingUndone'
      BY <2>3, <3>2, <3>3 DEF NothingUndone, IInv, TypeOK
    <3>5. Locked'
      BY <3>3 DEF Locked
    <3> QED BY <3>3, <3>4, <3>5
  <2>4. \A status \in Statuses : status # "unused"
    BY MapStatuses
  <2>5. CASE \E i \in Ids : RequestEditor(r, i)
    BY <2>2, <2>5, MapStatuses DEF RequestEditor
  <2>6. ASSUME NEW i \in Ids, NEW status \in Statuses,
               \/ Save(r, i, status) \/ AccountSave(r, i, status)
               \/ Update(r, i, status) \/ AccountUpdate(r, i, status)
        PROVE  Locked' /\ NothingUndone' /\ (Same \/ Table!Next)
    BY <2>2, <2>3, <2>4, <2>6 DEF Save, AccountSave, Update, AccountUpdate
  <2>7. ASSUME NEW i \in Ids, Delete(r, i) \/ AccountDelete(r, i)
        PROVE  Locked' /\ NothingUndone' /\ (Same \/ Table!Next)
    BY <2>3, <2>7 DEF Delete, AccountDelete
  <2>8. ASSUME NEW i \in Ids, NEW to \in Value, OtherWrite(r, i, to)
        PROVE  Locked' /\ NothingUndone' /\ (Same \/ Table!Next)
    BY <2>3, <2>8 DEF OtherWrite
  <2> HIDE DEF Same
  <2> QED BY <1>7, <2>1, <2>5, <2>6, <2>7, <2>8 DEF Proceed
<1>8. ASSUME NEW r \in Requests, Write(r)
      PROVE  Locked' /\ NothingUndone' /\ (Same \/ Table!Next)
  <2>1. req[r].id \in Ids
    BY <1>8, RowToWrite DEF Write, WriteNothing, WriteAlone, WriteInside, Unlocked, Runs
  <2>2. CASE WriteNothing(r)
    BY <2>2, QuietStep
  <2>3. CASE WriteAlone(r)
    BY <2>1, <2>3, WriteAloneChanges
  <2>4. CASE WriteInside(r)
    <3>1. joined \subseteq joined'
      BY <2>4 DEF WriteInside
    <3> QED BY <1>5, <1>6, <2>1, <2>4, <3>1, WriteInsideStaged
  <2> QED BY <1>8, <2>2, <2>3, <2>4 DEF Write
<1>9. ASSUME NEW r \in Requests, Commit(r) PROVE Locked' /\ NothingUndone' /\ Table!Next
  BY <1>9, CommitChanges
<1>10. CASE Restart
  <2>1. \A c \in Conns : conn'[c] = Free
    BY <1>10 DEF Restart
  <2>2. \A r \in Requests : req'[r].at = "idle"
    BY <1>10 DEF Restart, Idle
  <2>3. Locked' /\ NothingUndone'
    BY <2>1, <2>2, FreeIsConn, NoWritesIsNothing DEF Locked, NothingUndone
  <2>4. Same
    BY <1>10 DEF Restart
  <2> QED BY <2>3, <2>4 DEF Table!vars
<1>11. Same => UNCHANGED Table!vars
  BY DEF Table!vars
<1> HIDE DEF Same
<1> QED BY <1>1, <1>2, <1>3, <1>4, <1>7, <1>8, <1>9, <1>10, <1>11 DEF Next

(***************************************************************************)
(* Transactions, row locks, failures and restarts together give a client   *)
(* the table of RowTable: a row that was never written on a connection     *)
(* left open changes alone and with its answer, and none comes back after  *)
(* its delete.  Besides the invariant this needs the row locks: a change   *)
(* waiting for its commit found the row as it still is.                    *)
(***************************************************************************)
THEOREM MapsAreATable == Spec => ImplementsTable
<1>1. Init => IInv /\ Locked /\ NothingUndone /\ Table!Init
  <2>1. ASSUME Init PROVE rows \in [Ids -> Table!Content]
    BY <2>1 DEF Init, Table!Content
  <2>2. ASSUME Init PROVE Locked /\ NothingUndone
    BY <2>2, FreeIsConn, NoWritesIsNothing DEF Init, Locked, NothingUndone, Idle
  <2> QED BY <2>1, <2>2, InitInv DEF Init, Table!Init
<1>2. IInv /\ Locked /\ NothingUndone /\ [Next]_vars => (IInv /\ Locked /\ NothingUndone)'
  BY NextKeepsInv, TableStep
<1>3. IInv /\ Locked /\ NothingUndone /\ [Next]_vars => [Table!Next]_(Table!vars)
  BY TableStep
<1> QED BY <1>1, <1>2, <1>3, PTL DEF Spec, ImplementsTable, Table!Spec
=============================================================================
