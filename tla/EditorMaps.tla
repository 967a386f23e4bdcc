----------------------------- MODULE EditorMaps -----------------------------
(***************************************************************************)
(* Map rows, and the pooled connections their handlers run transactions on.*)
(*                                                                         *)
(* A handler of the two map repositories takes a connection, starts a      *)
(* transaction, runs its statements and commits; an error rolls back, and  *)
(* the connection goes back to the pool in any case.  All other requests   *)
(* of the process share the pool; their single statements commit by        *)
(* themselves, on a connection that is not in a transaction.               *)
(*                                                                         *)
(* Left out: what a row says besides its status, and the answers.          *)
(***************************************************************************)
EXTENDS Naturals

CONSTANTS
  CreatorIds,     \* ids of creator_editor_map
  AccountIds,     \* ids of account_editor_map
  OtherIds,       \* rows of other tables: sessions, codes, accounts
  Statuses,
  Conns,          \* the connections of the pool
  Requests,       \* requests that can be in flight at once
  None            \* no request, no connection, no row

Ids == CreatorIds \cup AccountIds \cup OtherIds

ASSUME DistinctTables == /\ CreatorIds \cap AccountIds = {}
                         /\ (CreatorIds \cup AccountIds) \cap OtherIds = {}
ASSUME MapStatuses == "PENDING" \in Statuses /\ Statuses \cap {"unused", "deleted", "same"} = {}
ASSUME NothingElse == None \notin Requests \cup Conns \cup Ids
ASSUME LostIsNobody == "lost" \notin Requests \cup {None}
ASSUME PoolNotEmpty == Conns # {}

VARIABLES
  rows,        \* the committed tables
  conn,        \* who holds a connection, and its transaction on the server
  req,         \* the requests in flight
  left,        \* history: connections given back inside a transaction not yet ended
  joined,      \* history: rows written on such a connection
  promised     \* history: what the requests were told about the rows

vars == <<rows, conn, req, left, joined, promised>>

\* A row of another table is there from the start.
Value == Statuses \cup {"unused", "deleted"}

\* The transaction and its uncommitted writes.  A lost connection is held by no request
\* and will not be given back.
Conn == [by: Requests \cup {None, "lost"}, tx: {"none", "open", "aborted"},
         writes: [Ids -> Value \cup {"same"}]]

NoWrites == [i \in Ids |-> "same"]
Free == [by |-> None, tx |-> "none", writes |-> NoWrites]

\* Where a request waits, whether it runs one statement without a transaction, and the
\* row it is to write.
Request == [at: {"idle", "connect", "run", "write", "commit", "rollback"}, auto: BOOLEAN,
            conn: Conns \cup {None}, id: Ids \cup {None}, to: Value]

Idle == [at |-> "idle", auto |-> FALSE, conn |-> None, id |-> None, to |-> "unused"]

Init ==
  /\ rows \in {f \in [Ids -> {"unused"} \cup Statuses] :
                 \A i \in Ids : f[i] = "unused" <=> i \notin OtherIds}
  /\ conn = [c \in Conns |-> Free]
  /\ req = [r \in Requests |-> Idle]
  /\ left = {}
  /\ joined = {}
  /\ promised = rows

\* A transaction sees its own writes over the committed rows.
Visible(c) == [i \in Ids |-> IF conn[c].writes[i] = "same" THEN rows[i] ELSE conn[c].writes[i]]

Go(r, next) == req' = [req EXCEPT ![r] = next]

\* The request is answered and its connection is back in the pool as it is.
Release(r, c, tx, writes) ==
  /\ conn' = [conn EXCEPT ![c] = [by |-> None, tx |-> tx, writes |-> writes]]
  /\ Go(r, Idle)

\* A request whose statement the server runs: none does in an aborted transaction.
Runs(r, at) == req[r].at = at /\ conn[req[r].conn].tx # "aborted"
-----------------------------------------------------------------------------
(* Connections and transactions.                                           *)

Call(r, auto) ==
  /\ req[r].at = "idle"
  /\ Go(r, [Idle EXCEPT !.at = "connect", !.auto = auto])
  /\ UNCHANGED <<rows, conn, left, joined, promised>>

\* connect and startTransaction.  In a transaction that was left open the server warns
\* and goes on with that one.
Open(r, c) ==
  /\ req[r].at = "connect" /\ conn[c].by = None
  /\ req[r].auto \/ conn[c].tx # "aborted"
  /\ conn' = [conn EXCEPT ![c] = [@ EXCEPT !.by = r,
                              !.tx = IF req[r].auto THEN conn[c].tx ELSE "open"]]
  /\ Go(r, [req[r] EXCEPT !.at = "run", !.conn = c])
  /\ UNCHANGED <<rows, left, joined, promised>>

\* In an aborted transaction startTransaction throws, before the try whose finally
\* gives the connection back.
StartTransactionThrows(r, c) ==
  /\ req[r].at = "connect" /\ conn[c].by = None
  /\ ~req[r].auto /\ conn[c].tx = "aborted"
  /\ conn' = [conn EXCEPT ![c] = [@ EXCEPT !.by = "lost"]]
  /\ Go(r, Idle)
  /\ UNCHANGED <<rows, left, joined, promised>>

\* Mutant: the connection is given back and the transaction not committed.
Commit_Not(r) ==
  LET c == req[r].conn IN
  /\ req[r].at = "commit"
  /\ Release(r, c, "open", conn[c].writes)
  /\ promised' = IF req[r].id = None THEN promised
                 ELSE [promised EXCEPT ![req[r].id] = req[r].to]
  /\ UNCHANGED <<rows, left, joined>>

\* Mutant: the connection is given back only after an error.
Commit_Keeps(r) ==
  LET c == req[r].conn IN
  /\ req[r].at = "commit"
  /\ rows' = Visible(c)
  /\ conn' = [conn EXCEPT ![c] = [by |-> "lost", tx |-> "none", writes |-> NoWrites]]
  /\ Go(r, Idle)
  /\ left' = left \ {c}
  /\ promised' = IF req[r].id = None THEN promised
                 ELSE [promised EXCEPT ![req[r].id] = req[r].to]
  /\ UNCHANGED joined

\* Everything written in the transaction is committed, by whomever.  An update reads the
\* row again before it answers; if that fails the answer is an error and the row stays.
Commit(r) ==
  LET c == req[r].conn IN
  /\ req[r].at = "commit"
  /\ rows' = Visible(c)
  /\ Release(r, c, "none", NoWrites)
  /\ left' = left \ {c}
  /\ promised' = IF req[r].id = None THEN promised
                 ELSE [promised EXCEPT ![req[r].id] = req[r].to]
  /\ UNCHANGED joined

\* Mutant: an error leaves the transaction to the next request.
Rollback_Not(r) ==
  LET c == req[r].conn IN
  /\ req[r].at = "rollback"
  /\ Release(r, c, conn[c].tx, conn[c].writes)
  /\ UNCHANGED <<rows, left, joined, promised>>

Rollback(r) ==
  LET c == req[r].conn IN
  /\ req[r].at = "rollback"
  /\ Release(r, c, "none", NoWrites)
  /\ left' = left \ {c}
  /\ UNCHANGED <<rows, joined, promised>>

\* A statement fails.  The server ends a transaction it is part of; nobody but a handler
\* asks for the rollback.
Fail(r) ==
  LET c == req[r].conn
      tx == IF conn[c].tx = "none" THEN "none" ELSE "aborted" IN
  /\ req[r].at \in {"run", "write"}
  /\ IF req[r].auto
     THEN Release(r, c, tx, NoWrites)
     ELSE /\ conn' = [conn EXCEPT ![c] = [@ EXCEPT !.tx = tx, !.writes = NoWrites]]
          /\ Go(r, [req[r] EXCEPT !.at = "rollback", !.id = None, !.to = "unused"])
  /\ UNCHANGED <<rows, left, joined, promised>>
-----------------------------------------------------------------------------
(* Statements of the handlers.                                             *)

\* A find of either repository, or of another module.
Find(r) ==
  LET c == req[r].conn IN
  /\ Runs(r, "run")
  /\ IF req[r].auto
     THEN Release(r, c, conn[c].tx, conn[c].writes)
     ELSE /\ Go(r, [req[r] EXCEPT !.at = "commit"])
          /\ UNCHANGED conn
  /\ UNCHANGED <<rows, left, joined, promised>>

\* The map of a creator and an editor is there: its status is returned from inside the
\* try, and the transaction is neither committed nor rolled back.
FindByCreatorIdAndEditorId(r, i) ==
  LET c == req[r].conn IN
  /\ Runs(r, "run") /\ ~req[r].auto
  /\ i \in CreatorIds /\ Visible(c)[i] \in Statuses
  /\ Release(r, c, conn[c].tx, conn[c].writes)
  /\ left' = left \cup {c}
  /\ UNCHANGED <<rows, joined, promised>>

\* Mutant: no rollback if there is nothing to delete.
NotFound_Returns(r) ==
  LET c == req[r].conn IN
  /\ Runs(r, "run") /\ ~req[r].auto
  /\ Release(r, c, conn[c].tx, conn[c].writes)
  /\ UNCHANGED <<rows, left, joined, promised>>

\* The editor, the creator or the row to delete is not there.
NotFound(r) ==
  /\ Runs(r, "run") /\ ~req[r].auto
  /\ Go(r, [req[r] EXCEPT !.at = "rollback"])
  /\ UNCHANGED <<rows, conn, left, joined, promised>>

\* A new row; only its own transaction sees it.
Insert(r, i, status) ==
  LET c == req[r].conn
      writes == [conn[c].writes EXCEPT ![i] = status] IN
  /\ Runs(r, "run") /\ ~req[r].auto
  /\ rows[i] = "unused" /\ \A d \in Conns : conn[d].writes[i] = "same"
  /\ conn' = [conn EXCEPT ![c] = [@ EXCEPT !.writes = writes]]
  /\ Go(r, [req[r] EXCEPT !.at = "commit", !.id = i, !.to = status])
  /\ joined' = IF c \in left THEN joined \cup {i} ELSE joined
  /\ UNCHANGED <<rows, left, promised>>

RequestEditor(r, i) == i \in CreatorIds /\ Insert(r, i, "PENDING")
Save(r, i, status) == i \in CreatorIds /\ Insert(r, i, status)
AccountSave(r, i, status) == i \in AccountIds /\ Insert(r, i, status)

\* Mutant: the statement is not awaited, and the connection given back under it.
Ask_NoAwait(r, i, to) ==
  LET c == req[r].conn IN
  /\ Runs(r, "run")
  /\ conn' = [conn EXCEPT ![c] = [@ EXCEPT !.by = None]]
  /\ Go(r, [req[r] EXCEPT !.at = "write", !.id = i, !.to = to])
  /\ UNCHANGED <<rows, left, joined, promised>>

\* An update or a delete is sent to the server.
Ask(r, i, to) ==
  /\ Runs(r, "run")
  /\ Go(r, [req[r] EXCEPT !.at = "write", !.id = i, !.to = to])
  /\ UNCHANGED <<rows, conn, left, joined, promised>>

Update(r, i, status) == ~req[r].auto /\ i \in CreatorIds /\ Ask(r, i, status)
AccountUpdate(r, i, status) == ~req[r].auto /\ i \in AccountIds /\ Ask(r, i, status)

\* The row was found just before.
Found(r, i) == Runs(r, "run") /\ ~req[r].auto /\ Visible(req[r].conn)[i] \in Statuses
Delete(r, i) == Found(r, i) /\ i \in CreatorIds /\ Ask(r, i, "deleted")
AccountDelete(r, i) == Found(r, i) /\ i \in AccountIds /\ Ask(r, i, "deleted")

\* A statement of another module.
OtherWrite(r, i, to) == req[r].auto /\ i \in OtherIds /\ to # "unused" /\ Ask(r, i, to)

\* The server waits until no other transaction has the row locked.
Unlocked(r) ==
  /\ Runs(r, "write")
  /\ \A d \in Conns \ {req[r].conn} : conn[d].writes[req[r].id] = "same"

There(r) == Visible(req[r].conn)[req[r].id] \in Statuses

\* A row that is not there, or not any more, is not an error.
WriteNothing(r) ==
  LET c == req[r].conn IN
  /\ Unlocked(r) /\ ~There(r)
  /\ IF req[r].auto
     THEN Release(r, c, conn[c].tx, conn[c].writes)
     ELSE /\ Go(r, [req[r] EXCEPT !.at = "commit", !.id = None, !.to = "unused"])
          /\ UNCHANGED conn
  /\ UNCHANGED <<rows, left, joined, promised>>

\* Outside a transaction the statement commits by itself.
WriteAlone(r) ==
  /\ Unlocked(r) /\ There(r)
  /\ conn[req[r].conn].tx = "none"
  /\ rows' = [rows EXCEPT ![req[r].id] = req[r].to]
  /\ promised' = [promised EXCEPT ![req[r].id] = req[r].to]
  /\ Release(r, req[r].conn, "none", NoWrites)
  /\ UNCHANGED <<left, joined>>

\* In a transaction it stays uncommitted; a request that did not start the transaction
\* is answered all the same.
WriteInside(r) ==
  LET c == req[r].conn
      i == req[r].id
      writes == [conn[c].writes EXCEPT ![i] = req[r].to] IN
  /\ Unlocked(r) /\ There(r)
  /\ conn[c].tx = "open"
  /\ IF req[r].auto
     THEN /\ Release(r, c, "open", writes)
          /\ promised' = [promised EXCEPT ![i] = req[r].to]
     ELSE /\ conn' = [conn EXCEPT ![c] = [@ EXCEPT !.writes = writes]]
          /\ Go(r, [req[r] EXCEPT !.at = "commit"])
          /\ UNCHANGED promised
  /\ joined' = IF c \in left THEN joined \cup {i} ELSE joined
  /\ UNCHANGED <<rows, left>>

Write(r) == WriteNothing(r) \/ WriteAlone(r) \/ WriteInside(r)

\* The process dies: the server rolls its connections back.
Restart ==
  /\ conn' = [c \in Conns |-> Free]
  /\ req' = [r \in Requests |-> Idle]
  /\ left' = {}
  /\ UNCHANGED <<rows, joined, promised>>
-----------------------------------------------------------------------------
Proceed(r) ==
  \/ Find(r) \/ NotFound(r)
  \/ \E i \in Ids : FindByCreatorIdAndEditorId(r, i) \/ RequestEditor(r, i)
  \/ \E i \in Ids, status \in Statuses :
       Save(r, i, status) \/ AccountSave(r, i, status) \/ Update(r, i, status) \/ AccountUpdate(r, i, status)
  \/ \E i \in Ids : Delete(r, i) \/ AccountDelete(r, i)
  \/ \E i \in Ids, to \in Value : OtherWrite(r, i, to)

Next ==
  \/ \E r \in Requests, auto \in BOOLEAN : Call(r, auto)
  \/ \E r \in Requests, c \in Conns : Open(r, c) \/ StartTransactionThrows(r, c)
  \/ \E r \in Requests : Proceed(r) \/ Write(r) \/ Commit(r) \/ Rollback(r) \/ Fail(r)
  \/ Restart

Spec == Init /\ [][Next]_vars

\* The pool hands out its connections and the server its row locks in the order they
\* were asked for; the other steps of a request are answers of the server.  No statement
\* has to fail.
Fairness ==
  \A r \in Requests :
    /\ SF_vars(\E c \in Conns : Open(r, c))
    /\ SF_vars(Write(r))
    /\ WF_vars(Proceed(r) \/ Commit(r) \/ Rollback(r))

FairSpec == Spec /\ Fairness
-----------------------------------------------------------------------------
(***************************************************************************)
(* Types; a request and the connection it holds know of each other, and    *)
(* there is nothing uncommitted outside an open transaction.               *)
(***************************************************************************)
Paired(r, c) == (req[r].conn = c) <=> (conn[c].by = r)

TypeOK ==
  /\ rows \in [Ids -> Value]
  /\ conn \in [Conns -> Conn]
  /\ req \in [Requests -> Request]
  /\ left \subseteq Conns /\ joined \subseteq Ids
  /\ promised \in [Ids -> Value]
  /\ \A r \in Requests, c \in Conns : Paired(r, c)
  /\ \A r \in Requests : req[r].at \in {"idle", "connect"} <=> req[r].conn = None
  /\ \A c \in Conns : conn[c].tx # "open" => conn[c].writes = NoWrites

(***************************************************************************)
(* Of all ways through the handlers, errors included, only the early       *)
(* return of findByCreatorIdAndEditorId gives a connection back inside a   *)
(* transaction, and no other connection is ever lost to the pool.          *)
(***************************************************************************)
OnlyLookUpLeavesOpen ==
  \A c \in Conns :
    conn[c].by \notin Requests /\ (conn[c].tx # "none" \/ conn[c].by = "lost") => c \in left

(***************************************************************************)
(* What a request was told about a row, by a handler or by the single      *)
(* statement of another module, is what the table says, for every row that *)
(* was never written on a connection with a transaction left open.         *)
(***************************************************************************)
AcknowledgedWritesKept == \A i \in Ids : promised[i] # rows[i] => i \in joined

(***************************************************************************)
(* A request commits its own write and no other, unless it was given a     *)
(* connection whose transaction had been left open.                        *)
(***************************************************************************)
CommitsOwnWrites ==
  [][\A i \in Ids : rows'[i] # rows[i] =>
       \E r \in Requests : /\ req[r].conn # None
                           /\ req[r].id = i \/ req[r].conn \in left]_vars

(***************************************************************************)
(* Requests never all wait for each other, be it for connections, for row  *)
(* locks or for both, as long as no connection is left in a transaction.   *)
(***************************************************************************)
NotHeldUp(r) ==
  \/ req[r].at = "connect" /\ \E c \in Conns : conn[c].by = None
  \/ Runs(r, "run") \/ Unlocked(r)
  \/ req[r].at \in {"commit", "rollback"}

NotAllWait ==
  left = {} /\ (\E r \in Requests : req[r].at # "idle") => \E r \in Requests : NotHeldUp(r)

(***************************************************************************)
(* To the clients the tables are those of RowTable, whatever transactions, *)
(* failures and restarts there are: a row changes with the answer, alone,  *)
(* and a deleted row stays deleted.  Only the rows that were written on a  *)
(* connection left open are told about apart from their change.            *)
(***************************************************************************)
Table == INSTANCE RowTable WITH table <- rows

ImplementsTable == Table!Spec

(***************************************************************************)
(* Why: an uncommitted write is of the request that is about to commit it, *)
(* or is on a connection left open; a single statement is in a transaction *)
(* only there.                                                             *)
(***************************************************************************)
Accounted ==
  \A c \in Conns, i \in Ids :
    conn[c].writes[i] # "same" =>
      IF c \in left THEN i \in joined
      ELSE \E r \in Requests : req[r].conn = c /\ req[r].at = "commit" /\ req[r].id = i

OwnWrite ==
  \A r \in Requests :
    /\ req[r].at \in {"idle", "connect", "run"} => req[r].id = None
    /\ req[r].at = "write" => req[r].id # None
    /\ req[r].at = "commit" /\ req[r].id # None => conn[req[r].conn].writes[req[r].id] = req[r].to

InTransaction ==
  \A r \in Requests :
    /\ req[r].auto /\ req[r].conn \in Conns \ left => conn[req[r].conn].tx = "none"
    /\ ~req[r].auto /\ req[r].at \in {"run", "write"} => conn[req[r].conn].tx = "open"

\* Who has written a row has it locked, and found it in a state that may change.
Locked ==
  \A c \in Conns, i \in Ids :
    conn[c].writes[i] # "same" =>
      /\ \A d \in Conns \ {c} : conn[d].writes[i] = "same"
      /\ rows[i] # "deleted" /\ conn[c].writes[i] # "unused"
      /\ c \in left \/ conn[c].writes[i] # "deleted" \/ rows[i] \in Statuses

NothingUndone == \A r \in Requests : req[r].at = "write" => req[r].to # "unused"

IInv ==
  /\ TypeOK /\ OnlyLookUpLeavesOpen /\ AcknowledgedWritesKept
  /\ Accounted /\ OwnWrite /\ InTransaction

(***************************************************************************)
(* As long as no connection is left in a transaction every request ends:   *)
(* it gets a connection and whatever rows are locked are unlocked.         *)
(***************************************************************************)
RequestsEnd ==
  \A r \in Requests : req[r].at # "idle" ~> (req[r].at = "idle" \/ left # {})
=============================================================================
