----------------------------- MODULE MediaStore -----------------------------
(***************************************************************************)
(* Media: a row in the database and an object in an S3 bucket.             *)
(*                                                                         *)
(* Every handler takes a connection of the pool and opens a transaction    *)
(* before it does anything else, calls to S3 included, and gives the       *)
(* connection back at its end.  A save stores the object and then inserts  *)
(* the row that names it; a deletion looks the row up, deletes the object  *)
(* and then the row.  The transaction covers the row alone: what S3 has    *)
(* done stays done when the rest fails.                                    *)
(*                                                                         *)
(* Besides, files can be uploaded under a name the caller chooses, which   *)
(* may be that of an object the table knows.                               *)
(***************************************************************************)
EXTENDS Naturals, FiniteSets

CONSTANTS
  Media,      \* ids of rows; the object of a row has the same id, made from a fresh uuid
  Requests,   \* handlers that can be in flight at once
  PoolSize,   \* connections there are
  None        \* no id

ASSUME NothingElse == None \notin Media
ASSUME PoolNotEmpty == PoolSize \in Nat \ {0}

VARIABLES
  rows,      \* committed rows of the table media
  objects,   \* objects in the bucket
  bucket,    \* whether the configured bucket exists
  req,       \* the requests in flight
  taken,     \* history: ids that were made up
  saved,     \* history: media whose save was answered
  begun,     \* history: media whose deletion got as far as S3
  deleted,   \* history: media whose deletion was answered
  direct,    \* history: names that were uploaded to directly
  unsaved,   \* history: saves that ended between object and row
  undeleted  \* history: deletions that ended between object and row

history == <<taken, saved, begun, deleted, direct, unsaved, undeleted>>
vars == <<rows, objects, bucket, req, history>>

\* What a request was called for, where it waits and which medium it is about.  A
\* statement of a transaction has been made when its request is at "commit".
Request == [op: {"none", "find", "save", "update", "delete", "upload"},
            at: {"idle", "connect", "look", "bucket", "put", "insert", "remove", "write",
                 "commit", "answer"},
            id: Media \cup {None}]

Idle == [op |-> "none", at |-> "idle", id |-> None]

Init ==
  /\ rows = {} /\ objects = {} /\ bucket \in BOOLEAN
  /\ req = [r \in Requests |-> Idle]
  /\ taken = {} /\ saved = {} /\ begun = {} /\ deleted = {}
  /\ direct = {} /\ unsaved = {} /\ undeleted = {}

Go(r, next) == req' = [req EXCEPT ![r] = next]
GoTo(r, at) == Go(r, [req[r] EXCEPT !.at = at])

\* A request has a connection from the start of its transaction to its end; an upload
\* needs none.
Connected(q) == q.op # "upload" /\ q.at \notin {"idle", "connect"}

\* An uncommitted UPDATE or DELETE of the row m, if there is one, keeps others from it.
Locked(m) ==
  m \in rows /\ \E q \in Requests :
    req[q].op \in {"update", "delete"} /\ req[q].at = "commit" /\ req[q].id = m
-----------------------------------------------------------------------------
(* Calls.                                                                  *)

Call(r, op, m) ==
  /\ req[r].at = "idle"
  /\ m \in taken
  /\ op \in {"find", "update", "delete"}
  /\ Go(r, [op |-> op, at |-> "connect", id |-> m])
  /\ UNCHANGED <<rows, objects, bucket, history>>

\* Mutant: names repeat.
Create_SameName(r, m) ==
  /\ req[r].at = "idle"
  /\ taken' = taken \cup {m}
  /\ Go(r, [op |-> "save", at |-> "connect", id |-> m])
  /\ UNCHANGED <<rows, objects, bucket, saved, begun, deleted, direct, unsaved, undeleted>>

\* The name of the object has a uuid in it, and so has its row.
Create(r, m) ==
  /\ req[r].at = "idle"
  /\ m \notin taken
  /\ taken' = taken \cup {m}
  /\ Go(r, [op |-> "save", at |-> "connect", id |-> m])
  /\ UNCHANGED <<rows, objects, bucket, saved, begun, deleted, direct, unsaved, undeleted>>

\* The name is one of the objects that are or were there; others concern no row.
Upload(r, m) ==
  /\ req[r].at = "idle"
  /\ m \in taken
  /\ Go(r, [op |-> "upload", at |-> "bucket", id |-> m])
  /\ UNCHANGED <<rows, objects, bucket, history>>

FirstAwait(op) ==
  CASE op = "save" -> "bucket" [] op = "update" -> "write" [] OTHER -> "look"

Connect(r) ==
  /\ req[r].at = "connect"
  /\ Cardinality({q \in Requests : Connected(req[q])}) < PoolSize
  /\ GoTo(r, FirstAwait(req[r].op))
  /\ UNCHANGED <<rows, objects, bucket, history>>
-----------------------------------------------------------------------------
(* S3.                                                                     *)

CreateBucket ==
  /\ ~ bucket
  /\ bucket' = TRUE
  /\ UNCHANGED <<rows, objects, req, history>>

\* An upload is refused if there is no bucket.
BucketExists(r) ==
  /\ req[r].at = "bucket"
  /\ IF bucket THEN GoTo(r, "put") ELSE Go(r, Idle)
  /\ UNCHANGED <<rows, objects, bucket, history>>

PutObject(r) ==
  /\ req[r].at = "put"
  /\ objects' = objects \cup {req[r].id}
  /\ IF req[r].op = "upload"
     THEN GoTo(r, "answer") /\ direct' = direct \cup {req[r].id}
     ELSE GoTo(r, "insert") /\ UNCHANGED direct
  /\ UNCHANGED <<rows, bucket, taken, saved, begun, deleted, unsaved, undeleted>>

\* Mutant: an error of S3 is logged and the deletion goes on.
DeleteFile_Swallowed(r) ==
  /\ req[r].at = "remove"
  /\ GoTo(r, "write")
  /\ UNCHANGED <<rows, objects, bucket, history>>

DeleteFile(r) ==
  /\ req[r].at = "remove"
  /\ objects' = objects \ {req[r].id}
  /\ GoTo(r, "write")
  /\ UNCHANGED <<rows, bucket, history>>
-----------------------------------------------------------------------------
(* The table.                                                              *)

\* Mutant: the row does not have the key of its object.
FindOne_NoKey(r) ==
  /\ req[r].at = "look"
  /\ IF req[r].op = "find"
     THEN GoTo(r, "commit") /\ UNCHANGED begun
     ELSE IF req[r].id \in rows
     THEN GoTo(r, "write") /\ begun' = begun \cup {req[r].id}
     ELSE Go(r, Idle) /\ UNCHANGED begun
  /\ UNCHANGED <<rows, objects, bucket, taken, saved, deleted, direct, unsaved, undeleted>>

\* A find is answered with what it has read, a deletion goes on to S3 with the key of
\* the row, or is refused if there is no row.
FindOne(r) ==
  /\ req[r].at = "look"
  /\ IF req[r].op = "find"
     THEN GoTo(r, "commit") /\ UNCHANGED begun
     ELSE IF req[r].id \in rows
     THEN GoTo(r, "remove") /\ begun' = begun \cup {req[r].id}
     ELSE Go(r, Idle) /\ UNCHANGED begun
  /\ UNCHANGED <<rows, objects, bucket, taken, saved, deleted, direct, unsaved, undeleted>>

\* Mutant: the answer does not wait for the commit.
Insert_NoCommit(r) ==
  /\ req[r].at = "insert"
  /\ GoTo(r, "answer")
  /\ UNCHANGED <<rows, objects, bucket, history>>

\* The row of a save is inserted with a new id and nobody sees it before the commit.
Insert(r) ==
  /\ req[r].at = "insert"
  /\ GoTo(r, "commit")
  /\ UNCHANGED <<rows, objects, bucket, history>>

\* Mutant: the statement takes a connection of its own.
Write_SecondConnection(r) ==
  /\ req[r].at = "write"
  /\ ~ Locked(req[r].id)
  /\ Cardinality({q \in Requests : Connected(req[q])}) < PoolSize
  /\ GoTo(r, "commit")
  /\ UNCHANGED <<rows, objects, bucket, history>>

\* UPDATE or DELETE waits for the row; without one it changes nothing.
Write(r) ==
  /\ req[r].at = "write"
  /\ ~ Locked(req[r].id)
  /\ GoTo(r, "commit")
  /\ UNCHANGED <<rows, objects, bucket, history>>

\* Mutant: only the object is deleted.
Commit_KeepsRow(r) ==
  /\ req[r].at = "commit"
  /\ rows' = IF req[r].op = "save" THEN rows \cup {req[r].id} ELSE rows
  /\ GoTo(r, "answer")
  /\ UNCHANGED <<objects, bucket, history>>

Commit(r) ==
  /\ req[r].at = "commit"
  /\ rows' = CASE req[r].op = "save" -> rows \cup {req[r].id}
               [] req[r].op = "delete" -> rows \ {req[r].id}
               [] OTHER -> rows
  /\ GoTo(r, "answer")
  /\ UNCHANGED <<objects, bucket, history>>

\* An update reads the row again, all release their connection.
Answer(r) ==
  /\ req[r].at = "answer"
  /\ saved' = IF req[r].op = "save" THEN saved \cup {req[r].id} ELSE saved
  /\ deleted' = IF req[r].op = "delete" THEN deleted \cup {req[r].id} ELSE deleted
  /\ Go(r, Idle)
  /\ UNCHANGED <<rows, objects, bucket, taken, begun, direct, unsaved, undeleted>>
-----------------------------------------------------------------------------
(* Failures.                                                               *)

\* The media of the requests of R that are between object and row.
Between(R, op) ==
  {req[r].id : r \in {q \in R : req[q].op = op /\ req[q].at \in {"insert", "write", "commit"}}}

\* The process of the requests of R ends, or an await of theirs throws: what the
\* transaction did is rolled back.
End(R) ==
  /\ req' = [r \in Requests |-> IF r \in R THEN Idle ELSE req[r]]
  /\ unsaved' = unsaved \cup Between(R, "save")
  /\ undeleted' = undeleted \cup Between(R, "delete")
  /\ UNCHANGED <<rows, objects, bucket, taken, saved, begun, deleted, direct>>

RequestFails(r) == req[r].at # "idle" /\ End({r})
Restart == End(Requests)
-----------------------------------------------------------------------------
Step(r) ==
  \/ BucketExists(r) \/ PutObject(r) \/ DeleteFile(r)
  \/ FindOne(r) \/ Insert(r) \/ Write(r) \/ Commit(r) \/ Answer(r)

Next ==
  \/ \E r \in Requests :
       \/ \E m \in Media :
            \/ Create(r, m) \/ Upload(r, m)
            \/ \E op \in {"find", "update", "delete"} : Call(r, op, m)
       \/ Connect(r) \/ Step(r)
       \/ RequestFails(r)
  \/ CreateBucket
  \/ Restart

Spec == Init /\ [][Next]_vars

\* An await ends at some time.  Connections and row locks are handed out in the order
\* they were asked for: who could have one again and again gets one.
FairSpec == Spec /\ \A r \in Requests : SF_vars(Connect(r) \/ Step(r))
-----------------------------------------------------------------------------
(* Correctness.                                                            *)

\* Where the requests of an operation can wait.
Places(op) ==
  CASE op = "find" -> {"connect", "look", "commit", "answer"}
    [] op = "save" -> {"connect", "bucket", "put", "insert", "commit", "answer"}
    [] op = "update" -> {"connect", "write", "commit", "answer"}
    [] op = "delete" -> {"connect", "look", "remove", "write", "commit", "answer"}
    [] op = "upload" -> {"bucket", "put", "answer"}
    [] OTHER -> {"idle"}

\* Types; every request is on its way through its own handler, about an id that was made
\* up, and no two requests save under one id.
TypeOK ==
  /\ req \in [Requests -> Request]
  /\ bucket \in BOOLEAN
  /\ taken \subseteq Media
  /\ rows \subseteq taken /\ objects \subseteq taken
  /\ saved \subseteq taken /\ deleted \subseteq taken
  /\ begun \subseteq taken /\ direct \subseteq taken
  /\ unsaved \subseteq taken /\ undeleted \subseteq taken
  /\ \A r \in Requests :
       /\ req[r].at \in Places(req[r].op)
       /\ req[r].op # "none" => req[r].id \in taken
       /\ \A q \in Requests : req[r].op = "save" /\ req[q] = req[r] => q = r

\* Object and row are removed one after the other and only the row is rolled back: a row
\* names an object that is not there only while a deletion of it is under way or if one
\* was cut short.
RowsHaveObjects ==
  \A m \in rows \ objects : m \in undeleted \cup Between(Requests, "delete")

\* An object no row names is on its way to its row, or was left by a save that was cut
\* short or by an upload under that name.
OrphansAccounted ==
  \A m \in objects \ rows : m \in unsaved \cup Between(Requests, "save") \cup direct

\* An answer is final: a saved medium has row and object until a deletion of it gets to
\* S3, and a deleted one never comes back, unless somebody uploads under its name.
AnswersAreFinal ==
  \A m \in Media :
    /\ m \in saved \ begun => m \in rows \cap objects
    /\ m \in deleted => m \notin rows /\ (m \in objects => m \in direct)

\* Connections are held across calls to S3 and row locks, and still no request waits
\* for ever, for either of them.
RequestsEnd == \A r \in Requests : req[r].at # "idle" ~> req[r].at = "idle"

\* How far the row of a medium has come; its object was removed by a deletion that is
\* past S3, or that was.
Stage(m) ==
  CASE m \in rows /\ m \in undeleted \cup Between(Requests, "delete") -> "stripped"
    [] m \in rows /\ m \notin undeleted \cup Between(Requests, "delete") -> "kept"
    [] m \notin rows /\ m \in begun -> "gone"
    [] OTHER -> "new"

\* The component implements MediaLifecycle: whatever saves, deletions, uploads and failures
\* run at once, row and object of a medium come and go in one order, and the object
\* comes first and goes first.
Lifecycle == INSTANCE MediaLifecycle WITH stage <- [m \in Media |-> Stage(m)]

\* The statement of the refinement for TLC and for the proof.
ImplementsLifecycle == Lifecycle!Spec
=============================================================================
