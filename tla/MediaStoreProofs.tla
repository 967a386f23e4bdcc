-------------------------- MODULE MediaStoreProofs --------------------------
(***************************************************************************)
(* Proofs of the safety properties of MediaStore for any number of media   *)
(* and requests and any pool.                                              *)
(*                                                                         *)
(* The invariant adds to the properties what they need of the requests in  *)
(* flight: the id of a save has no row yet and no deletion, what a         *)
(* deletion has found in the table it or another deletion takes out of it, *)
(* and between two awaits of a save the object is there.                   *)
(***************************************************************************)
EXTENDS MediaStore, TLAPS

Sets ==
  /\ req \in [Requests -> Request]
  /\ bucket \in BOOLEAN
  /\ taken \subseteq Media
  /\ rows \subseteq taken /\ objects \subseteq taken
  /\ saved \subseteq taken /\ deleted \subseteq taken
  /\ begun \subseteq taken /\ direct \subseteq taken
  /\ unsaved \subseteq taken /\ undeleted \subseteq taken

\* What is known of a request by itself.
Placed ==
  \A r \in Requests :
    /\ req[r].at \in Places(req[r].op)
    /\ req[r].op # "none" => req[r].id \in taken

SavesApart ==
  \A r, q \in Requests :
    req[r].op = "save" /\ req[q].op = "save" /\ req[r].id = req[q].id => q = r

\* Before its commit a save has no row, before its answer no answer, and no deletion
\* has seen what is not committed.
SavesNew ==
  \A r \in Requests :
    LET m == req[r].id IN
    req[r].op = "save" =>
      /\ m \notin saved
      /\ req[r].at # "answer" => m \notin rows /\ m \notin begun
      /\ req[r].at \in {"insert", "commit"} => m \in objects
      /\ req[r].at = "answer" => m \in begun \/ m \in rows \cap objects

\* A deletion past its lookup is noted as begun; past S3 the object is gone, unless it
\* was uploaded again, and after the commit the row.
DeletionsNoted ==
  \A r \in Requests :
    LET m == req[r].id IN
    req[r].op = "delete" =>
      /\ req[r].at \in {"remove", "write", "commit", "answer"} => m \in begun
      /\ req[r].at \in {"write", "commit", "answer"} => m \notin objects \/ m \in direct
      /\ req[r].at = "answer" => m \notin rows

\* Who has been saved or is being deleted is not being saved, and what a save has left
\* behind has neither row nor request.
Settled ==
  \A m \in Media :
    /\ m \in begun \cup saved =>
         \A r \in Requests : req[r].op = "save" /\ req[r].id = m => req[r].at = "answer"
    /\ m \in deleted \cup undeleted => m \in begun
    /\ m \in unsaved =>
         /\ m \notin rows \cup begun \cup saved
         /\ \A r \in Requests : req[r].op = "save" => req[r].id # m

IInv ==
  /\ Sets /\ Placed /\ SavesApart /\ SavesNew /\ DeletionsNoted /\ Settled
  /\ RowsHaveObjects /\ OrphansAccounted /\ AnswersAreFinal
-----------------------------------------------------------------------------
(* Steps that change neither rows nor objects.                             *)

LEMMA CallStep ==
  ASSUME IInv, NEW r \in Requests, NEW op \in {"find", "update", "delete"},
         NEW m \in Media, Call(r, op, m)
  PROVE  IInv'
<1>1. Sets' /\ Placed' /\ SavesApart'
  BY NothingElse, SMTT(20) DEF IInv, Sets, Placed, SavesApart, Places, Call, Go, GoTo,
     Idle, Request, history
<1>2. SavesNew' /\ DeletionsNoted' /\ Settled'
  BY NothingElse, SMTT(20) DEF IInv, Sets, Placed, SavesApart, SavesNew, DeletionsNoted,
     Settled, Places, Call, Go, GoTo, Idle, Request, history
<1>3. RowsHaveObjects' /\ OrphansAccounted' /\ AnswersAreFinal'
  BY NothingElse, SMTT(20) DEF IInv, Sets, Placed, SavesNew, DeletionsNoted, Settled,
     RowsHaveObjects, OrphansAccounted, AnswersAreFinal, Places, Between, Call, Go,
     GoTo, Idle, Request, history
<1> QED
  BY <1>1, <1>2, <1>3 DEF IInv

\* The id is new: there is nothing under it.
LEMMA CreateStep ==
  ASSUME IInv, NEW r \in Requests, NEW m \in Media, Create(r, m)
  PROVE  IInv'
<1>1. Sets' /\ Placed' /\ SavesApart'
  BY NothingElse, SMTT(20) DEF IInv, Sets, Placed, SavesApart, Places, Create, Go, GoTo,
     Idle, Request, history
<1>2. SavesNew' /\ DeletionsNoted' /\ Settled'
  BY NothingElse, SMTT(20) DEF IInv, Sets, Placed, SavesApart, SavesNew, DeletionsNoted,
     Settled, Places, Create, Go, GoTo, Idle, Request, history
<1>3. RowsHaveObjects' /\ OrphansAccounted' /\ AnswersAreFinal'
  BY NothingElse, SMTT(20) DEF IInv, Sets, Placed, SavesNew, DeletionsNoted, Settled,
     RowsHaveObjects, OrphansAccounted, AnswersAreFinal, Places, Between, Create, Go,
     GoTo, Idle, Request, history
<1> QED
  BY <1>1, <1>2, <1>3 DEF IInv

LEMMA UploadStep ==
  ASSUME IInv, NEW r \in Requests, NEW m \in Media, Upload(r, m)
  PROVE  IInv'
<1>1. Sets' /\ Placed' /\ SavesApart'
  BY NothingElse, SMTT(20) DEF IInv, Sets, Placed, SavesApart, Places, Upload, Go, GoTo,
     Idle, Request, history
<1>2. SavesNew' /\ DeletionsNoted' /\ Settled'
  BY NothingElse, SMTT(20) DEF IInv, Sets, Placed, SavesApart, SavesNew, DeletionsNoted,
     Settled, Places, Upload, Go, GoTo, Idle, Request, history
<1>3. RowsHaveObjects' /\ OrphansAccounted' /\ AnswersAreFinal'
  BY NothingElse, SMTT(20) DEF IInv, Sets, Placed, SavesNew, DeletionsNoted, Settled,
     RowsHaveObjects, OrphansAccounted, AnswersAreFinal, Places, Between, Upload, Go,
     GoTo, Idle, Request, history
<1> QED
  BY <1>1, <1>2, <1>3 DEF IInv

LEMMA ConnectStep ==
  ASSUME IInv, NEW r \in Requests, Connect(r)
  PROVE  IInv'
<1>1. Sets' /\ Placed' /\ SavesApart'
  BY NothingElse, SMTT(20) DEF IInv, Sets, Placed, SavesApart, Places, Connect,
     FirstAwait, Go, GoTo, Idle, Request, history
<1>2. SavesNew' /\ DeletionsNoted' /\ Settled'
  BY NothingElse, SMTT(20) DEF IInv, Sets, Placed, SavesApart, SavesNew, DeletionsNoted,
     Settled, Places, Connect, FirstAwait, Go, GoTo, Idle, Request, history
<1>3. RowsHaveObjects' /\ OrphansAccounted' /\ AnswersAreFinal'
  BY NothingElse, SMTT(20) DEF IInv, Sets, Placed, SavesNew, DeletionsNoted, Settled,
     RowsHaveObjects, OrphansAccounted, AnswersAreFinal, Places, Between, Connect,
     FirstAwait, Go, GoTo, Idle, Request, history
<1> QED
  BY <1>1, <1>2, <1>3 DEF IInv

LEMMA BucketExistsStep ==
  ASSUME IInv, NEW r \in Requests, BucketExists(r)
  PROVE  IInv'
<1>1. Sets' /\ Placed' /\ SavesApart'
  BY NothingElse, SMTT(20) DEF IInv, Sets, Placed, SavesApart, Places, BucketExists, Go,
     GoTo, Idle, Request, history
<1>2. SavesNew' /\ DeletionsNoted' /\ Settled'
  BY NothingElse, SMTT(20) DEF IInv, Sets, Placed, SavesApart, SavesNew, DeletionsNoted,
     Settled, Places, BucketExists, Go, GoTo, Idle, Request, history
<1>3. RowsHaveObjects' /\ OrphansAccounted' /\ AnswersAreFinal'
  BY NothingElse, SMTT(20) DEF IInv, Sets, Placed, SavesNew, DeletionsNoted, Settled,
     RowsHaveObjects, OrphansAccounted, AnswersAreFinal, Places, Between, BucketExists,
     Go, GoTo, Idle, Request, history
<1> QED
  BY <1>1, <1>2, <1>3 DEF IInv

LEMMA InsertStep ==
  ASSUME IInv, NEW r \in Requests, Insert(r)
  PROVE  IInv'
<1>1. Sets' /\ Placed' /\ SavesApart'
  BY NothingElse, SMTT(20) DEF IInv, Sets, Placed, SavesApart, Places, Insert, Go, GoTo,
     Idle, Request, history
<1>2. SavesNew' /\ DeletionsNoted' /\ Settled'
  BY NothingElse, SMTT(20) DEF IInv, Sets, Placed, SavesApart, SavesNew, DeletionsNoted,
     Settled, Places, Insert, Go, GoTo, Idle, Request, history
<1>3. RowsHaveObjects' /\ OrphansAccounted' /\ AnswersAreFinal'
  BY NothingElse, SMTT(20) DEF IInv, Sets, Placed, SavesNew, DeletionsNoted, Settled,
     RowsHaveObjects, OrphansAccounted, AnswersAreFinal, Places, Between, Insert, Go,
     GoTo, Idle, Request, history
<1> QED
  BY <1>1, <1>2, <1>3 DEF IInv

LEMMA WriteStep ==
  ASSUME IInv, NEW r \in Requests, Write(r)
  PROVE  IInv'
<1>1. Sets' /\ Placed' /\ SavesApart'
  BY NothingElse, SMTT(20) DEF IInv, Sets, Placed, SavesApart, Places, Write, Go, GoTo,
     Idle, Request, history
<1>2. SavesNew' /\ DeletionsNoted' /\ Settled'
  BY NothingElse, SMTT(20) DEF IInv, Sets, Placed, SavesApart, SavesNew, DeletionsNoted,
     Settled, Places, Write, Go, GoTo, Idle, Request, history
<1>3. RowsHaveObjects' /\ OrphansAccounted' /\ AnswersAreFinal'
  BY NothingElse, SMTT(20) DEF IInv, Sets, Placed, SavesNew, DeletionsNoted, Settled,
     RowsHaveObjects, OrphansAccounted, AnswersAreFinal, Places, Between, Write, Go,
     GoTo, Idle, Request, history
<1> QED
  BY <1>1, <1>2, <1>3 DEF IInv

\* The row a deletion finds is not one that is being saved.
LEMMA FindOneStep ==
  ASSUME IInv, NEW r \in Requests, FindOne(r)
  PROVE  IInv'
<1>1. Sets' /\ Placed' /\ SavesApart'
  BY NothingElse, SMTT(20) DEF IInv, Sets, Placed, SavesApart, Places, FindOne, Go,
     GoTo, Idle, Request, history
<1>2. SavesNew'
  BY NothingElse, SMTT(20) DEF IInv, Sets, Placed, SavesApart, SavesNew, DeletionsNoted,
     Settled, Places, FindOne, Go, GoTo, Idle, Request, history
<1>3. DeletionsNoted'
  BY NothingElse, SMTT(20) DEF IInv, Sets, Placed, SavesNew, DeletionsNoted, Settled,
     Places, FindOne, Go, GoTo, Idle, Request, history
<1>4. Settled'
  BY NothingElse, SMTT(20) DEF IInv, Sets, Placed, SavesApart, SavesNew, DeletionsNoted,
     Settled, Places, FindOne, Go, GoTo, Idle, Request, history
<1>5. RowsHaveObjects'
  BY NothingElse, SMTT(20) DEF IInv, Sets, Placed, SavesNew, RowsHaveObjects, Places,
     Between, FindOne, Go, GoTo, Idle, Request, history
<1>6. OrphansAccounted'
  BY NothingElse, SMTT(20) DEF IInv, Sets, Placed, DeletionsNoted, OrphansAccounted,
     Places, Between, FindOne, Go, GoTo, Idle, Request, history
<1>7. AnswersAreFinal'
  BY NothingElse, SMTT(20) DEF IInv, Sets, Placed, SavesNew, DeletionsNoted, Settled,
     OrphansAccounted, AnswersAreFinal, Places, Between, FindOne, Go, GoTo, Idle,
     Request, history
<1> QED
  BY <1>1, <1>2, <1>3, <1>4, <1>5, <1>6, <1>7 DEF IInv

LEMMA AnswerStep ==
  ASSUME IInv, NEW r \in Requests, Answer(r)
  PROVE  IInv'
<1>1. Sets' /\ Placed' /\ SavesApart'
  BY NothingElse, SMTT(20) DEF IInv, Sets, Placed, SavesApart, Places, Answer, Go, GoTo,
     Idle, Request, history
<1>2. SavesNew'
  BY NothingElse, SMTT(20) DEF IInv, Sets, Placed, SavesApart, SavesNew, DeletionsNoted,
     Settled, Places, Answer, Go, GoTo, Idle, Request, history
<1>3. DeletionsNoted'
  BY NothingElse, SMTT(20) DEF IInv, Sets, Placed, SavesNew, DeletionsNoted, Settled,
     Places, Answer, Go, GoTo, Idle, Request, history
<1>4. Settled'
  BY NothingElse, SMTT(20) DEF IInv, Sets, Placed, SavesApart, SavesNew, DeletionsNoted,
     Settled, Places, Answer, Go, GoTo, Idle, Request, history
<1>5. RowsHaveObjects'
  BY NothingElse, SMTT(20) DEF IInv, Sets, Placed, SavesNew, RowsHaveObjects, Places,
     Between, Answer, Go, GoTo, Idle, Request, history
<1>6. OrphansAccounted'
  BY NothingElse, SMTT(20) DEF IInv, Sets, Placed, DeletionsNoted, OrphansAccounted,
     Places, Between, Answer, Go, GoTo, Idle, Request, history
<1>7. AnswersAreFinal'
  BY NothingElse, SMTT(20) DEF IInv, Sets, Placed, SavesNew, DeletionsNoted, Settled,
     OrphansAccounted, AnswersAreFinal, Places, Between, Answer, Go, GoTo, Idle,
     Request, history
<1> QED
  BY <1>1, <1>2, <1>3, <1>4, <1>5, <1>6, <1>7 DEF IInv
-----------------------------------------------------------------------------
(* Steps that do.                                                          *)

\* The object of a save comes before its row, that of an upload is noted.
LEMMA PutObjectStep ==
  ASSUME IInv, NEW r \in Requests, PutObject(r)
  PROVE  IInv'
<1>1. Sets' /\ Placed' /\ SavesApart'
  BY NothingElse, SMTT(20) DEF IInv, Sets, Placed, SavesApart, Places, PutObject, Go,
     GoTo, Idle, Request, history
<1>2. SavesNew'
  BY NothingElse, SMTT(20) DEF IInv, Sets, Placed, SavesApart, SavesNew, DeletionsNoted,
     Settled, Places, PutObject, Go, GoTo, Idle, Request, history
<1>3. DeletionsNoted'
  BY NothingElse, SMTT(20) DEF IInv, Sets, Placed, SavesNew, DeletionsNoted, Settled,
     Places, PutObject, Go, GoTo, Idle, Request, history
<1>4. Settled'
  BY NothingElse, SMTT(20) DEF IInv, Sets, Placed, SavesApart, SavesNew, DeletionsNoted,
     Settled, Places, PutObject, Go, GoTo, Idle, Request, history
<1>5. RowsHaveObjects'
  BY NothingElse, SMTT(20) DEF IInv, Sets, Placed, SavesNew, RowsHaveObjects, Places,
     Between, PutObject, Go, GoTo, Idle, Request, history
<1>6. OrphansAccounted'
  BY NothingElse, SMTT(20) DEF IInv, Sets, Placed, DeletionsNoted, OrphansAccounted,
     Places, Between, PutObject, Go, GoTo, Idle, Request, history
<1>7. AnswersAreFinal'
  BY NothingElse, SMTT(20) DEF IInv, Sets, Placed, SavesNew, DeletionsNoted, Settled,
     OrphansAccounted, AnswersAreFinal, Places, Between, PutObject, Go, GoTo, Idle,
     Request, history
<1> QED
  BY <1>1, <1>2, <1>3, <1>4, <1>5, <1>6, <1>7 DEF IInv

\* No save under way counts on the object: its row has been seen.
LEMMA DeleteFileStep ==
  ASSUME IInv, NEW r \in Requests, DeleteFile(r)
  PROVE  IInv'
<1>1. Sets' /\ Placed' /\ SavesApart'
  BY NothingElse, SMTT(20) DEF IInv, Sets, Placed, SavesApart, Places, DeleteFile, Go,
     GoTo, Idle, Request, history
<1>2. SavesNew'
  BY NothingElse, SMTT(20) DEF IInv, Sets, Placed, SavesApart, SavesNew, DeletionsNoted,
     Settled, Places, DeleteFile, Go, GoTo, Idle, Request, history
<1>3. DeletionsNoted'
  BY NothingElse, SMTT(20) DEF IInv, Sets, Placed, SavesNew, DeletionsNoted, Settled,
     Places, DeleteFile, Go, GoTo, Idle, Request, history
<1>4. Settled'
  BY NothingElse, SMTT(20) DEF IInv, Sets, Placed, SavesApart, SavesNew, DeletionsNoted,
     Settled, Places, DeleteFile, Go, GoTo, Idle, Request, history
<1>5. RowsHaveObjects'
  BY NothingElse, SMTT(20) DEF IInv, Sets, Placed, SavesNew, RowsHaveObjects, Places,
     Between, DeleteFile, Go, GoTo, Idle, Request, history
<1>6. OrphansAccounted'
  BY NothingElse, SMTT(20) DEF IInv, Sets, Placed, DeletionsNoted, OrphansAccounted,
     Places, Between, DeleteFile, Go, GoTo, Idle, Request, history
<1>7. AnswersAreFinal'
  BY NothingElse, SMTT(20) DEF IInv, Sets, Placed, SavesNew, DeletionsNoted, Settled,
     OrphansAccounted, AnswersAreFinal, Places, Between, DeleteFile, Go, GoTo, Idle,
     Request, history
<1> QED
  BY <1>1, <1>2, <1>3, <1>4, <1>5, <1>6, <1>7 DEF IInv

\* The row comes to its object, or goes after it.
LEMMA CommitStep ==
  ASSUME IInv, NEW r \in Requests, Commit(r)
  PROVE  IInv'
<1>1. Sets' /\ Placed' /\ SavesApart'
  BY NothingElse, SMTT(20) DEF IInv, Sets, Placed, SavesApart, Places, Commit, Go, GoTo,
     Idle, Request, history
<1>2. SavesNew'
  BY NothingElse, SMTT(20) DEF IInv, Sets, Placed, SavesApart, SavesNew, DeletionsNoted,
     Settled, Places, Commit, Go, GoTo, Idle, Request, history
<1>3. DeletionsNoted'
  BY NothingElse, SMTT(20) DEF IInv, Sets, Placed, SavesNew, DeletionsNoted, Settled,
     Places, Commit, Go, GoTo, Idle, Request, history
<1>4. Settled'
  BY NothingElse, SMTT(20) DEF IInv, Sets, Placed, SavesApart, SavesNew, DeletionsNoted,
     Settled, Places, Commit, Go, GoTo, Idle, Request, history
<1>5. RowsHaveObjects'
  BY NothingElse, SMTT(20) DEF IInv, Sets, Placed, SavesNew, RowsHaveObjects, Places,
     Between, Commit, Go, GoTo, Idle, Request, history
<1>6. OrphansAccounted'
  BY NothingElse, SMTT(20) DEF IInv, Sets, Placed, DeletionsNoted, OrphansAccounted,
     Places, Between, Commit, Go, GoTo, Idle, Request, history
<1>7. AnswersAreFinal'
  BY NothingElse, SMTT(20) DEF IInv, Sets, Placed, SavesNew, DeletionsNoted, Settled,
     OrphansAccounted, AnswersAreFinal, Places, Between, Commit, Go, GoTo, Idle,
     Request, history
<1> QED
  BY <1>1, <1>2, <1>3, <1>4, <1>5, <1>6, <1>7 DEF IInv

\* What a failure leaves behind is noted as such.
LEMMA EndStep ==
  ASSUME IInv, NEW R \in SUBSET Requests, End(R)
  PROVE  IInv'
<1>1. Sets' /\ Placed' /\ SavesApart'
  BY NothingElse, SMTT(20) DEF IInv, Sets, Placed, SavesApart, Places, Between, End, Idle, Request
<1>2. SavesNew' /\ DeletionsNoted'
  BY NothingElse, SMTT(20) DEF IInv, Sets, Placed, SavesNew, DeletionsNoted, Places, End, Idle, Request
<1>3. Settled'
  BY NothingElse, SMTT(20) DEF IInv, Sets, Placed, SavesApart, SavesNew, DeletionsNoted, Settled,
     Places, Between, End, Idle, Request
<1>4. RowsHaveObjects' /\ OrphansAccounted'
  BY NothingElse, SMTT(20) DEF IInv, Sets, Placed, RowsHaveObjects, OrphansAccounted, Places, Between,
     End, Idle, Request
<1>5. AnswersAreFinal'
  BY DEF IInv, AnswersAreFinal, End
<1> QED
  BY <1>1, <1>2, <1>3, <1>4, <1>5 DEF IInv
-----------------------------------------------------------------------------
LEMMA InitInv == Init => IInv
<1> SUFFICES ASSUME Init PROVE IInv
  OBVIOUS
<1>1. Sets /\ Placed /\ SavesApart
  BY NothingElse, SMTT(20) DEF Init, Sets, Placed, SavesApart, Idle, Request, Places
<1>2. SavesNew /\ DeletionsNoted /\ Settled
  BY DEF Init, SavesNew, DeletionsNoted, Settled, Idle
<1>3. RowsHaveObjects /\ OrphansAccounted /\ AnswersAreFinal
  BY DEF Init, RowsHaveObjects, OrphansAccounted, AnswersAreFinal
<1> QED
  BY <1>1, <1>2, <1>3 DEF IInv

LEMMA NextInv == IInv /\ [Next]_vars => IInv'
<1> SUFFICES ASSUME IInv, [Next]_vars PROVE IInv'
  OBVIOUS
<1>1. ASSUME NEW r \in Requests, NEW m \in Media,
             \/ Create(r, m) \/ Upload(r, m)
             \/ \E op \in {"find", "update", "delete"} : Call(r, op, m)
      PROVE  IInv'
  BY <1>1, CallStep, CreateStep, UploadStep
<1>2. ASSUME NEW r \in Requests, Connect(r) \/ Step(r)
      PROVE  IInv'
  BY <1>2, ConnectStep, BucketExistsStep, PutObjectStep, DeleteFileStep, FindOneStep, InsertStep,
     WriteStep, CommitStep, AnswerStep DEF Step
<1>3. ASSUME NEW r \in Requests, RequestFails(r)
      PROVE  IInv'
  BY <1>3, EndStep DEF RequestFails
<1>4. CASE Restart
  BY <1>4, EndStep DEF Restart
<1>5. CASE CreateBucket
  BY <1>5 DEF CreateBucket, history, IInv, Sets, Placed, SavesApart, SavesNew, DeletionsNoted, Settled,
     RowsHaveObjects, OrphansAccounted, AnswersAreFinal, Between
<1>6. CASE UNCHANGED vars
  BY <1>6 DEF vars, history, IInv, Sets, Placed, SavesApart, SavesNew, DeletionsNoted, Settled,
     RowsHaveObjects, OrphansAccounted, AnswersAreFinal, Between
<1> QED
  BY <1>1, <1>2, <1>3, <1>4, <1>5, <1>6 DEF Next

\* Types; every request is on its way through its own handler, and no two save under one
\* id.
THEOREM MediaTypeCorrect == Spec => []TypeOK
<1>1. IInv => TypeOK
  BY SMTT(20) DEF IInv, Sets, Placed, SavesApart, TypeOK, Places
<1> QED
  BY <1>1, InitInv, NextInv, PTL DEF Spec

\* A row without its object is always explained by a deletion under way or cut short.
THEOREM RowsNameObjects == Spec => []RowsHaveObjects
<1>1. IInv => RowsHaveObjects
  BY DEF IInv
<1> QED
  BY <1>1, InitInv, NextInv, PTL DEF Spec

\* An object without a row is always explained by a save under way or cut short, or by an
\* upload under its name.
THEOREM OrphansExplained == Spec => []OrphansAccounted
<1>1. IInv => OrphansAccounted
  BY DEF IInv
<1> QED
  BY <1>1, InitInv, NextInv, PTL DEF Spec

\* An answered save holds until a deletion, an answered deletion for ever.
THEOREM AnswersKept == Spec => []AnswersAreFinal
<1>1. IInv => AnswersAreFinal
  BY DEF IInv
<1> QED
  BY <1>1, InitInv, NextInv, PTL DEF Spec
-----------------------------------------------------------------------------
(* Refinement: every step is a step of MediaLifecycle or a stutter.        *)

\* A deletion of m is or was past S3 and has not been committed.
Removed(m) == m \in undeleted \cup Between(Requests, "delete")

LEMMA RemovedAt ==
  ASSUME NEW m
  PROVE  Removed(m) <=> \/ m \in undeleted
                        \/ \E q \in Requests : /\ req[q].op = "delete" /\ req[q].id = m
                                              /\ req[q].at \in {"insert", "write", "commit"}
BY DEF Removed, Between

\* The stage of a medium depends on its row, and on what deletions did to it.
LEMMA StageKept ==
  ASSUME NEW m \in Media, m \in rows' <=> m \in rows,
         m \in rows => (Removed(m)' <=> Removed(m)),
         m \notin rows => (m \in begun' <=> m \in begun)
  PROVE  Stage(m)' = Stage(m)
BY DEF Stage, Removed

LEMMA Stutters ==
  ASSUME \A m \in Media : /\ m \in rows' <=> m \in rows
                          /\ m \in rows => (Removed(m)' <=> Removed(m))
                          /\ m \notin rows => (m \in begun' <=> m \in begun),
         objects' = objects
  PROVE  [Lifecycle!Next]_Lifecycle!vars
<1>1. \A m \in Media : Stage(m)' = Stage(m)
  BY StageKept
<1> QED
  BY <1>1 DEF Lifecycle!vars

\* A request begins, or ends where a deletion has not reached S3 or is done.
LEMMA BeginsOrEnds ==
  ASSUME IInv, NEW r \in Requests, NEW next, Go(r, next), undeleted' = undeleted,
         req[r].op # "delete" \/ req[r].at \notin {"insert", "write", "commit"},
         next.op # "delete" \/ next.at \notin {"insert", "write", "commit"}
  PROVE  \A m \in Media : Removed(m)' <=> Removed(m)
BY RemovedAt DEF IInv, Sets, Go, Removed, Between

LEMMA PutRefines ==
  ASSUME IInv, NEW r \in Requests, PutObject(r)
  PROVE  [Lifecycle!Next]_Lifecycle!vars
<1>1. req[r].id \in Media /\ req[r].op \in {"save", "upload"}
  BY DEF PutObject, IInv, Sets, Placed, Places, Request
<1>2. \A m \in Media : Removed(m)' <=> Removed(m)
  <2>1. PICK at : Go(r, [req[r] EXCEPT !.at = at]) /\ undeleted' = undeleted
    BY DEF PutObject, GoTo
  <2>2. req[r] \in Request
    BY DEF IInv, Sets
  <2> QED
    BY <1>1, <2>1, <2>2, BeginsOrEnds DEF Request
<1>3. \A m \in Media : Stage(m)' = Stage(m)
  BY <1>2, StageKept DEF PutObject
<1>4. Lifecycle!Put(req[r].id)
  BY <1>3 DEF Lifecycle!Put, PutObject
<1> QED
  BY <1>1, <1>4 DEF Lifecycle!Next

\* A deletion that asks S3 has found the row, though another may have dropped it since.
LEMMA RemoveRefines ==
  ASSUME IInv, NEW r \in Requests, DeleteFile(r)
  PROVE  [Lifecycle!Next]_Lifecycle!vars
<1> DEFINE m == req[r].id
<1>1. /\ req \in [Requests -> Request] /\ req[r].op = "delete"
      /\ m \in Media /\ m \in begun
  BY DEF DeleteFile, IInv, Sets, Placed, Places, Request, DeletionsNoted
<1>2. /\ req' = [req EXCEPT ![r] = [req[r] EXCEPT !.at = "write"]]
      /\ req[r].at = "remove"
      /\ UNCHANGED <<rows, begun, undeleted>>
      /\ objects' = objects \ {m}
  BY DEF DeleteFile, GoTo, Go, history
<1>3. Removed(m)'
  BY <1>1, <1>2 DEF Removed, Between, Request
<1>4. \A x \in Media \ {m} : Removed(x)' <=> Removed(x)
  BY <1>1, <1>2 DEF Removed, Between, Request
<1>5. /\ Stage(m) # "new"
      /\ Stage(m)' = IF Stage(m) = "kept" THEN "stripped" ELSE Stage(m)
  BY <1>1, <1>2, <1>3 DEF Stage, Removed
<1>6. \A x \in Media \ {m} : Stage(x)' = Stage(x)
  BY <1>2, <1>4, StageKept
<1>7. Lifecycle!Strip(m)
  BY <1>1, <1>2, <1>5, <1>6 DEF Lifecycle!Strip
<1> QED
  BY <1>1, <1>7 DEF Lifecycle!Next

\* The row of a save is new and its object there; that of a deletion has lost its object.
LEMMA CommitRefines ==
  ASSUME IInv, NEW r \in Requests, Commit(r)
  PROVE  [Lifecycle!Next]_Lifecycle!vars
<1> DEFINE m == req[r].id
<1>1. /\ req \in [Requests -> Request] /\ m \in Media
      /\ req[r].op \in {"find", "save", "update", "delete"}
  BY DEF Commit, IInv, Sets, Placed, Places, Request
<1>2. /\ req' = [req EXCEPT ![r] = [req[r] EXCEPT !.at = "answer"]]
      /\ req[r].at = "commit"
      /\ UNCHANGED <<begun, undeleted, objects>>
  BY DEF Commit, GoTo, Go, history
<1>3. \A x \in Media : x # m \/ req[r].op # "delete" => (Removed(x)' <=> Removed(x))
  BY <1>1, <1>2 DEF Removed, Between, Request
<1>4. CASE req[r].op = "save"
  <2>1. m \notin rows /\ m \notin begun /\ m \in objects
    BY <1>2, <1>4 DEF IInv, SavesNew
  <2>2. ~ Removed(m)
    BY <1>1, <2>1, RemovedAt DEF IInv, Settled, DeletionsNoted, Placed, Places
  <2>3. rows' = rows \cup {m}
    BY <1>4 DEF Commit
  <2>4. Stage(m) = "new" /\ Stage(m)' = "kept"
    BY <1>1, <1>2, <1>3, <1>4, <2>1, <2>2, <2>3 DEF Stage, Removed
  <2>5. \A x \in Media \ {m} : Stage(x)' = Stage(x)
    BY <1>2, <1>3, <2>3, StageKept
  <2>6. Lifecycle!Enter(m)
    BY <1>1, <1>2, <2>1, <2>4, <2>5 DEF Lifecycle!Enter
  <2> QED
    BY <1>1, <2>6 DEF Lifecycle!Next
<1>5. CASE req[r].op = "delete" /\ m \in rows
  <2>1. m \in begun /\ Removed(m)
    BY <1>1, <1>2, <1>5, RemovedAt DEF IInv, DeletionsNoted
  <2>2. rows' = rows \ {m}
    BY <1>5 DEF Commit
  <2>3. Stage(m) = "stripped" /\ Stage(m)' = "gone"
    BY <1>2, <1>5, <2>1, <2>2 DEF Stage, Removed
  <2>4. \A x \in Media \ {m} : Stage(x)' = Stage(x)
    BY <1>2, <1>3, <2>2, StageKept
  <2>5. Lifecycle!Drop(m)
    BY <1>1, <1>2, <2>3, <2>4 DEF Lifecycle!Drop
  <2> QED
    BY <1>1, <2>5 DEF Lifecycle!Next
<1>6. CASE req[r].op \in {"find", "update"} \/ (req[r].op = "delete" /\ m \notin rows)
  <2>1. rows' = rows
    BY <1>6 DEF Commit
  <2> QED
    BY <1>2, <1>3, <1>6, <2>1, Stutters
<1> QED
  BY <1>1, <1>4, <1>5, <1>6

\* What failed between object and row stays as it was.
LEMMA EndRefines ==
  ASSUME IInv, NEW R \in SUBSET Requests, End(R)
  PROVE  [Lifecycle!Next]_Lifecycle!vars
<1>1. \A m \in Media : Removed(m)' <=> Removed(m)
  BY DEF IInv, Sets, End, Removed, Between, Idle
<1> QED
  BY <1>1, Stutters DEF End

LEMMA FindRefines ==
  ASSUME IInv, NEW r \in Requests, FindOne(r)
  PROVE  [Lifecycle!Next]_Lifecycle!vars
<1>1. /\ req \in [Requests -> Request]
      /\ UNCHANGED <<rows, objects, undeleted>>
      /\ begun' \subseteq begun \cup rows /\ begun \subseteq begun'
  BY DEF FindOne, IInv, Sets
<1>2. \A m \in Media : Removed(m)' <=> Removed(m)
  BY <1>1, SMTT(20) DEF IInv, FindOne, Go, GoTo, Idle, Request, Placed, Places, Removed, Between
<1> QED
  BY <1>1, <1>2, Stutters

LEMMA OthersRefine ==
  ASSUME IInv, NEW r \in Requests,
         \/ \E m \in Media :
              \/ Create(r, m) \/ Upload(r, m)
              \/ \E op \in {"find", "update", "delete"} : Call(r, op, m)
         \/ Connect(r) \/ BucketExists(r) \/ Insert(r) \/ Write(r) \/ Answer(r)
  PROVE  [Lifecycle!Next]_Lifecycle!vars
<1>1. /\ req \in [Requests -> Request]
      /\ UNCHANGED <<rows, objects, undeleted, begun>>
  BY DEF IInv, Sets, Create, Upload, Call, Connect, BucketExists, Insert, Write, Answer, history
<1>2. CASE \E m \in Media :
              \/ Create(r, m) \/ Upload(r, m)
              \/ \E op \in {"find", "update", "delete"} : Call(r, op, m)
  <2>1. \A m \in Media : Removed(m)' <=> Removed(m)
    BY <1>1, <1>2, SMTT(20) DEF Create, Upload, Call, Go, Request, Removed, Between
  <2> QED
    BY <1>1, <2>1, Stutters
<1>3. CASE Connect(r) \/ BucketExists(r) \/ Insert(r) \/ Write(r) \/ Answer(r)
  <2>1. \A m \in Media : Removed(m)' <=> Removed(m)
    BY <1>1, <1>3, SMTT(20) DEF IInv, Connect, FirstAwait, BucketExists, Insert, Write, Answer,
       Go, GoTo, Idle, Request, Placed, Places, Removed, Between
  <2> QED
    BY <1>1, <2>1, Stutters
<1> QED
  BY <1>2, <1>3

LEMMA StepRefines == IInv /\ [Next]_vars => [Lifecycle!Next]_Lifecycle!vars
<1> SUFFICES ASSUME IInv, [Next]_vars PROVE [Lifecycle!Next]_Lifecycle!vars
  OBVIOUS
<1>1. ASSUME NEW r \in Requests, NEW m \in Media,
             \/ Create(r, m) \/ Upload(r, m)
             \/ \E op \in {"find", "update", "delete"} : Call(r, op, m)
      PROVE  [Lifecycle!Next]_Lifecycle!vars
  BY <1>1, OthersRefine
<1>2. ASSUME NEW r \in Requests, Connect(r) \/ Step(r)
      PROVE  [Lifecycle!Next]_Lifecycle!vars
  BY <1>2, OthersRefine, PutRefines, RemoveRefines, FindRefines, CommitRefines DEF Step
<1>3. ASSUME NEW r \in Requests, RequestFails(r)
      PROVE  [Lifecycle!Next]_Lifecycle!vars
  BY <1>3, EndRefines DEF RequestFails
<1>4. CASE Restart
  BY <1>4, EndRefines DEF Restart
<1>5. CASE CreateBucket \/ UNCHANGED vars
  <2>1. /\ UNCHANGED <<rows, objects, begun>>
        /\ \A m \in Media : Removed(m)' <=> Removed(m)
    BY <1>5 DEF CreateBucket, vars, history, Removed, Between
  <2> QED
    BY <2>1, Stutters
<1> QED
  BY <1>1, <1>2, <1>3, <1>4, <1>5 DEF Next

\* Row and object of a medium come and go in one order, whatever else runs or fails.
THEOREM MediaLifecycleImplemented == Spec => ImplementsLifecycle
<1>1. Init => Lifecycle!Init
  BY DEF Init, Lifecycle!Init, Stage
<1>2. Spec => Lifecycle!Init /\ [][Lifecycle!Next]_Lifecycle!vars
  BY <1>1, InitInv, NextInv, StepRefines, PTL DEF Spec
<1> QED
  BY <1>2 DEF ImplementsLifecycle, Lifecycle!Spec
=============================================================================
