------------------------------ MODULE RowTable ------------------------------
(***************************************************************************)
(* What a client of the map handlers relies on: a table whose rows change  *)
(* one at a time, together with the answer that says so.  A row comes, has *)
(* a status, changes it and is deleted; a deleted row does not come back.  *)
(*                                                                         *)
(* A row can join a transaction nobody answers for.  From then on it       *)
(* changes and is answered for at different times, if at all, and several  *)
(* such rows change at once.  It still does not come back.                 *)
(***************************************************************************)
CONSTANTS Ids, Statuses

VARIABLES
  table,       \* what is committed
  promised,    \* what the clients were last told
  joined       \* the rows in a transaction nobody answers for

vars == <<table, promised, joined>>

Content == Statuses \cup {"unused", "deleted"}

Init ==
  /\ table \in [Ids -> Content]
  /\ promised = table
  /\ joined = {}

\* A row there is changes or is deleted, and there can be one that was not.
Change(i, v) ==
  /\ i \notin joined
  /\ IF v = "deleted" THEN table[i] \in Statuses ELSE table[i] # "deleted" /\ v \in Statuses
  /\ table' = [table EXCEPT ![i] = v]
  /\ promised' = [promised EXCEPT ![i] = v]
  /\ UNCHANGED joined

Join(js) ==
  /\ joined' = joined \cup js
  /\ \A i \in Ids : promised'[i] # promised[i] => i \in joined'
  /\ \A i \in Ids : table'[i] # table[i] =>
       i \in joined' /\ table[i] # "deleted" /\ table'[i] # "unused"

Next == (\E i \in Ids, v \in Content : Change(i, v)) \/ (\E js \in SUBSET Ids : Join(js))

Spec == Init /\ [][Next]_vars
=============================================================================
