--------------------------- MODULE MediaLifecycle ---------------------------
(***************************************************************************)
(* What the media component promises of a medium, without requests,        *)
(* connections, locks or failures: its row is made once and only when its  *)
(* object is there, it goes only after the object was removed, and it      *)
(* never comes back.  The object may be removed again later, and anybody   *)
(* may put one under its name at any time.                                 *)
(***************************************************************************)
CONSTANT Media

VARIABLES
  stage,   \* of the row: before, there, there without its object, after
  objects  \* the objects there are

vars == <<stage, objects>>

Init ==
  /\ stage = [m \in Media |-> "new"]
  /\ objects = {}

Put(m) ==
  /\ objects' = objects \cup {m}
  /\ UNCHANGED stage

Enter(m) ==
  /\ stage[m] = "new" /\ m \in objects
  /\ stage' = [stage EXCEPT ![m] = "kept"]
  /\ UNCHANGED objects

Strip(m) ==
  /\ stage[m] # "new"
  /\ stage' = [stage EXCEPT ![m] = IF @ = "kept" THEN "stripped" ELSE @]
  /\ objects' = objects \ {m}

Drop(m) ==
  /\ stage[m] = "stripped"
  /\ stage' = [stage EXCEPT ![m] = "gone"]
  /\ UNCHANGED objects

Next == \E m \in Media : Put(m) \/ Enter(m) \/ Strip(m) \/ Drop(m)

Spec == Init /\ [][Next]_vars
=============================================================================
