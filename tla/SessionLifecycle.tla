-------------------------- MODULE SessionLifecycle -------------------------
(***************************************************************************)
(* What the session component promises to its clients, without tokens,     *)
(* versions, statements or clocks: a session is opened once by one user,   *)
(* ends once and for all, and a refresh is taken up only while its session *)
(* is live.  One that was taken up in time may be answered after the end. *)
(***************************************************************************)
CONSTANTS Users, Sessions, Requests, None

VARIABLES
  life,    \* life[s]: the session's stage
  owner,   \* owner[s]: who opened it, None before
  serving  \* serving[r]: the session request r refreshes, or None

vars == <<life, owner, serving>>

TypeOK ==
  /\ life \in [Sessions -> {"absent", "live", "ended"}]
  /\ owner \in [Sessions -> Users \cup {None}]
  /\ serving \in [Requests -> Sessions \cup {None}]

Init ==
  /\ life = [s \in Sessions |-> "absent"]
  /\ owner = [s \in Sessions |-> None]
  /\ serving = [r \in Requests |-> None]

Open(s, u) ==
  /\ life[s] = "absent"
  /\ life' = [life EXCEPT ![s] = "live"]
  /\ owner' = [owner EXCEPT ![s] = u]
  /\ UNCHANGED serving

\* Logout, reuse and the timer end live sessions, one or many at once; the
\* refresh that asked for it, if any, is over.
End(S) ==
  /\ S # {}
  /\ \A s \in S : life[s] = "live"
  /\ life' = [s \in Sessions |-> IF s \in S THEN "ended" ELSE life[s]]
  /\ UNCHANGED <<owner, serving>>

TakeUp(r, s) ==
  /\ life[s] = "live"
  /\ serving[r] = None
  /\ serving' = [serving EXCEPT ![r] = s]
  /\ UNCHANGED <<life, owner>>

Finish(r) ==
  /\ serving[r] # None
  /\ serving' = [serving EXCEPT ![r] = None]
  /\ UNCHANGED <<life, owner>>

\* The process restarts: nothing is served any more.
Crash ==
  /\ serving' = [r \in Requests |-> None]
  /\ UNCHANGED <<life, owner>>

Next ==
  \/ \E s \in Sessions, u \in Users : Open(s, u)
  \/ \E S \in SUBSET Sessions : End(S)
  \/ \E r \in Requests, s \in Sessions : TakeUp(r, s)
  \/ \E r \in Requests : Finish(r)
  \/ Crash

Spec == Init /\ [][Next]_vars
=============================================================================
