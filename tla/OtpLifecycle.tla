---------------------------- MODULE OtpLifecycle ----------------------------
(***************************************************************************)
(* What a row of the table otps promises, without messages, codes and      *)
(* addresses: it is opened once and until a time that does not change;     *)
(* whoever is confirmed by it came before that time and before the first   *)
(* it confirmed, and is confirmed once.  Clients that came in time may be  *)
(* confirmed at any later time, together or not, or never.                 *)
(***************************************************************************)
EXTENDS Integers

CONSTANTS Otps, Clients, None

VARIABLES
  now,
  stage,    \* of a row: before, open for clients, after its first confirmation
  until,    \* when its time is over
  claims    \* for each client the row it came for, or None

vars == <<now, stage, until, claims>>

Init ==
  /\ now = 0
  /\ stage = [o \in Otps |-> "new"]
  /\ until = [o \in Otps |-> 0]
  /\ claims = [c \in Clients |-> None]

Open(o) ==
  /\ stage[o] = "new"
  /\ stage' = [stage EXCEPT ![o] = "open"]
  /\ until' = [until EXCEPT ![o] = until'[o]]
  /\ UNCHANGED <<now, claims>>

Claim(c, o) ==
  /\ claims[c] = None /\ stage[o] = "open" /\ now < until[o]
  /\ claims' = [claims EXCEPT ![c] = o]
  /\ UNCHANGED <<now, stage, until>>

Confirm(c) ==
  /\ claims[c] # None
  /\ stage' = [stage EXCEPT ![claims[c]] = "used"]
  /\ claims' = [claims EXCEPT ![c] = None]
  /\ UNCHANGED <<now, until>>

\* Any of them at once.
Leave ==
  /\ UNCHANGED <<now, stage, until>>
  /\ claims' = [c \in Clients |-> IF claims'[c] = None THEN None ELSE claims[c]]

Tick ==
  /\ now' = now + 1
  /\ UNCHANGED <<stage, until, claims>>

Next ==
  \/ Leave
  \/ Tick
  \/ \E o \in Otps : Open(o)
  \/ \E c \in Clients : Confirm(c) \/ \E o \in Otps : Claim(c, o)

Spec == Init /\ [][Next]_vars
=============================================================================
