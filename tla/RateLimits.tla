----------------------------- MODULE RateLimits -----------------------------
(***************************************************************************)
(* The in-memory rate limiters (rate-limiter-flexible).                    *)
(*                                                                         *)
(* A limiter counts the calls of a key in a window that begins with the    *)
(* first of them.  The call after the last point there is is refused and   *)
(* blocks the key; the calls after that are refused and change nothing.    *)
(* The counter is neither lowered nor reset by a success, and it is gone   *)
(* with the process.                                                       *)
(***************************************************************************)
EXTENDS Integers, Sequences

CONSTANTS
  Keys,           \* the limiters and what they count by: an address, a user, a token
  Points,         \* for each key, the calls in a window,
  Duration,       \* the length of a window
  BlockDuration,  \* and of a block
  MaxTime         \* bound of the model on the clock

\* The defaults block for longer than a window.  Blocks can be configured to be shorter:
\* then they end windows early.
ASSUME Limits ==
  /\ Points \in [Keys -> Nat \ {0}]
  /\ Duration \in [Keys -> Nat \ {0}]
  /\ BlockDuration \in [Keys -> Nat]
  /\ \A k \in Keys : Duration[k] <= BlockDuration[k]
ASSUME ClockBounded == MaxTime \in Nat

VARIABLES
  now,
  counters,  \* for each key what was counted, until when
  admitted   \* history: for each key the times of the calls admitted since the start

limiter == <<now, counters, admitted>>

Unused == [consumed |-> 0, expires |-> 0]

LimiterInit ==
  /\ now = 0
  /\ counters = [k \in Keys |-> Unused]
  /\ admitted = [k \in Keys |-> <<>>]

\* A counter that has expired is as good as none.
Consumed(k) == IF now < counters[k].expires THEN counters[k].consumed ELSE 0

\* Mutant: the last point admits two calls.
Admits_OffByOne(k) == Consumed(k) <= Points[k]

Admits(k) == Consumed(k) < Points[k]

\* The end of a window does not move while calls are counted in it.
Window(k) == IF Consumed(k) = 0 THEN now + Duration[k] ELSE counters[k].expires

Admit(k) ==
  /\ Admits(k)
  /\ counters' = [counters EXCEPT ![k] = [consumed |-> Consumed(k) + 1, expires |-> Window(k)]]
  /\ admitted' = [admitted EXCEPT ![k] = Append(@, now)]
  /\ UNCHANGED now

\* Mutant: every refused call blocks the key again.
Blocked_Again(k) == [consumed |-> Points[k] + 1, expires |-> now + BlockDuration[k]]

\* The first refused call blocks the key; how many follow makes no difference.
Blocked(k) ==
  IF Consumed(k) = Points[k]
  THEN [consumed |-> Points[k] + 1, expires |-> now + BlockDuration[k]]
  ELSE counters[k]

Refuse(k) ==
  /\ ~ Admits(k)
  /\ counters' = [counters EXCEPT ![k] = Blocked(k)]
  /\ UNCHANGED <<now, admitted>>

Forget ==
  /\ counters' = [k \in Keys |-> Unused]
  /\ admitted' = [k \in Keys |-> <<>>]
  /\ UNCHANGED now

Pass ==
  /\ now < MaxTime
  /\ now' = now + 1
  /\ UNCHANGED <<counters, admitted>>

LimiterNext == (\E k \in Keys : Admit(k) \/ Refuse(k)) \/ Forget \/ Pass
-----------------------------------------------------------------------------
LimiterTypeOK ==
  /\ now \in 0..MaxTime
  /\ counters \in [Keys -> [consumed: Nat, expires: Nat]]
  /\ \A k \in Keys : counters[k].consumed <= Points[k] + 1
  /\ admitted \in [Keys -> Seq(0..MaxTime)]

\* "3 attempts per 10 minutes" and the like.  Windows are not sliding: the last calls of
\* one and the first of the next can come together, but as many calls as twice
\* the points never fit in less time than a window, whatever was refused between.
BurstBounded ==
  \A k \in Keys :
    \A i \in 1..(Len(admitted[k]) - 2 * Points[k] + 1) :
      admitted[k][i + 2 * Points[k] - 1] - admitted[k][i] >= Duration[k]

\* A call is refused only if all points were used since a window and a block ago: who
\* goes on calling is not blocked for longer.
RefusedOnlyIfSpent ==
  \A k \in Keys :
    ~ Admits(k) =>
      LET spent == Len(admitted[k]) - Points[k] + 1 IN
      spent > 0 /\ now - admitted[k][spent] < Duration[k] + BlockDuration[k]
=============================================================================
