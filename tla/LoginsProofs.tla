---------------------------- MODULE LoginsProofs ----------------------------
(***************************************************************************)
(* Proofs of the properties of the rate limiters and of Logins for any     *)
(* limits, number of calls and requests, clock and channels.               *)
(*                                                                         *)
(* What the limiters promise follows from where the current window of a    *)
(* key begins: the counter says how many of the admitted calls are in it,  *)
(* its end is that of the window or, when the key is blocked, of the       *)
(* block, and as many calls before it as there are points is a window ago. *)
(* It is stated and shown to be kept for the first n calls a[1..n], the    *)
(* counter x and its end e; P, D and B are the points, the duration and    *)
(* the block duration, t is the time.                                      *)
(***************************************************************************)
EXTENDS Logins, SequenceTheorems, TLAPS

InOrder(a, n, t) ==
  \A i, j \in 1..n : i <= j => a[i] <= a[j] /\ a[j] <= t

\* The calls of the current window, or of the one that ended last.
Used(x, P) == IF x <= P THEN x ELSE P

\* The f-th call opened the window.
Opened(a, f, x, e, P, D, B) ==
  /\ x <= P => e = a[f] + D
  /\ x > P => a[f] + D <= e /\ e < a[f] + D + B
  /\ f > P => a[f - P] + D <= a[f]

InWindow(a, n, x, e, P, D, B) ==
  /\ x = 0 => n = 0
  /\ Used(x, P) <= n
  /\ x > 0 => Opened(a, n - Used(x, P) + 1, x, e, P, D, B)

Bursts(a, n, P, D) ==
  \A i \in 1..(n - 2 * P + 1) : a[i + 2 * P - 1] - a[i] >= D

Limited(a, n, x, e, P, D, B, t) ==
  InOrder(a, n, t) /\ InWindow(a, n, x, e, P, D, B) /\ Bursts(a, n, P, D)

LimiterInv ==
  /\ LimiterTypeOK
  /\ \A k \in Keys :
       Limited(admitted[k], Len(admitted[k]), counters[k].consumed, counters[k].expires,
               Points[k], Duration[k], BlockDuration[k], now)
-----------------------------------------------------------------------------
(* One limiter.                                                            *)

\* A call after the end of the window opens the next.
LEMMA Opens ==
  ASSUME NEW n \in Nat, NEW t \in Nat, NEW x \in Nat, NEW e \in Nat,
         NEW P \in Nat \ {0}, NEW D \in Nat \ {0}, NEW B \in Nat,
         NEW a, NEW b, \A i \in 1..n : a[i] \in Nat /\ b[i] = a[i], b[n + 1] = t,
         Limited(a, n, x, e, P, D, B, t), x = 0 \/ e <= t
  PROVE  Limited(b, n + 1, 1, t + D, P, D, B, t)
<1>1. InOrder(b, n + 1, t)
  BY SMT DEF Limited, InOrder
<1>2. n + 1 > P => n + 1 - P \in 1..n /\ a[n + 1 - P] + D <= t
  <2>1. CASE x = 0
    BY <2>1, SMT DEF Limited, InWindow
  <2>2. CASE x > 0
    <3>1. PICK f \in 1..n : f = n - Used(x, P) + 1 /\ f >= n + 1 - P
      BY <2>2, SMT DEF Limited, InWindow, Used
    <3>2. a[f] + D <= e
      BY <2>2, <3>1, SMT DEF Limited, InWindow, Opened
    <3>3. n + 1 > P => n + 1 - P \in 1..n /\ a[n + 1 - P] <= a[f]
      BY <3>1, SMT DEF Limited, InOrder
    <3> QED
      BY <2>2, <3>1, <3>2, <3>3, SMT
  <2> QED
    BY <2>1, <2>2, SMT
<1>3. InWindow(b, n + 1, 1, t + D, P, D, B)
  BY <1>2, SMT DEF InWindow, Opened, Used
<1>4. \A i \in 1..(n + 1 - 2 * P + 1) : b[i + 2 * P - 1] - b[i] >= D
  <2> SUFFICES ASSUME NEW i \in 1..(n + 1 - 2 * P + 1)
               PROVE  b[i + 2 * P - 1] - b[i] >= D
    OBVIOUS
  <2>1. CASE i = n + 1 - 2 * P + 1
    <3>1. n + 1 - P \in 1..n /\ i \in 1..n /\ i <= n + 1 - P /\ i + 2 * P - 1 = n + 1
      BY <2>1, SMT
    <3>2. a[i] <= a[n + 1 - P] /\ a[n + 1 - P] + D <= t
      BY <1>2, <3>1, SMT DEF Limited, InOrder
    <3> QED
      BY <3>1, <3>2, SMT
  <2>2. CASE i # n + 1 - 2 * P + 1
    BY <2>2, SMT DEF Limited, Bursts
  <2> QED
    BY <2>1, <2>2
<1> QED
  BY <1>1, <1>3, <1>4 DEF Limited, Bursts

\* A call in the window leaves its end.
LEMMA Counts ==
  ASSUME NEW n \in Nat, NEW t \in Nat, NEW x \in Nat, NEW e \in Nat,
         NEW P \in Nat \ {0}, NEW D \in Nat \ {0}, NEW B \in Nat,
         NEW a, NEW b, \A i \in 1..n : a[i] \in Nat /\ b[i] = a[i], b[n + 1] = t,
         Limited(a, n, x, e, P, D, B, t), 0 < x, x < P
  PROVE  Limited(b, n + 1, x + 1, e, P, D, B, t)
<1>1. InOrder(b, n + 1, t)
  BY SMT DEF Limited, InOrder
<1>2. PICK f \in 1..n : f = n - x + 1
  BY SMT DEF Limited, InWindow, Used
<1>3. e = a[f] + D /\ (f > P => f - P \in 1..n /\ a[f - P] + D <= a[f])
  BY <1>2, SMT DEF Limited, InWindow, Opened, Used
<1>4. InWindow(b, n + 1, x + 1, e, P, D, B)
  BY <1>2, <1>3, SMT DEF InWindow, Opened, Used
<1>5. \A i \in 1..(n + 1 - 2 * P + 1) : b[i + 2 * P - 1] - b[i] >= D
  <2> SUFFICES ASSUME NEW i \in 1..(n + 1 - 2 * P + 1)
               PROVE  b[i + 2 * P - 1] - b[i] >= D
    OBVIOUS
  <2>1. CASE i = n + 1 - 2 * P + 1
    <3>1. f > P /\ i \in 1..n /\ i <= f - P /\ i + 2 * P - 1 = n + 1
      BY <1>2, <2>1, SMT
    <3>2. a[i] <= a[f - P] /\ a[f] <= t
      BY <1>2, <1>3, <3>1, SMT DEF Limited, InOrder
    <3> QED
      BY <1>2, <1>3, <3>1, <3>2, SMT
  <2>2. CASE i # n + 1 - 2 * P + 1
    BY <2>2, SMT DEF Limited, Bursts
  <2> QED
    BY <2>1, <2>2
<1> QED
  BY <1>1, <1>4, <1>5 DEF Limited, Bursts

\* The first refused call blocks the key.
LEMMA Blocks ==
  ASSUME NEW n \in Nat, NEW t \in Nat, NEW e \in Nat,
         NEW P \in Nat \ {0}, NEW D \in Nat \ {0}, NEW B \in Nat, D <= B,
         NEW a, \A i \in 1..n : a[i] \in Nat,
         Limited(a, n, P, e, P, D, B, t), t < e
  PROVE  Limited(a, n, P + 1, t + B, P, D, B, t)
<1>1. PICK f \in 1..n : f = n - P + 1
  BY SMT DEF Limited, InWindow, Used
<1>2. e = a[f] + D /\ (f > P => a[f - P] + D <= a[f]) /\ a[f] <= t
  BY <1>1, SMT DEF Limited, InWindow, Opened, Used, InOrder
<1>3. InWindow(a, n, P + 1, t + B, P, D, B)
  BY <1>1, <1>2, SMT DEF InWindow, Opened, Used
<1> QED
  BY <1>3 DEF Limited

\* A call is refused only in the window, or the block, of as many calls as there are
\* points.
LEMMA Refused ==
  ASSUME NEW n \in Nat, NEW t \in Nat, NEW x \in Nat, NEW e \in Nat,
         NEW P \in Nat \ {0}, NEW D \in Nat \ {0}, NEW B \in Nat,
         NEW a, \A i \in 1..n : a[i] \in Nat,
         Limited(a, n, x, e, P, D, B, t), P <= x, t < e
  PROVE  n - P + 1 > 0 /\ t - a[n - P + 1] < D + B
<1>1. PICK f \in 1..n : f = n - P + 1
  BY SMT DEF Limited, InWindow, Used
<1>2. e <= a[f] + D + B
  BY <1>1, SMT DEF Limited, InWindow, Opened, Used
<1> QED
  BY <1>1, <1>2, SMT
-----------------------------------------------------------------------------
(* All of them.                                                            *)

Kept(k) ==
  Limited(admitted[k], Len(admitted[k]), counters[k].consumed, counters[k].expires,
          Points[k], Duration[k], BlockDuration[k], now)

\* What the types say about one key.
LEMMA KeyTypes ==
  ASSUME LimiterTypeOK, NEW k \in Keys
  PROVE  /\ now \in Nat /\ now \in 0..MaxTime /\ Points[k] \in Nat \ {0}
         /\ Duration[k] \in Nat \ {0} /\ BlockDuration[k] \in Nat
         /\ Duration[k] <= BlockDuration[k]
         /\ counters[k].consumed \in Nat /\ counters[k].expires \in Nat
         /\ counters[k].consumed <= Points[k] + 1
         /\ admitted[k] \in Seq(0..MaxTime) /\ Len(admitted[k]) \in Nat
         /\ \A i \in 1..Len(admitted[k]) : admitted[k][i] \in Nat
<1>1. admitted[k] \in Seq(0..MaxTime)
  BY DEF LimiterTypeOK
<1>2. \A i \in 1..Len(admitted[k]) : admitted[k][i] \in 0..MaxTime
  BY <1>1, ElementOfSeq, Zenon
<1>3. Len(admitted[k]) \in Nat
  BY <1>1, LenProperties, Zenon
<1> QED
  BY <1>1, <1>2, <1>3, Limits, ClockBounded DEF LimiterTypeOK

\* What a step does to the keys it does not name.
LEMMA Others ==
  ASSUME LimiterInv, NEW k \in Keys, now' = now,
         admitted'[k] = admitted[k], counters'[k] = counters[k]
  PROVE  Kept(k)'
BY DEF LimiterInv, Kept

LEMMA AdmitStep ==
  ASSUME LimiterInv, NEW k \in Keys, Admit(k)
  PROVE  LimiterInv'
<1>1. LimiterTypeOK
  BY DEF LimiterInv
<1>2. /\ now' = now
      /\ Consumed(k) \in Nat /\ Consumed(k) < Points[k] /\ Window(k) \in Nat
  BY <1>1, KeyTypes DEF Admit, Admits, Consumed, Window
<1>3. /\ admitted' = [admitted EXCEPT ![k] = Append(admitted[k], now)]
      /\ counters' = [counters EXCEPT ![k] = [consumed |-> Consumed(k) + 1,
                                              expires |-> Window(k)]]
  BY DEF Admit
<1>4. Append(admitted[k], now) \in Seq(0..MaxTime)
  BY <1>1, KeyTypes
<1>5. LimiterTypeOK'
  BY <1>1, <1>2, <1>3, <1>4, KeyTypes DEF LimiterTypeOK
<1>6. /\ admitted'[k] = Append(admitted[k], now)
      /\ counters'[k].consumed = Consumed(k) + 1 /\ counters'[k].expires = Window(k)
  BY <1>1, <1>3 DEF LimiterTypeOK
<1>7. /\ Len(Append(admitted[k], now)) = Len(admitted[k]) + 1
      /\ Append(admitted[k], now)[Len(admitted[k]) + 1] = now
      /\ \A i \in 1..Len(admitted[k]) : Append(admitted[k], now)[i] = admitted[k][i]
  BY <1>1, KeyTypes
<1>8. Limited(admitted[k], Len(admitted[k]), counters[k].consumed, counters[k].expires,
              Points[k], Duration[k], BlockDuration[k], now)
  BY DEF LimiterInv
<1>9. Limited(Append(admitted[k], now), Len(admitted[k]) + 1, Consumed(k) + 1, Window(k),
              Points[k], Duration[k], BlockDuration[k], now)
  <2>1. CASE Consumed(k) = 0
    <3>1. (counters[k].consumed = 0 \/ counters[k].expires <= now)
          /\ Window(k) = now + Duration[k]
      BY <1>1, <2>1, KeyTypes DEF Consumed, Window
    <3>2. Limited(Append(admitted[k], now), Len(admitted[k]) + 1, 1, now + Duration[k],
                  Points[k], Duration[k], BlockDuration[k], now)
      BY <1>1, <1>7, <1>8, <3>1, KeyTypes, Opens
    <3> QED
      BY <2>1, <3>1, <3>2
  <2>2. CASE Consumed(k) # 0
    <3>1. /\ counters[k].consumed = Consumed(k) /\ counters[k].expires = Window(k)
          /\ 0 < counters[k].consumed /\ counters[k].consumed < Points[k]
      BY <1>1, <1>2, <2>2, KeyTypes DEF Consumed, Window
    <3>2. Limited(Append(admitted[k], now), Len(admitted[k]) + 1, counters[k].consumed + 1,
                  counters[k].expires, Points[k], Duration[k], BlockDuration[k], now)
      BY <1>1, <1>7, <1>8, <3>1, KeyTypes, Counts
    <3> QED
      BY <3>1, <3>2
  <2> QED
    BY <2>1, <2>2
<1>10. Kept(k)'
  BY <1>2, <1>6, <1>7, <1>9 DEF Kept
<1>11. ASSUME NEW q \in Keys, q # k PROVE Kept(q)'
  BY <1>1, <1>2, <1>3, <1>11, Others DEF LimiterTypeOK
<1> QED
  BY <1>5, <1>10, <1>11 DEF LimiterInv, Kept

LEMMA RefuseStep ==
  ASSUME LimiterInv, NEW k \in Keys, Refuse(k)
  PROVE  LimiterInv'
<1>1. LimiterTypeOK
  BY DEF LimiterInv
<1>2. now' = now /\ admitted' = admitted
      /\ counters' = [counters EXCEPT ![k] = Blocked(k)]
  BY DEF Refuse
<1>3. now < counters[k].expires /\ counters[k].consumed \in Points[k]..(Points[k] + 1)
      /\ Consumed(k) = counters[k].consumed
  BY <1>1, KeyTypes DEF Refuse, Admits, Consumed
<1>4. Blocked(k) \in [consumed: 0..(Points[k] + 1), expires: Nat]
  BY <1>1, <1>3, KeyTypes DEF Blocked, LimiterTypeOK
<1>5. LimiterTypeOK'
  BY <1>1, <1>2, <1>4, KeyTypes DEF LimiterTypeOK
<1>6. Limited(admitted[k], Len(admitted[k]), counters[k].consumed, counters[k].expires,
              Points[k], Duration[k], BlockDuration[k], now)
  BY DEF LimiterInv
<1>7. counters'[k] = Blocked(k) /\ admitted'[k] = admitted[k]
  BY <1>1, <1>2 DEF LimiterTypeOK
<1>8. Kept(k)'
  <2>1. CASE counters[k].consumed = Points[k]
    <3>1. Blocked(k).consumed = Points[k] + 1
          /\ Blocked(k).expires = now + BlockDuration[k]
      BY <1>3, <2>1 DEF Blocked
    <3>2. Limited(admitted[k], Len(admitted[k]), Points[k] + 1, now + BlockDuration[k],
                  Points[k], Duration[k], BlockDuration[k], now)
      BY <1>1, <1>3, <1>6, <2>1, KeyTypes, Blocks
    <3> QED
      BY <1>2, <1>7, <3>1, <3>2 DEF Kept
  <2>2. CASE counters[k].consumed # Points[k]
    BY <1>2, <1>3, <1>7, <2>2, Others DEF Blocked
  <2> QED
    BY <2>1, <2>2
<1>9. ASSUME NEW q \in Keys, q # k PROVE Kept(q)'
  BY <1>1, <1>2, <1>9, Others DEF LimiterTypeOK
<1> QED
  BY <1>5, <1>8, <1>9 DEF LimiterInv, Kept

\* Before the first call there is nothing to keep.
LEMMA NoCalls ==
  ASSUME NEW P \in Nat \ {0}, NEW D, NEW B, NEW t, NEW a
  PROVE  Limited(a, 0, 0, 0, P, D, B, t)
BY SMT DEF Limited, InOrder, InWindow, Used, Bursts

LEMMA ForgetStep ==
  ASSUME LimiterInv, Forget
  PROVE  LimiterInv'
<1>1. LimiterTypeOK'
  BY Limits DEF LimiterInv, LimiterTypeOK, Forget, Unused
<1>2. ASSUME NEW k \in Keys PROVE Kept(k)'
  BY <1>2, Limits, NoCalls DEF Forget, Unused, Kept
<1> QED
  BY <1>1, <1>2 DEF LimiterInv, Kept

LEMMA LimiterStart ==
  ASSUME LimiterInit
  PROVE  LimiterInv
<1>1. LimiterTypeOK
  BY Limits, ClockBounded DEF LimiterInit, LimiterTypeOK, Unused
<1>2. ASSUME NEW k \in Keys PROVE Kept(k)
  BY <1>2, Limits, NoCalls DEF LimiterInit, Unused, Kept
<1> QED
  BY <1>1, <1>2 DEF LimiterInv, Kept

LEMMA PassStep ==
  ASSUME LimiterInv, Pass
  PROVE  LimiterInv'
<1>1. LimiterTypeOK'
  BY ClockBounded DEF LimiterInv, LimiterTypeOK, Pass
<1>2. ASSUME NEW k \in Keys PROVE Kept(k)'
  <2>1. LimiterTypeOK
    BY DEF LimiterInv
  <2>2. Limited(admitted[k], Len(admitted[k]), counters[k].consumed, counters[k].expires,
                Points[k], Duration[k], BlockDuration[k], now)
    BY DEF LimiterInv
  <2>3. InOrder(admitted[k], Len(admitted[k]), now + 1)
    <3>1. /\ now \in Nat
          /\ \A i \in 1..Len(admitted[k]) : admitted[k][i] \in Nat
      BY <2>1, KeyTypes
    <3> QED
      BY <2>2, <3>1, SMT DEF Limited, InOrder
  <2> QED
    BY <2>2, <2>3 DEF Limited, Kept, Pass
<1> QED
  BY <1>1, <1>2 DEF LimiterInv, Kept

LEMMA LimiterStutters ==
  ASSUME LimiterInv, UNCHANGED limiter
  PROVE  LimiterInv'
BY DEF LimiterInv, LimiterTypeOK, limiter

LEMMA LimiterStep ==
  ASSUME LimiterInv, LimiterNext \/ UNCHANGED limiter
  PROVE  LimiterInv'
BY AdmitStep, RefuseStep, ForgetStep, PassStep, LimiterStutters DEF LimiterNext

LEMMA LimiterKeeps ==
  ASSUME LimiterInv
  PROVE  BurstBounded /\ RefusedOnlyIfSpent
<1>1. LimiterTypeOK
  BY DEF LimiterInv
<1>2. ASSUME NEW k \in Keys,
             NEW i \in 1..(Len(admitted[k]) - 2 * Points[k] + 1)
      PROVE  admitted[k][i + 2 * Points[k] - 1] - admitted[k][i] >= Duration[k]
  BY <1>2 DEF LimiterInv, Limited, Bursts
<1>3. ASSUME NEW k \in Keys, ~ Admits(k)
      PROVE  LET spent == Len(admitted[k]) - Points[k] + 1 IN
             spent > 0 /\ now - admitted[k][spent] < Duration[k] + BlockDuration[k]
  <2>1. now < counters[k].expires /\ Points[k] <= counters[k].consumed
    BY <1>1, <1>3, KeyTypes DEF Admits, Consumed
  <2>2. Limited(admitted[k], Len(admitted[k]), counters[k].consumed, counters[k].expires,
                Points[k], Duration[k], BlockDuration[k], now)
    BY DEF LimiterInv
  <2> QED
    BY <1>1, <2>1, <2>2, KeyTypes, Refused
<1> QED
  BY <1>2, <1>3 DEF BurstBounded, RefusedOnlyIfSpent
-----------------------------------------------------------------------------
(* The logins.                                                             *)

Sets ==
  /\ calls \in 0..MaxCalls
  /\ half \in {"creator", "editor"}
  /\ user \in User
  /\ opened \subseteq Channels
  /\ req \in [Requests -> Request]

\* No user, and no row that is going to be written, lacks a channel of registration.
Complete(row) == Channels \ {Api} \subseteq row.channels
RowsComplete == Complete(user) /\ \A r \in Requests : Complete(req[r].row)

IInv == LimiterInv /\ Sets /\ RowsComplete

LEMMA IdleRequest ==
  /\ Idle \in Request /\ Complete(Idle.row) /\ Registered \in User
  /\ \A channel \in Channels, at \in {"find", "session", "update"} :
       Opening(at, channel) \in Request /\ Complete(Opening(at, channel).row)
BY ApiIsChannel DEF Idle, Opening, Request, Registered, User, Complete

LEMMA CountedStep ==
  ASSUME Sets, RowsComplete, NEW k, NEW r \in Requests, NEW next \in Request,
         Complete(next.row), Counted(k, r, next)
  PROVE  Sets' /\ RowsComplete' /\ (LimiterNext \/ UNCHANGED limiter)
<1>1. LimiterNext
  BY DEF Counted, LimiterNext
<1>2. Sets' /\ RowsComplete'
  BY CallsBounded DEF Counted, Call, Go, Sets, RowsComplete, Complete
<1> QED
  BY <1>1, <1>2

LEMMA UncountedStep ==
  ASSUME Sets, RowsComplete, NEW r \in Requests, NEW next \in Request,
         Complete(next.row), Uncounted(r, next)
  PROVE  Sets' /\ RowsComplete' /\ (LimiterNext \/ UNCHANGED limiter)
BY CallsBounded DEF Uncounted, Call, Go, Sets, RowsComplete, Complete

\* A merged row has the channels of the row and more.
LEMMA MergedRequest ==
  ASSUME NEW row \in User, Complete(row), NEW active \in BOOLEAN \cup {None},
         NEW channel \in Channels \cup {None}
  PROVE  /\ [Opening("update", Api) EXCEPT !.row = Merge(row, active, channel)] \in Request
         /\ Complete([Opening("update", Api) EXCEPT !.row = Merge(row, active, channel)].row)
<1>1. Merge(row, active, channel) \in User
  <2>1. Merge(row, active, channel).active \in BOOLEAN
    BY ClientsKnown, Zenon DEF Merge, User
  <2>2. Merge(row, active, channel).channels \in SUBSET Channels
    BY DEF Merge, User
  <2> QED
    BY <2>1, <2>2 DEF Merge, User
<1>2. Complete(Merge(row, active, channel))
  BY DEF Merge, Complete
<1> QED
  BY <1>1, <1>2, IdleRequest, ApiIsChannel DEF Opening, Idle, Request

LEMMA StartStep ==
  ASSUME Sets, RowsComplete, NEW r \in Requests, CreatorAuth(r) \/ EditorAuth(r)
  PROVE  Sets' /\ RowsComplete' /\ (LimiterNext \/ UNCHANGED limiter)
<1>1. CASE InitiateMailLogin(r) \/ InitiateMobileLogin(r) \/ VerifyOtpMail(r)
           \/ RefreshAccessToken(r)
  BY <1>1, CountedStep, IdleRequest
     DEF InitiateMailLogin, InitiateMobileLogin, VerifyOtpMail, RefreshAccessToken
<1>2. ASSUME NEW channel \in Channels,
             ValidateUser(r, channel) \/ CreatorCompleteMailLogin(r, channel)
      PROVE  Sets' /\ RowsComplete' /\ (LimiterNext \/ UNCHANGED limiter)
  BY <1>2, CountedStep, IdleRequest DEF ValidateUser, CreatorCompleteMailLogin
<1>3. ASSUME NEW channel \in Channels,
             CompleteMobileLogin(r, channel) \/ EditorCompleteMailLogin(r, channel)
      PROVE  Sets' /\ RowsComplete' /\ (LimiterNext \/ UNCHANGED limiter)
  BY <1>3, UncountedStep, IdleRequest DEF CompleteMobileLogin, EditorCompleteMailLogin
<1>4. ASSUME NEW active \in BOOLEAN \cup {None}, NEW channel \in Channels \cup {None},
             UpdateFind(r, active, channel)
      PROVE  Sets' /\ RowsComplete' /\ (LimiterNext \/ UNCHANGED limiter)
  <2>1. user \in User /\ Complete(user)
    BY DEF Sets, RowsComplete
  <2> QED
    BY <1>4, <2>1, UncountedStep, MergedRequest DEF UpdateFind
<1> QED
  BY <1>1, <1>2, <1>3, <1>4 DEF CreatorAuth, EditorAuth, Start

LEMMA LoginSteps ==
  ASSUME Sets, RowsComplete, NEW r \in Requests,
         \/ LoginWithPassword(r) \/ CreateSession(r) \/ TouchFind(r)
         \/ RequestFails(r)
  PROVE  Sets' /\ RowsComplete' /\ (LimiterNext \/ UNCHANGED limiter)
<1>1. CASE LoginWithPassword(r)
  BY <1>1, IdleRequest DEF LoginWithPassword, GoTo, Go, Sets, RowsComplete, Complete, Request
<1>2. CASE CreateSession(r)
  BY <1>2 DEF CreateSession, GoTo, Go, Sets, RowsComplete, Complete, Request
<1>3. CASE TouchFind(r)
  BY <1>3 DEF TouchFind, Go, Sets, RowsComplete, Complete, Request
<1>4. CASE RequestFails(r)
  BY <1>4, IdleRequest DEF RequestFails, Go, Sets, RowsComplete, Complete
<1> QED
  BY <1>1, <1>2, <1>3, <1>4

\* What is written is the row of the request.
LEMMA WriteSteps ==
  ASSUME Sets, RowsComplete, NEW r \in Requests, Touch(r) \/ UpdateWrite(r)
  PROVE  Sets' /\ RowsComplete' /\ (LimiterNext \/ UNCHANGED limiter)
<1>1. req[r].row \in User /\ Complete(req[r].row)
  BY DEF Sets, RowsComplete, Request
<1>2. user' \in User /\ Complete(user')
  BY <1>1 DEF Touch, UpdateWrite, Sets, RowsComplete
<1> QED
  BY <1>2, IdleRequest DEF Touch, UpdateWrite, Go, Sets, RowsComplete, Complete

LEMMA RestartStep ==
  ASSUME Sets, RowsComplete, Restart \/ Tick
  PROVE  Sets' /\ RowsComplete' /\ (LimiterNext \/ UNCHANGED limiter)
<1>1. LimiterNext
  BY DEF Restart, Tick, LimiterNext
<1>2. Sets'
  BY IdleRequest DEF Restart, Tick, Sets
<1>3. RowsComplete'
  BY IdleRequest DEF Restart, Tick, RowsComplete, Complete
<1> QED
  BY <1>1, <1>2, <1>3

LEMMA InitInvariant == Init => IInv
BY LimiterStart, IdleRequest, CallsBounded DEF Init, IInv, Sets, RowsComplete, Complete, Registered

LEMMA StepInvariant == IInv /\ [Next]_vars => IInv'
<1> SUFFICES ASSUME IInv, [Next]_vars PROVE IInv'
  OBVIOUS
<1>1. Sets' /\ RowsComplete' /\ (LimiterNext \/ UNCHANGED limiter)
  <2>1. CASE Next
    BY <2>1, StartStep, LoginSteps, WriteSteps, RestartStep DEF Next, IInv
  <2>2. CASE UNCHANGED vars
    BY <2>2 DEF vars, IInv, Sets, RowsComplete, Complete
  <2> QED
    BY <2>1, <2>2
<1> QED
  BY <1>1, LimiterStep DEF IInv

LEMMA Invariant == Spec => []IInv
BY InitInvariant, StepInvariant, PTL DEF Spec
-----------------------------------------------------------------------------
(* The theorems.                                                           *)

\* Every variable keeps its type.
THEOREM LoginsTypeCorrect == Spec => []TypeOK
<1>1. IInv => TypeOK
  BY DEF IInv, LimiterInv, Sets, TypeOK
<1> QED
  BY <1>1, Invariant, PTL

\* However calls, refusals, blocks and restarts are interleaved, as many calls as
\* twice the points never fit in less time than a window (rate-limiter.service consumePoint).
THEOREM BurstsBounded == Spec => []BurstBounded
<1>1. IInv => BurstBounded
  BY LimiterKeeps DEF IInv
<1> QED
  BY <1>1, Invariant, PTL

\* Every refusal can be traced to as many admitted calls as there are points, not longer
\* ago than a window and a block.
THEOREM RefusalsJustified == Spec => []RefusedOnlyIfSpent
<1>1. IInv => RefusedOnlyIfSpent
  BY LimiterKeeps DEF IInv
<1> QED
  BY <1>1, Invariant, PTL

\* Whatever the order of logins, of the write-back of what they have read and of updates,
\* a session is good for its channel exactly as long as its user is active; the api asks
\* for nothing.
THEOREM SessionsGood == Spec => []SessionsUsable
<1>1. IInv => SessionsUsable
  BY DEF IInv, Sets, RowsComplete, Complete, SessionsUsable, ValidateToken,
     IsTokenUsageValid, IsChannelAuthorized, CanAccessResource
<1> QED
  BY <1>1, Invariant, PTL
=============================================================================
