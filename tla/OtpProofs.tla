----------------------------- MODULE OtpProofs -----------------------------
(***************************************************************************)
(* Theorems about Otp.                                                     *)
(***************************************************************************)
EXTENDS Otp, TLAPS

Making == {"sending", "response", "save"}
Holding == {"check", "mark"}

Typed ==
  /\ now \in 0..MaxTime
  /\ otps \in [Sends -> Otp]
  /\ req \in [Requests -> Request]
  /\ cut \subseteq Sends /\ overlapped \subseteq Sends
  /\ used \in [Sends -> Nat]
  /\ \A s \in Sends : otps[s].addr = None <=> otps[s].state = "none"

\* The send a request waits with, as Reached says.
Waiting ==
  \A r \in Requests :
    req[r].at # "idle" => req[r].id \in Sends /\ otps[req[r].id].state \in Reached(req[r].at)

\* One request makes a send.
Alone ==
  \A q, r \in Requests :
    req[q].at \in Making /\ req[r].at \in Making /\ req[q].id = req[r].id => q = r

\* Confirmations that hold the same row have overlapped, and so has one that holds a row
\* another has marked.
Held ==
  /\ \A q, r \in Requests :
       req[q].at \in Holding /\ req[r].at \in Holding /\ req[q].id = req[r].id /\ q # r =>
         req[q].id \in overlapped
  /\ \A r \in Requests :
       req[r].at \in Holding /\ otps[req[r].id].state = "verified" => req[r].id \in overlapped

\* A row outlives its code.
Dated ==
  /\ \A s \in Sends :
       otps[s].state # "none" /\ otps[s].addr \notin Tests =>
         /\ otps[s].code <= now
         /\ otps[s].state = "pending" => otps[s].code + RowLife <= otps[s].expires
  /\ \A r \in Requests :
       req[r].at = "save" /\ otps[req[r].id].addr \notin Tests =>
         otps[req[r].id].code + RowLife <= req[r].expires

\* A code without a row is at work or cut off.
Accounted ==
  \A s \in Sends :
    otps[s].state = "sent" =>
      s \in cut \/ \E r \in Requests : req[r].at \in {"response", "save"} /\ req[r].id = s

IInv ==
  Typed /\ Waiting /\ Alone /\ Held /\ ConfirmedOnceUnlessOverlapped /\ Dated /\ Accounted

LEMMA IdleIsIdle == Idle \in Request /\ Idle.at = "idle" /\ Idle.id = None
BY Times DEF Idle, Request

LEMMA NoOtpIsOtp == NoOtp \in Otp
BY Times DEF NoOtp, Otp

LEMMA InitIInv == Init => IInv
<1> SUFFICES ASSUME Init PROVE IInv
  OBVIOUS
<1>1. Typed
  BY NoOtpIsOtp, IdleIsIdle, Times DEF Init, Typed, NoOtp
<1> QED
  BY <1>1, IdleIsIdle
     DEF Init, IInv, Waiting, Alone, Held, ConfirmedOnceUnlessOverlapped, Dated, Accounted, NoOtp,
         Making, Holding

\* What Saving says of one send.
LEMMA InSaving ==
  ASSUME NEW R, NEW s PROVE s \in Saving(R) <=> \E r \in R : req[r].at \in {"response", "save"} /\ req[r].id = s
BY DEF Saving
-----------------------------------------------------------------------------
(* Requests for a code.                                                    *)

\* A request makes a new send, for now or for a test.
LEMMA Requesting ==
  ASSUME IInv, NEW r \in Requests, NEW s \in Sends, NEW a \in Addresses, NEW code \in 0..MaxTime,
         NEW state \in {"sending", "sent"}, NEW next \in Request,
         req[r].at = "idle", otps[s].state = "none",
         otps' = [otps EXCEPT ![s] = [NoOtp EXCEPT !.addr = a, !.code = code, !.state = state]],
         Go(r, next), next.id = s,
         \/ state = "sending" /\ next.at = "sending" /\ code = now
         \/ state = "sent" /\ next.at = "save" /\ a \in Tests,
         UNCHANGED <<now, cut, used, overlapped>>
  PROVE  IInv'
<1> DEFINE otp == [NoOtp EXCEPT !.addr = a, !.code = code, !.state = state]
<1>1. /\ otp \in Otp /\ otp.addr = a /\ otp.code = code /\ otp.state = state /\ a # None
  BY NoOtpIsOtp, NothingElse DEF Otp
<1> HIDE DEF otp
<1>2. /\ otps'[s] = otp /\ req'[r] = next
      /\ \A t \in Sends : t # s => otps'[t] = otps[t]
      /\ \A q \in Requests : q # r => req'[q] = req[q]
      /\ \A q \in Requests : req[q].at # "idle" => req[q].id \in Sends /\ req[q].id # s
  BY DEF IInv, Typed, Waiting, Go, otp, Reached
<1>3. Typed'
  BY <1>1, <1>2 DEF IInv, Typed, Go, otp
<1>4. Waiting'
  BY <1>1, <1>2 DEF IInv, Waiting, Reached
<1>5. Alone'
  BY <1>2 DEF IInv, Alone, Making
<1>6. Held'
  BY <1>2 DEF IInv, Held, Holding
<1>7. ConfirmedOnceUnlessOverlapped'
  BY <1>1, <1>2 DEF IInv, ConfirmedOnceUnlessOverlapped
<1>8. Dated'
  BY <1>1, <1>2 DEF IInv, Dated, Typed
<1>9. Accounted'
  BY <1>1, <1>2 DEF IInv, Accounted
<1> QED
  BY <1>3, <1>4, <1>5, <1>6, <1>7, <1>8, <1>9 DEF IInv

\* What a request for a code that is not idle knows.
LEMMA AtWork ==
  ASSUME IInv, NEW r \in Requests, req[r].at # "idle"
  PROVE  /\ req[r] \in Request /\ req[r].id \in Sends /\ otps[req[r].id] \in Otp
         /\ otps[req[r].id].state \in Reached(req[r].at)
         /\ otps[req[r].id].addr # None
BY DEF IInv, Typed, Waiting, Reached

\* The request that makes a send goes on, and its code or row with it.
LEMMA GoingOn ==
  ASSUME IInv, NEW r \in Requests, req[r].at \in Making, NEW next \in Request, NEW otp \in Otp,
         otps' = [otps EXCEPT ![req[r].id] = otp], Go(r, next),
         otp.addr = otps[req[r].id].addr, otp.code = otps[req[r].id].code,
         \/ next.at \in {"response", "save"} /\ next.id = req[r].id /\ otp.state = "sent"
         \/ next.at = "idle" /\ otp.state = "pending",
         otp.addr \notin Tests =>
           /\ otp.state = "pending" => otp.code + RowLife <= otp.expires
           /\ next.at = "save" => otp.code + RowLife <= next.expires,
         UNCHANGED <<now, cut, used, overlapped>>
  PROVE  IInv'
<1> DEFINE s == req[r].id
<1>1. /\ s \in Sends /\ otp.addr # None /\ otps[s].state \in {"sending", "sent"}
      /\ otps'[s] = otp /\ req'[r] = next
      /\ \A t \in Sends : t # s => otps'[t] = otps[t]
      /\ \A q \in Requests : q # r => req'[q] = req[q]
  BY AtWork DEF IInv, Typed, Go, Reached, Making
<1>2. \A q \in Requests : q # r /\ req[q].at # "idle" => req[q].id \in Sends /\ req[q].id # s
  BY <1>1 DEF IInv, Waiting, Alone, Reached, Making
<1> HIDE DEF s
<1>3. Typed'
  BY <1>1 DEF IInv, Typed, Go, s
<1>4. Waiting'
  BY <1>1, <1>2 DEF IInv, Waiting, Reached, s
<1>5. Alone'
  BY <1>1, <1>2 DEF IInv, Alone, Making, s
<1>6. Held'
  BY <1>1, <1>2 DEF IInv, Held, Holding, Waiting
<1>7. ConfirmedOnceUnlessOverlapped'
  BY <1>1 DEF IInv, ConfirmedOnceUnlessOverlapped
<1>8. Dated'
  BY <1>1, <1>2 DEF IInv, Dated, s
<1>9. Accounted'
  BY <1>1, <1>2 DEF IInv, Accounted, s
<1> QED
  BY <1>3, <1>4, <1>5, <1>6, <1>7, <1>8, <1>9 DEF IInv

LEMMA SendSteps ==
  ASSUME IInv, NEW r \in Requests, Deliver(r) \/ SendAnswered(r) \/ SaveRow(r)
  PROVE  IInv'
<1> DEFINE s == req[r].id
<1>1. CASE Deliver(r)
  <2> DEFINE otp == [otps[s] EXCEPT !.state = "sent"]
             next == [req[r] EXCEPT !.at = "response"]
  <2>1. /\ s \in Sends /\ otps[s] \in Otp /\ req[r] \in Request /\ req[r].at = "sending"
        /\ otps' = [otps EXCEPT ![s] = otp] /\ Go(r, next)
        /\ UNCHANGED <<now, cut, used, overlapped>>
    BY <1>1, AtWork DEF Deliver
  <2>2. otp \in Otp /\ otp.addr = otps[s].addr /\ otp.code = otps[s].code /\ otp.state = "sent"
    BY <2>1 DEF Otp
  <2>3. next \in Request /\ next.at = "response" /\ next.id = s
    BY <2>1 DEF Request
  <2> HIDE DEF otp, next
  <2> QED
    BY <2>1, <2>2, <2>3, GoingOn DEF Making
<1>2. CASE SendAnswered(r)
  <2> DEFINE next == [req[r] EXCEPT !.at = "save", !.expires = now + RowLife]
  <2>1. /\ s \in Sends /\ otps[s] \in Otp /\ req[r] \in Request /\ req[r].at = "response"
        /\ otps' = [otps EXCEPT ![s] = otps[s]] /\ Go(r, next) /\ otps[s].state = "sent"
        /\ UNCHANGED <<now, cut, used, overlapped>>
    BY <1>2, AtWork DEF SendAnswered, IInv, Typed, Reached
  <2>2. now + RowLife \in 0..(MaxTime + RowLife)
    BY Times DEF IInv, Typed
  <2>3. next \in Request /\ next.at = "save" /\ next.id = s /\ next.expires = now + RowLife
    BY <2>1, <2>2 DEF Request
  <2>4. otps[s].addr \notin Tests => otps[s].code + RowLife <= now + RowLife
    BY <2>1, Times DEF IInv, Dated, Typed, Otp
  <2> HIDE DEF next
  <2> QED
    BY <2>1, <2>3, <2>4, GoingOn DEF Making
<1>3. CASE SaveRow(r)
  <2> DEFINE otp == [otps[s] EXCEPT !.state = "pending", !.expires = req[r].expires]
  <2>1. /\ s \in Sends /\ otps[s] \in Otp /\ req[r] \in Request /\ req[r].at = "save"
        /\ Go(r, Idle) /\ UNCHANGED <<now, cut, used, overlapped>>
    BY <1>3, AtWork DEF SaveRow
  <2>2. otps' = [otps EXCEPT ![s] = otp]
    BY <1>3, <2>1 DEF SaveRow, IInv, Typed, Otp
  <2>3. /\ otp \in Otp /\ otp.addr = otps[s].addr /\ otp.code = otps[s].code
        /\ otp.state = "pending" /\ otp.expires = req[r].expires
    BY <2>1 DEF Otp, Request
  <2>4. otps[s].addr \notin Tests => otp.code + RowLife <= otp.expires
    BY <2>1, <2>3 DEF IInv, Dated
  <2> HIDE DEF otp
  <2> QED
    BY <2>1, <2>2, <2>3, <2>4, IdleIsIdle, GoingOn DEF Making
<1> QED
  BY <1>1, <1>2, <1>3
-----------------------------------------------------------------------------
(* Confirmations.                                                          *)

\* A confirmation finds a pending row.
LEMMA Taking ==
  ASSUME IInv, NEW r \in Requests, NEW s \in Sends, NEW at \in Holding, NEW code \in 0..MaxTime,
         req[r].at = "idle", otps[s].state = "pending", Take(r, s, at, code)
  PROVE  IInv'
<1> DEFINE next == [Idle EXCEPT !.at = at, !.id = s, !.code = code]
<1>1. next \in Request /\ next.at = at /\ next.id = s
  BY IdleIsIdle DEF Request, Holding
<1>2. Go(r, next) /\ UNCHANGED <<now, otps, cut, used>>
  BY DEF Take
<1> HIDE DEF next
<1>3. /\ req'[r] = next
      /\ \A q \in Requests : q # r => req'[q] = req[q]
  BY <1>2 DEF IInv, Typed, Go
<1>4. /\ overlapped \subseteq overlapped' /\ overlapped' \subseteq Sends
      /\ \A q \in Requests : req[q].at \in Holding /\ req[q].id = s => s \in overlapped'
  BY DEF Take, Holding, IInv, Typed
<1>5. Typed'
  BY <1>1, <1>2, <1>4 DEF IInv, Typed, Go
<1>6. Waiting'
  BY <1>1, <1>2, <1>3 DEF IInv, Waiting, Reached, Holding
<1>7. Alone'
  BY <1>1, <1>3 DEF IInv, Alone, Making, Holding
<1>8. Held'
  BY <1>1, <1>2, <1>3, <1>4 DEF IInv, Held
<1>9. ConfirmedOnceUnlessOverlapped'
  BY <1>2, <1>4 DEF IInv, ConfirmedOnceUnlessOverlapped
<1>10. Dated'
  BY <1>1, <1>2, <1>3 DEF IInv, Dated, Holding
<1>11. Accounted'
  BY <1>2, <1>3 DEF IInv, Accounted
<1> QED
  BY <1>5, <1>6, <1>7, <1>8, <1>9, <1>10, <1>11 DEF IInv

LEMMA Finding ==
  ASSUME IInv, NEW r \in Requests, NEW a \in Addresses,
         \/ \E code \in Arrived(a) : FindPendingOTP(r, a, code)
         \/ \E code \in Arrived(a) \cup {None} : Verify(r, a, code)
  PROVE  IInv'
<1>1. Arrived(a) \subseteq 0..MaxTime /\ 0 \in 0..MaxTime
  BY Times DEF Arrived, IInv, Typed, Otp
<1>2. PICK s \in Pending(a), at \in Holding, code \in 0..MaxTime : Take(r, s, at, code)
  BY <1>1 DEF FindPendingOTP, Verify, Found, Holding
<1>3. s \in Sends /\ otps[s].state = "pending" /\ req[r].at = "idle"
  BY DEF Pending, FindPendingOTP, Verify
<1> QED
  BY <1>2, <1>3, Taking

\* A request goes on with what it holds or ends, having cut off what it had to save.
LEMMA Ending ==
  ASSUME IInv,
         req' \in [Requests -> Request],
         \A r \in Requests :
           \/ req'[r] = req[r]
           \/ req'[r].at = "idle"
           \/ req[r].at \in Holding /\ req'[r].at \in Holding /\ req'[r].id = req[r].id,
         \A r \in Requests :
           req[r].at \in {"response", "save"} => req'[r] = req[r] \/ req[r].id \in cut',
         cut \subseteq cut' /\ cut' \subseteq Sends,
         UNCHANGED <<now, otps, used, overlapped>>
  PROVE  IInv'
<1>1. Typed'
  BY DEF IInv, Typed
<1>2. Waiting'
  BY DEF IInv, Waiting, Reached, Holding
<1>3. Alone'
  BY DEF IInv, Alone, Making, Holding
<1>4. Held'
  BY DEF IInv, Held, Holding
<1>5. ConfirmedOnceUnlessOverlapped'
  BY DEF IInv, ConfirmedOnceUnlessOverlapped
<1>6. Dated'
  BY DEF IInv, Dated, Holding
<1>7. Accounted'
  BY DEF IInv, Accounted
<1> QED
  BY <1>1, <1>2, <1>3, <1>4, <1>5, <1>6, <1>7 DEF IInv

LEMMA Checking ==
  ASSUME IInv, NEW r \in Requests, CheckVerification(r)
  PROVE  IInv'
<1> DEFINE next == [Idle EXCEPT !.at = "mark", !.id = req[r].id]
<1>1. req[r].at = "check" /\ req[r] \in Request
  BY AtWork DEF CheckVerification
<1>2. next \in Request /\ next.at = "mark" /\ next.id = req[r].id
  BY <1>1, IdleIsIdle DEF Request, Idle
<1>3. Go(r, next) \/ Go(r, Idle)
  BY Zenon DEF CheckVerification
<1>4. UNCHANGED <<now, otps, cut, used, overlapped>>
  BY DEF CheckVerification
<1> HIDE DEF next
<1>5. req' \in [Requests -> Request] /\ \A q \in Requests : q # r => req'[q] = req[q]
  BY <1>2, <1>3, IdleIsIdle DEF Go, IInv, Typed
<1>6. req'[r] = next \/ req'[r].at = "idle"
  BY <1>3, IdleIsIdle DEF Go, IInv, Typed
<1> QED
  BY <1>1, <1>2, <1>4, <1>5, <1>6, Ending DEF Holding, IInv, Typed

LEMMA Marking ==
  ASSUME IInv, NEW r \in Requests, MarkAsVerified(r)
  PROVE  IInv'
<1> DEFINE s == req[r].id
           otp == [otps[s] EXCEPT !.state = "verified"]
<1>1. /\ req[r].at = "mark" /\ s \in Sends /\ otps[s] \in Otp /\ otps[s].addr # None
      /\ otps[s].state \in {"pending", "verified"}
      /\ otps' = [otps EXCEPT ![s] = otp] /\ used' = [used EXCEPT ![s] = used[s] + 1]
      /\ Go(r, Idle) /\ UNCHANGED <<now, cut, overlapped>>
  BY AtWork DEF MarkAsVerified, Reached
<1>2. otp \in Otp /\ otp.addr = otps[s].addr /\ otp.code = otps[s].code /\ otp.state = "verified"
  BY <1>1 DEF Otp
<1> HIDE DEF otp
<1>3. /\ otps'[s] = otp /\ used'[s] = used[s] + 1 /\ used[s] \in Nat /\ req'[r].at = "idle"
      /\ \A t \in Sends : t # s => otps'[t] = otps[t] /\ used'[t] = used[t]
      /\ \A q \in Requests : q # r => req'[q] = req[q]
  BY <1>1, IdleIsIdle DEF IInv, Typed, Go
<1>4. used[s] > 0 => s \in overlapped
  BY <1>1 DEF IInv, ConfirmedOnceUnlessOverlapped, Held, Holding
<1> HIDE DEF s
<1>5. Typed'
  BY <1>1, <1>2, <1>3, IdleIsIdle DEF IInv, Typed, Go
<1>6. Waiting'
  BY <1>1, <1>2, <1>3 DEF IInv, Waiting, Reached, Making
<1>7. Alone'
  BY <1>3 DEF IInv, Alone, Making
<1>8. Held'
  BY <1>1, <1>2, <1>3 DEF IInv, Held, Holding, s
<1>9. ConfirmedOnceUnlessOverlapped'
  BY <1>1, <1>2, <1>3, <1>4 DEF IInv, ConfirmedOnceUnlessOverlapped, Typed
<1>10. Dated'
  <2>1. \A q \in Requests : req'[q].at = "save" => q # r /\ req'[q] = req[q] /\ req[q].id \in Sends
    BY <1>3 DEF IInv, Waiting
  <2> QED
    BY <1>1, <1>2, <1>3, <2>1 DEF IInv, Dated
<1>11. Accounted'
  BY <1>1, <1>2, <1>3 DEF IInv, Accounted
<1> QED
  BY <1>5, <1>6, <1>7, <1>8, <1>9, <1>10, <1>11 DEF IInv
-----------------------------------------------------------------------------
LEMMA Inductive == Spec => []IInv
<1>1. IInv /\ [Next]_vars => IInv'
  <2> SUFFICES ASSUME IInv, [Next]_vars PROVE IInv'
    OBVIOUS
  <2>1. ASSUME NEW r \in Requests, NEW s \in Sends, NEW a \in Addresses, RequestCode(r, s, a)
        PROVE  IInv'
    <3> DEFINE next == [Idle EXCEPT !.at = "sending", !.id = s]
    <3>1. next \in Request /\ next.at = "sending" /\ next.id = s
      BY IdleIsIdle DEF Request
    <3>2. now \in 0..MaxTime
      BY DEF IInv, Typed
    <3>3. /\ req[r].at = "idle" /\ otps[s].state = "none" /\ Go(r, next)
          /\ otps' = [otps EXCEPT ![s] = [NoOtp EXCEPT !.addr = a, !.code = now, !.state = "sending"]]
          /\ UNCHANGED <<now, cut, used, overlapped>>
      BY <2>1 DEF RequestCode
    <3> HIDE DEF next
    <3> QED
      BY <3>1, <3>2, <3>3, Requesting
  <2>2. ASSUME NEW r \in Requests, NEW s \in Sends, NEW a \in Addresses, NEW code \in RandomCodes,
               RequestTestCode(r, s, a, code)
        PROVE  IInv'
    <3> DEFINE next == [Idle EXCEPT !.at = "save", !.id = s, !.expires = now + RowLife]
    <3>1. now + RowLife \in 0..(MaxTime + RowLife)
      BY Times DEF IInv, Typed
    <3>2. next \in Request /\ next.at = "save" /\ next.id = s
      BY <3>1, IdleIsIdle DEF Request
    <3>3. /\ req[r].at = "idle" /\ otps[s].state = "none" /\ Go(r, next) /\ a \in Tests
          /\ otps' = [otps EXCEPT ![s] = [NoOtp EXCEPT !.addr = a, !.code = code, !.state = "sent"]]
          /\ UNCHANGED <<now, cut, used, overlapped>>
      BY <2>2 DEF RequestTestCode
    <3> HIDE DEF next
    <3> QED
      BY <3>2, <3>3, Codes, Requesting
  <2>3. ASSUME NEW r \in Requests, Deliver(r) \/ SendAnswered(r) \/ SaveRow(r) PROVE IInv'
    BY <2>3, SendSteps
  <2>4. ASSUME NEW r \in Requests, Confirm(r) PROVE IInv'
    BY <2>4, Finding, Checking, Marking DEF Confirm
  <2>5. ASSUME NEW r \in Requests, RequestFails(r) PROVE IInv'
    <3>1. /\ req' \in [Requests -> Request] /\ req'[r].at = "idle"
          /\ \A q \in Requests : q # r => req'[q] = req[q]
      BY <2>5, IdleIsIdle DEF RequestFails, Go, IInv, Typed
    <3>2. req[r].at \in {"response", "save"} => req[r].id \in cut'
      BY <2>5, InSaving DEF RequestFails
    <3>3. cut \subseteq cut' /\ cut' \subseteq Sends
      BY <2>5, InSaving, AtWork DEF RequestFails, IInv, Typed
    <3> QED
      BY <2>5, <3>1, <3>2, <3>3, Ending DEF RequestFails
  <2>6. CASE Restart
    <3>1. req' \in [Requests -> Request] /\ \A r \in Requests : req'[r].at = "idle"
      BY <2>6, IdleIsIdle DEF Restart
    <3>2. \A r \in Requests : req[r].at \in {"response", "save"} => req[r].id \in cut'
      BY <2>6, InSaving DEF Restart
    <3>3. cut \subseteq cut' /\ cut' \subseteq Sends
      BY <2>6, InSaving, AtWork DEF Restart, IInv, Typed
    <3> QED
      BY <2>6, <3>1, <3>2, <3>3, Ending DEF Restart
  <2>7. CASE Tick
    BY <2>7, Times
       DEF Tick, IInv, Typed, Waiting, Alone, Held, ConfirmedOnceUnlessOverlapped, Dated, Accounted, Otp
  <2>8. CASE UNCHANGED vars
    BY <2>8
       DEF vars, IInv, Typed, Waiting, Alone, Held, ConfirmedOnceUnlessOverlapped, Dated, Accounted
  <2> QED
    BY <2>1, <2>2, <2>3, <2>4, <2>5, <2>6, <2>7, <2>8 DEF Next
<1> QED
  BY <1>1, InitIInv, PTL DEF Spec

\* Table and requests keep their types, and no request finds its code or row in a state
\* it did not leave it in (TypeOK).
THEOREM OtpTypeCorrect == Spec => []TypeOK
<1>1. IInv => TypeOK
  BY DEF IInv, Typed, Waiting, TypeOK
<1> QED
  BY <1>1, Inductive, PTL

\* A row confirms more than once only for confirmations that overlapped
\* (ConfirmedOnceUnlessOverlapped).
THEOREM ConfirmedOnce == Spec => []ConfirmedOnceUnlessOverlapped
<1>1. IInv => ConfirmedOnceUnlessOverlapped
  BY DEF IInv
<1> QED
  BY <1>1, Inductive, PTL

\* A code that has arrived and is still accepted can be confirmed, by the endpoints and
\* the logins, unless its row was used or not saved; by the code of a phone number that
\* is not a test's a registration finds nothing (ArrivedCodesConfirm).
THEOREM ArrivedConfirm == Spec => []ArrivedCodesConfirm
<1>1. IInv => ArrivedCodesConfirm
  <2>r. ASSUME IInv, NEW s \in Sends, otps[s].addr \in Phones \ Tests
        PROVE  Found(otps[s].addr, otps[s].code) = {}
    <3>1. otps[s].code # None
      BY <2>r, NothingElse DEF IInv, Typed, Otp
    <3>2. \A t \in Pending(otps[s].addr) : StoredCode(t) = None
      BY <2>r DEF Pending, StoredCode
    <3> QED
      BY <3>1, <3>2 DEF Found
  <2> SUFFICES ASSUME IInv, NEW s \in Sends,
                      otps[s].state \in {"sent", "pending", "verified"}, otps[s].addr \notin Tests,
                      Accepts(otps[s].addr, otps[s].code)
               PROVE  used[s] > 0 \/ s \in Saving(Requests) \cup cut \/ s \in Pending(otps[s].addr)
    BY <2>r DEF ArrivedCodesConfirm
  <2>1. CASE otps[s].state = "sent"
    BY <2>1, InSaving DEF IInv, Accounted
  <2>2. CASE otps[s].state = "verified"
    BY <2>2 DEF IInv, ConfirmedOnceUnlessOverlapped
  <2>3. CASE otps[s].state = "pending"
    <3>1. now \in Nat /\ otps[s].code \in Nat /\ otps[s].expires \in Nat
      BY Times DEF IInv, Typed, Otp
    <3>2. otps[s].code + RowLife <= otps[s].expires /\ now <= otps[s].code + 1
      BY <2>3, <3>1 DEF IInv, Dated, Accepts
    <3>3. now < otps[s].expires
      BY <3>1, <3>2, Times
    <3> QED
      BY <2>3, <3>1, <3>3 DEF Pending
  <2> QED
    BY <2>1, <2>2, <2>3
<1> QED
  BY <1>1, Inductive, PTL
-----------------------------------------------------------------------------
(* The component implements OtpLifecycle.                                  *)

LEMMA RowsKept ==
  ASSUME UNCHANGED otps PROVE \A s \in Sends : Stage(s)' = Stage(s) /\ Until(s)' = Until(s)
BY DEF Stage, Until

\* Steps in which no row is opened or confirms anybody and nobody comes.
LEMMA Leaves ==
  ASSUME UNCHANGED now,
         \A s \in Sends : Stage(s)' = Stage(s) /\ Until(s)' = Until(s),
         \A r \in Requests : ClaimOf(r)' = ClaimOf(r) \/ ClaimOf(r)' = None
  PROVE  [Lifecycle!Next]_Lifecycle!vars
<1>1. Lifecycle!Leave
  BY DEF Lifecycle!Leave
<1> QED
  BY <1>1 DEF Lifecycle!Next

\* The code is sent before its row is there, so no row changes for a client.
LEMMA MakingRefines ==
  ASSUME IInv, NEW r \in Requests, NEW s \in Sends, NEW otp \in Otp, NEW next \in Request,
         otps[s].state \in {"none", "sending", "sent"}, otp.state \in {"sending", "sent"},
         otps' = [otps EXCEPT ![s] = otp], Go(r, next), next.at \in Making, UNCHANGED now
  PROVE  [Lifecycle!Next]_Lifecycle!vars
<1>1. /\ otps'[s] = otp /\ req'[r] = next
      /\ \A t \in Sends : t # s => otps'[t] = otps[t]
      /\ \A q \in Requests : q # r => req'[q] = req[q]
  BY DEF IInv, Typed, Go
<1>2. \A t \in Sends : Stage(t)' = Stage(t) /\ Until(t)' = Until(t)
  BY <1>1 DEF Stage, Until
<1>3. \A q \in Requests : ClaimOf(q)' = ClaimOf(q) \/ ClaimOf(q)' = None
  BY <1>1 DEF ClaimOf, Making
<1> QED
  BY <1>2, <1>3, Leaves

LEMMA RequestRefines ==
  ASSUME IInv, NEW r \in Requests, NEW s \in Sends, NEW a \in Addresses,
         \/ RequestCode(r, s, a)
         \/ \E code \in RandomCodes : RequestTestCode(r, s, a, code)
  PROVE  [Lifecycle!Next]_Lifecycle!vars
<1>1. now \in 0..MaxTime /\ now + RowLife \in 0..(MaxTime + RowLife)
  BY Times DEF IInv, Typed
<1>2. CASE RequestCode(r, s, a)
  <2> DEFINE next == [Idle EXCEPT !.at = "sending", !.id = s]
             otp == [NoOtp EXCEPT !.addr = a, !.code = now, !.state = "sending"]
  <2>1. next \in Request /\ next.at = "sending"
    BY IdleIsIdle DEF Request
  <2>2. otp \in Otp /\ otp.state = "sending"
    BY <1>1, NoOtpIsOtp DEF Otp
  <2>3. /\ otps[s].state = "none" /\ otps' = [otps EXCEPT ![s] = otp] /\ Go(r, next)
        /\ UNCHANGED now
    BY <1>2 DEF RequestCode
  <2> HIDE DEF next, otp
  <2> QED
    BY <2>1, <2>2, <2>3, MakingRefines DEF Making
<1>3. CASE \E code \in RandomCodes : RequestTestCode(r, s, a, code)
  <2> PICK code \in RandomCodes : RequestTestCode(r, s, a, code)
    BY <1>3
  <2> DEFINE next == [Idle EXCEPT !.at = "save", !.id = s, !.expires = now + RowLife]
             otp == [NoOtp EXCEPT !.addr = a, !.code = code, !.state = "sent"]
  <2>1. next \in Request /\ next.at = "save"
    BY <1>1, IdleIsIdle DEF Request
  <2>2. otp \in Otp /\ otp.state = "sent"
    BY NoOtpIsOtp, Codes DEF Otp
  <2>3. /\ otps[s].state = "none" /\ otps' = [otps EXCEPT ![s] = otp] /\ Go(r, next)
        /\ UNCHANGED now
    BY DEF RequestTestCode
  <2> HIDE DEF next, otp
  <2> QED
    BY <2>1, <2>2, <2>3, MakingRefines DEF Making
<1> QED
  BY <1>2, <1>3

LEMMA SendRefines ==
  ASSUME IInv, NEW r \in Requests, Deliver(r) \/ SendAnswered(r)
  PROVE  [Lifecycle!Next]_Lifecycle!vars
<1> DEFINE s == req[r].id
<1>1. CASE Deliver(r)
  <2> DEFINE otp == [otps[s] EXCEPT !.state = "sent"]
             next == [req[r] EXCEPT !.at = "response"]
  <2>1. /\ s \in Sends /\ otps[s] \in Otp /\ req[r] \in Request /\ otps[s].state = "sending"
        /\ otps' = [otps EXCEPT ![s] = otp] /\ Go(r, next) /\ UNCHANGED now
    BY <1>1, AtWork DEF Deliver, Reached
  <2>2. otp \in Otp /\ otp.state = "sent" /\ next \in Request /\ next.at = "response"
    BY <2>1 DEF Otp, Request
  <2> HIDE DEF otp, next
  <2> QED
    BY <2>1, <2>2, MakingRefines DEF Making
<1>2. CASE SendAnswered(r)
  <2>1. \A q \in Requests : ClaimOf(q)' = ClaimOf(q)
    BY <1>2 DEF SendAnswered, Go, ClaimOf, IInv, Typed, Request
  <2> QED
    BY <1>2, <2>1, RowsKept, Leaves DEF SendAnswered
<1> QED
  BY <1>1, <1>2

\* Saving the row opens it.
LEMMA SaveRefines ==
  ASSUME IInv, NEW r \in Requests, SaveRow(r)
  PROVE  [Lifecycle!Next]_Lifecycle!vars
<1>s. PICK s \in Sends : s = req[r].id
  BY AtWork DEF SaveRow
<1> DEFINE otp == [otps[s] EXCEPT !.state = "pending", !.expires = req[r].expires]
<1>1. /\ otps[s] \in Otp /\ otps[s].state = "sent" /\ req[r].at = "save"
      /\ Go(r, Idle) /\ UNCHANGED now
  BY <1>s, AtWork DEF SaveRow, Reached
<1>2. otps' = [otps EXCEPT ![s] = otp]
  BY <1>s, <1>1 DEF SaveRow, IInv, Typed, Otp
<1>3. otp.state = "pending"
  BY <1>1 DEF Otp
<1> HIDE DEF otp
<1>4. /\ otps'[s] = otp /\ req'[r] = Idle
      /\ \A t \in Sends : t # s => otps'[t] = otps[t]
      /\ \A q \in Requests : q # r => req'[q] = req[q]
  BY <1>1, <1>2 DEF IInv, Typed, Go
<1>5. /\ Stage(s) = "new" /\ Stage(s)' = "open"
      /\ \A t \in Sends : t # s => Stage(t)' = Stage(t) /\ Until(t)' = Until(t)
  BY <1>1, <1>3, <1>4 DEF Stage, Until
<1>6. \A q \in Requests : ClaimOf(q)' = ClaimOf(q)
  BY <1>1, <1>4, IdleIsIdle DEF ClaimOf
<1>7. Lifecycle!Open(s)
  BY <1>1, <1>5, <1>6 DEF Lifecycle!Open
<1> QED
  BY <1>7 DEF Lifecycle!Next

\* Who finds a row finds it open.
LEMMA FindRefines ==
  ASSUME IInv, NEW r \in Requests, NEW a \in Addresses, NEW given,
         FindPendingOTP(r, a, given) \/ Verify(r, a, given)
  PROVE  [Lifecycle!Next]_Lifecycle!vars
<1>1. PICK s \in Pending(a), at \in Holding, code \in {0, given} : Take(r, s, at, code)
  BY DEF FindPendingOTP, Verify, Found, Holding
<1>2. /\ s \in Sends /\ otps[s].state = "pending" /\ now < otps[s].expires /\ req[r].at = "idle"
      /\ UNCHANGED <<now, otps>>
  BY <1>1 DEF Pending, FindPendingOTP, Verify, Take, IInv, Typed, Otp
<1> DEFINE next == [Idle EXCEPT !.at = at, !.id = s, !.code = code]
<1>3. next.at = at /\ next.id = s /\ Go(r, next)
  BY <1>1 DEF Take, Idle
<1> HIDE DEF next
<1>4. req'[r] = next /\ \A q \in Requests : q # r => req'[q] = req[q]
  BY <1>3 DEF Go, IInv, Typed
<1>5. ClaimOf(r) = None /\ ClaimOf(r)' = s /\ \A q \in Requests : q # r => ClaimOf(q)' = ClaimOf(q)
  BY <1>1, <1>2, <1>3, <1>4 DEF ClaimOf, Holding
<1>6. Stage(s) = "open" /\ now < Until(s)
  BY <1>2 DEF Stage, Until
<1>7. Lifecycle!Claim(r, s)
  BY <1>2, <1>5, <1>6, RowsKept DEF Lifecycle!Claim
<1> QED
  BY <1>2, <1>7 DEF Lifecycle!Next

\* A mark confirms the client that came for the row.
LEMMA MarkRefines ==
  ASSUME IInv, NEW r \in Requests, MarkAsVerified(r)
  PROVE  [Lifecycle!Next]_Lifecycle!vars
<1>s. PICK s \in Sends : s = req[r].id
  BY AtWork DEF MarkAsVerified
<1> DEFINE otp == [otps[s] EXCEPT !.state = "verified"]
<1>1. /\ req[r].at = "mark" /\ otps[s] \in Otp
      /\ otps[s].state \in {"pending", "verified"}
      /\ otps' = [otps EXCEPT ![s] = otp] /\ Go(r, Idle) /\ UNCHANGED now
  BY <1>s, AtWork DEF MarkAsVerified, Reached
<1>2. otp.state = "verified" /\ otp.expires = otps[s].expires
  BY <1>1 DEF Otp
<1> HIDE DEF otp
<1>3. /\ otps'[s] = otp /\ req'[r] = Idle
      /\ \A t \in Sends : t # s => otps'[t] = otps[t]
      /\ \A q \in Requests : q # r => req'[q] = req[q]
  BY <1>1 DEF IInv, Typed, Go
<1>4. /\ Stage(s)' = "used" /\ \A t \in Sends : t # s => Stage(t)' = Stage(t)
      /\ \A t \in Sends : Until(t)' = Until(t)
  BY <1>1, <1>2, <1>3 DEF Stage, Until
<1>5. /\ ClaimOf(r) = s /\ s # None /\ ClaimOf(r)' = None
      /\ \A q \in Requests : q # r => ClaimOf(q)' = ClaimOf(q)
  BY <1>s, <1>1, <1>3, IdleIsIdle, NothingElse DEF ClaimOf
<1>6. Lifecycle!Confirm(r)
  BY <1>1, <1>4, <1>5 DEF Lifecycle!Confirm
<1> QED
  BY <1>6 DEF Lifecycle!Next

LEMMA CheckRefines ==
  ASSUME IInv, NEW r \in Requests, CheckVerification(r)
  PROVE  [Lifecycle!Next]_Lifecycle!vars
<1> DEFINE next == [Idle EXCEPT !.at = "mark", !.id = req[r].id]
<1>1. req[r].at = "check" /\ req[r] \in Request /\ UNCHANGED <<now, otps>>
  BY AtWork DEF CheckVerification
<1>2. next.at = "mark" /\ next.id = req[r].id
  BY DEF Idle
<1>3. Go(r, next) \/ Go(r, Idle)
  BY Zenon DEF CheckVerification
<1> HIDE DEF next
<1>4. /\ req'[r] = next \/ req'[r] = Idle
      /\ \A q \in Requests : q # r => req'[q] = req[q]
  BY <1>3 DEF Go, IInv, Typed
<1>5. \A q \in Requests : ClaimOf(q)' = ClaimOf(q) \/ ClaimOf(q)' = None
  BY <1>1, <1>2, <1>4, IdleIsIdle DEF ClaimOf
<1> QED
  BY <1>1, <1>5, RowsKept, Leaves

\* Failures.
LEMMA EndRefines ==
  ASSUME IInv, \/ \E r \in Requests : RequestFails(r)
               \/ Restart
               \/ UNCHANGED vars
  PROVE  [Lifecycle!Next]_Lifecycle!vars
<1>1. UNCHANGED <<now, otps>>
  BY DEF RequestFails, Restart, vars
<1>2. \A q \in Requests : req'[q] = req[q] \/ req'[q] = Idle
  BY DEF RequestFails, Go, Restart, vars, IInv, Typed
<1>3. \A q \in Requests : ClaimOf(q)' = ClaimOf(q) \/ ClaimOf(q)' = None
  BY <1>2, IdleIsIdle DEF ClaimOf
<1> QED
  BY <1>1, <1>3, RowsKept, Leaves

LEMMA StepRefines == IInv /\ [Next]_vars => [Lifecycle!Next]_Lifecycle!vars
<1> SUFFICES ASSUME IInv, [Next]_vars PROVE [Lifecycle!Next]_Lifecycle!vars
  OBVIOUS
<1>1. ASSUME NEW r \in Requests, NEW s \in Sends, NEW a \in Addresses,
             \/ RequestCode(r, s, a)
             \/ \E code \in RandomCodes : RequestTestCode(r, s, a, code)
      PROVE  [Lifecycle!Next]_Lifecycle!vars
  BY <1>1, RequestRefines
<1>2. ASSUME NEW r \in Requests, Deliver(r) \/ SendAnswered(r) \/ SaveRow(r)
      PROVE  [Lifecycle!Next]_Lifecycle!vars
  BY <1>2, SendRefines, SaveRefines
<1>3. ASSUME NEW r \in Requests, Confirm(r)
      PROVE  [Lifecycle!Next]_Lifecycle!vars
  BY <1>3, FindRefines, CheckRefines, MarkRefines DEF Confirm
<1>4. ASSUME NEW r \in Requests, RequestFails(r)
      PROVE  [Lifecycle!Next]_Lifecycle!vars
  BY <1>4, EndRefines
<1>5. CASE Restart \/ UNCHANGED vars
  BY <1>5, EndRefines
<1>6. CASE Tick
  <2>1. Lifecycle!Tick
    BY <1>6 DEF Tick, Lifecycle!Tick, Stage, Until, ClaimOf
  <2> QED
    BY <2>1 DEF Lifecycle!Next
<1> QED
  BY <1>1, <1>2, <1>3, <1>4, <1>5, <1>6 DEF Next

\* A row is opened once, confirms only requests that found it pending and unexpired, each
\* once, and is found by nobody after its first mark or its expiry (ImplementsLifecycle).
THEOREM OtpLifecycleImplemented == Spec => ImplementsLifecycle
<1>1. Init => Lifecycle!Init
  BY IdleIsIdle DEF Init, Lifecycle!Init, Stage, Until, ClaimOf, NoOtp
<1>2. Spec => Lifecycle!Init /\ [][Lifecycle!Next]_Lifecycle!vars
  BY <1>1, Inductive, StepRefines, PTL DEF Spec
<1> QED
  BY <1>2 DEF ImplementsLifecycle, Lifecycle!Spec
=============================================================================
