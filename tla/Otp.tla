-------------------------------- MODULE Otp --------------------------------
(***************************************************************************)
(* Codes that confirm mail addresses and phone numbers.                    *)
(*                                                                         *)
(* A request for a code sends it and then inserts a row of the table otps; *)
(* a confirmation looks the latest pending row of the address up, checks   *)
(* the code and marks the row.  The code of a mail or a message depends on *)
(* the address and the time alone, so the check does not say which row a   *)
(* code belongs to.  Test addresses get no message: their random code is   *)
(* kept in the row and the row is looked up by it.  A registration looks   *)
(* the row of any phone number up that way, although only the rows of test *)
(* numbers have a code.                                                    *)
(*                                                                         *)
(* Time is counted in the windows a code is generated for, which are 60    *)
(* seconds for mail and 30 for messages; addresses have no step in common. *)
(***************************************************************************)
EXTENDS Naturals

CONSTANTS
  Mails, Phones,   \* addresses
  Twilio,          \* phone numbers that Twilio checks the codes of
  Tests,           \* test addresses
  Sends,           \* requests for a code; the row has the same id
  Requests,        \* handlers that can be in flight at once
  RandomCodes,     \* codes of test addresses
  RowLife,         \* ten minutes, in windows
  MaxTime,         \* bound of the model on the clock
  None             \* no id, no address, no code

Addresses == Mails \cup Phones

ASSUME Kinds == Mails \cap Phones = {} /\ Twilio \subseteq Phones /\ Tests \subseteq Addresses
ASSUME NothingElse == None \notin Addresses \cup Sends \cup 0..MaxTime
ASSUME Codes == RandomCodes \subseteq 0..MaxTime
ASSUME Times == RowLife \in Nat /\ RowLife > 1 /\ MaxTime \in Nat

VARIABLES
  now,
  otps,         \* for each send what became of the code and of its row
  req,          \* the requests in flight
  cut,          \* history: codes that were sent by a request that ended before the row was saved
  used,         \* history: confirmations by each row
  overlapped    \* history: rows two confirmations held at once

vars == <<now, otps, req, cut, used, overlapped>>

\* code is the window it was generated in, or the random one of a test address.  The
\* message is under way ("sending"), has arrived ("sent"), its row is there ("pending")
\* and marked ("verified").
Otp == [addr: Addresses \cup {None}, code: 0..MaxTime, expires: 0..(MaxTime + RowLife),
        state: {"none", "sending", "sent", "pending", "verified"}]

NoOtp == [addr |-> None, code |-> 0, expires |-> 0, state |-> "none"]

\* Where a request waits, the send or the row it is about, the code it has to check and
\* the expiry it is going to save.
Request == [at: {"idle", "sending", "response", "save", "check", "mark"},
            id: Sends \cup {None}, code: 0..MaxTime, expires: 0..(MaxTime + RowLife)]

Idle == [at |-> "idle", id |-> None, code |-> 0, expires |-> 0]

Init ==
  /\ now = 0
  /\ otps = [s \in Sends |-> NoOtp]
  /\ req = [r \in Requests |-> Idle]
  /\ cut = {}
  /\ used = [s \in Sends |-> 0]
  /\ overlapped = {}

Go(r, next) == req' = [req EXCEPT ![r] = next]

\* Sends whose row the requests of R have still to save.
Saving(R) == {req[r].id : r \in {q \in R : req[q].at \in {"response", "save"}}}

\* Mutant: the expiry is not looked at.
Pending_Expired(a) == {s \in Sends : otps[s].addr = a /\ otps[s].state = "pending"}

\* Rows of a that are not verified and have not expired.
Pending(a) == {s \in Sends : otps[s].addr = a /\ otps[s].state = "pending" /\ otps[s].expires > now}

\* Mail also takes the code of the window before, messages do not.
Accepts(a, code) == IF a \in Mails THEN now <= code + 1 ELSE now = code
-----------------------------------------------------------------------------
(* A request for a code.                                                   *)

\* Mutant: a row of the table is written over.
RequestCode_Overwrites(r, s, a) ==
  /\ req[r].at = "idle"
  /\ a \notin Tests
  /\ otps' = [otps EXCEPT ![s] = [NoOtp EXCEPT !.addr = a, !.code = now, !.state = "sending"]]
  /\ Go(r, [Idle EXCEPT !.at = "sending", !.id = s])
  /\ UNCHANGED <<now, cut, used, overlapped>>

\* The code is generated for the current window and handed to the mail server or the
\* message service.
RequestCode(r, s, a) ==
  /\ req[r].at = "idle"
  /\ otps[s].state = "none"
  /\ a \notin Tests
  /\ otps' = [otps EXCEPT ![s] = [NoOtp EXCEPT !.addr = a, !.code = now, !.state = "sending"]]
  /\ Go(r, [Idle EXCEPT !.at = "sending", !.id = s])
  /\ UNCHANGED <<now, cut, used, overlapped>>

\* A test address: nothing is sent, the random code is in the row.
RequestTestCode(r, s, a, code) ==
  /\ req[r].at = "idle"
  /\ otps[s].state = "none"
  /\ a \in Tests
  /\ otps' = [otps EXCEPT ![s] = [NoOtp EXCEPT !.addr = a, !.code = code, !.state = "sent"]]
  /\ Go(r, [Idle EXCEPT !.at = "save", !.id = s, !.expires = now + RowLife])
  /\ UNCHANGED <<now, cut, used, overlapped>>

Deliver(r) ==
  /\ req[r].at = "sending"
  /\ otps' = [otps EXCEPT ![req[r].id].state = "sent"]
  /\ Go(r, [req[r] EXCEPT !.at = "response"])
  /\ UNCHANGED <<now, cut, used, overlapped>>

\* Mutant: the life of a row is that of a code.
SendAnswered_Short(r) ==
  /\ req[r].at = "response"
  /\ Go(r, [req[r] EXCEPT !.at = "save", !.expires = now + 1])
  /\ UNCHANGED <<now, otps, cut, used, overlapped>>

\* Life of the row begins when the service has answered.
SendAnswered(r) ==
  /\ req[r].at = "response"
  /\ Go(r, [req[r] EXCEPT !.at = "save", !.expires = now + RowLife])
  /\ UNCHANGED <<now, otps, cut, used, overlapped>>

SaveRow(r) ==
  /\ req[r].at = "save"
  /\ otps' = [otps EXCEPT ![req[r].id].state = "pending",
                          ![req[r].id].expires = req[r].expires]
  /\ Go(r, Idle)
  /\ UNCHANGED <<now, cut, used, overlapped>>
-----------------------------------------------------------------------------
(* A confirmation.                                                         *)

\* Request r goes on with row s, which another confirmation may hold.
Take(r, s, at, code) ==
  /\ Go(r, [Idle EXCEPT !.at = at, !.id = s, !.code = code])
  /\ overlapped' = IF \E q \in Requests : req[q].at \in {"check", "mark"} /\ req[q].id = s
                   THEN overlapped \cup {s} ELSE overlapped
  /\ UNCHANGED <<now, otps, cut, used>>

\* Mutant: verified rows are found, too.
FindPendingOTP_Verified(r, a, code) ==
  /\ req[r].at = "idle"
  /\ a \notin Tests
  /\ \E s \in Sends :
       /\ otps[s].addr = a /\ otps[s].state \in {"pending", "verified"} /\ otps[s].expires > now
       /\ Take(r, s, "check", code)

\* The latest pending row; without one the code is refused.
FindPendingOTP(r, a, code) ==
  /\ req[r].at = "idle"
  /\ a \notin Tests
  /\ \E s \in Pending(a) :
       /\ \A t \in Pending(a) : otps[t].expires <= otps[s].expires
       /\ Take(r, s, "check", code)

\* The column code of a row: empty for a phone number that is not a test's.
StoredCode(s) == IF otps[s].addr \in Phones \ Tests THEN None ELSE otps[s].code

\* The pending rows a look-up by address and code finds; a code that is not given is
\* no condition of the query.
Found(a, code) == {s \in Pending(a) : code \in {None, StoredCode(s)}}

\* The row is looked up by the code and marked without a check.  So codes of test
\* addresses are confirmed, and in a registration the code of every phone number; a
\* registration may also leave the code out.
Verify(r, a, code) ==
  /\ req[r].at = "idle"
  /\ a \in Phones \cup Tests
  /\ \E s \in Found(a, code) : Take(r, s, "mark", 0)

\* Twilio's answer is its own.
CheckVerification(r) ==
  /\ req[r].at = "check"
  /\ LET a == otps[req[r].id].addr IN
     \/ /\ a \in Twilio \/ Accepts(a, req[r].code)
        /\ Go(r, [Idle EXCEPT !.at = "mark", !.id = req[r].id])
     \/ /\ a \in Twilio \/ ~ Accepts(a, req[r].code)
        /\ Go(r, Idle)
  /\ UNCHANGED <<now, otps, cut, used, overlapped>>

MarkAsVerified(r) ==
  /\ req[r].at = "mark"
  /\ otps' = [otps EXCEPT ![req[r].id].state = "verified"]
  /\ used' = [used EXCEPT ![req[r].id] = @ + 1]
  /\ Go(r, Idle)
  /\ UNCHANGED <<now, cut, overlapped>>

\* The codes that have arrived at a.
Arrived(a) ==
  {otps[s].code : s \in {t \in Sends : otps[t].addr = a /\ otps[t].state \notin {"none", "sending"}}}

Confirm(r) ==
  \/ \E a \in Addresses :
       \/ \E code \in Arrived(a) : FindPendingOTP(r, a, code)
       \/ \E code \in Arrived(a) \cup {None} : Verify(r, a, code)
  \/ CheckVerification(r) \/ MarkAsVerified(r)
-----------------------------------------------------------------------------
RequestFails(r) ==
  /\ req[r].at # "idle"
  /\ Go(r, Idle)
  /\ cut' = cut \cup Saving({r})
  /\ UNCHANGED <<now, otps, used, overlapped>>

Restart ==
  /\ req' = [r \in Requests |-> Idle]
  /\ cut' = cut \cup Saving(Requests)
  /\ UNCHANGED <<now, otps, used, overlapped>>

Tick ==
  /\ now < MaxTime
  /\ now' = now + 1
  /\ UNCHANGED <<otps, req, cut, used, overlapped>>

Next ==
  \/ \E r \in Requests :
       \/ \E s \in Sends, a \in Addresses :
            \/ RequestCode(r, s, a)
            \/ \E code \in RandomCodes : RequestTestCode(r, s, a, code)
       \/ Deliver(r) \/ SendAnswered(r) \/ SaveRow(r)
       \/ Confirm(r)
       \/ RequestFails(r)
  \/ Restart
  \/ Tick

Spec == Init /\ [][Next]_vars
-----------------------------------------------------------------------------
(* Correctness.                                                            *)

\* What has become of the send a request is about while it waits at at.
Reached(at) ==
  CASE at = "sending" -> {"sending"}
    [] at \in {"response", "save"} -> {"sent"}
    [] at \in {"check", "mark"} -> {"pending", "verified"}
    [] OTHER -> {}

\* Types, and a request never finds its code or row in a state it did not leave it in.
TypeOK ==
  /\ now \in 0..MaxTime
  /\ otps \in [Sends -> Otp]
  /\ req \in [Requests -> Request]
  /\ cut \subseteq Sends /\ overlapped \subseteq Sends
  /\ used \in [Sends -> Nat]
  /\ \A s \in Sends : otps[s].addr = None <=> otps[s].state = "none"
  /\ \A r \in Requests :
       req[r].at # "idle" =>
         req[r].id \in Sends /\ otps[req[r].id].state \in Reached(req[r].at)

\* Row and answer are one read and one write with a check between: a row confirms once,
\* and more often only if two confirmations held it at once.  A row is verified only by
\* a confirmation.
ConfirmedOnceUnlessOverlapped ==
  \A s \in Sends :
    /\ used[s] > 0 <=> otps[s].state = "verified"
    /\ used[s] > 1 => s \in overlapped

\* verifyOTP and verifyOtpMail, which the confirmation endpoints and the logins call,
\* can confirm a code that has arrived and is still accepted.  Its row may only be used
\* up (by another code of the address or a registration without one), not saved yet or
\* never be, because its request ended; it has not expired.  A registration is no such
\* way: it finds no row by the code of a phone number that is not a test's.
ArrivedCodesConfirm ==
  \A s \in Sends :
    LET otp == otps[s] IN
    /\ otp.state \in {"sent", "pending", "verified"} /\ otp.addr \notin Tests
           /\ Accepts(otp.addr, otp.code) =>
         \/ used[s] > 0
         \/ s \in Saving(Requests) \cup cut
         \/ s \in Pending(otp.addr)
    /\ otp.addr \in Phones \ Tests => Found(otp.addr, otp.code) = {}

-----------------------------------------------------------------------------
(* The abstract specification: an open row is a pending one, and a client  *)
(* has come for the row its request waits with for the check or the mark.  *)

Stage(s) ==
  CASE otps[s].state = "pending" -> "open"
    [] otps[s].state = "verified" -> "used"
    [] OTHER -> "new"

Until(s) == IF Stage(s) = "new" THEN 0 ELSE otps[s].expires

ClaimOf(r) == IF req[r].at \in {"check", "mark"} THEN req[r].id ELSE None

Lifecycle == INSTANCE OtpLifecycle WITH
  Otps <- Sends, Clients <- Requests,
  stage <- [s \in Sends |-> Stage(s)], until <- [s \in Sends |-> Until(s)],
  claims <- [r \in Requests |-> ClaimOf(r)]

\* A row is opened once, confirms only requests that found it unverified and unexpired,
\* each once, and nobody finds it after its first confirmation or its expiry.
ImplementsLifecycle == Lifecycle!Spec
=============================================================================
