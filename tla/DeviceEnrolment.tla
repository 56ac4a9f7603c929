---------------------------- MODULE DeviceEnrolment ----------------------------
(***************************************************************************)
(* One device, the accounts that sign on it, and the account its sign      *)
(* queue uploads under: enrolment on first use (devices.py, signQueue.ts)  *)
(* and the two checks the service makes of an upload's sender              *)
(* (certificates.py).  The drain keeps the token it was given.               *)
(*                                                                         *)
(* The service decides on what it read: an enrolment is read and inserted, *)
(* an upload checked and committed, in two steps with no lock between      *)
(* them, and a call goes on at the service when the phone has let go of it *)
(* or was killed.                                                          *)
(*                                                                         *)
(* Abstracted: one certificate per officer; the device's signature is made *)
(* with the key it enrolled.  What else becomes of an upload is            *)
(* SignPipeline's.                                                         *)
(***************************************************************************)
EXTENDS PhoneSession

CONSTANTS
  Calls,     \* bound: places for calls the service is at work on
  Enforce    \* device_binding_enforce

Certificate == [state : {"queued", "issued"}, by : Officers \cup {Nobody}]
Call == [op : {"enroll", "sign"}, by : Officers, on : Officers,
         seen : {"nothing", "active", "pending", "accepted"}]
Drain == [who : Officers \cup {Nobody}, todo : SUBSET Officers, call : Calls \cup {Nobody}]
ASSUME NobodyAssumption == Nobody \notin Certificate \cup Officers \cup Call \cup Calls

VARIABLES
  cert,      \* the certificate each officer signed: queued or issued, and by whom
  sending,   \* the queue's drain: its token's officer, what it has still to send, its call
  enrolled,  \* enrolledThisRun
  calls,     \* Calls -> the call: whose token, for whom, what the service has read; or Nobody
  device,    \* the service's rows for this device: status, and if an admin approved it
  early,     \* history: of a revoked account, the uploads under way when it was revoked
  together   \* history: the pairs of accounts whose first enrolments overlapped
enrolVars == <<cert, sending, enrolled, calls, device, early, together>>

NoDrain == [who |-> Nobody, todo |-> {}, call |-> Nobody]

EnrolInit ==
  /\ cert = [o \in Officers |-> Nobody] /\ sending = NoDrain /\ enrolled = FALSE
  /\ calls = [c \in Calls |-> Nobody]
  /\ device = [o \in Officers |-> [status |-> "none", approved |-> FALSE]]
  /\ early = [o \in Officers |-> {}] /\ together = {}

Queued(o) == cert[o] # Nobody /\ cert[o].state = "queued"

\* The certificate names the signed-in officer.
SignCertificate ==
  /\ session # Nobody /\ cert[session] = Nobody
  /\ cert' = [cert EXCEPT ![session] = [state |-> "queued", by |-> Nobody]]
  /\ UNCHANGED <<sessionVars, sending, enrolled, calls, device, early, together>>

-----------------------------------------------------------------------------
(* The phone.  One drain at a time, over what was queued when it began;      *)
(* ensureDeviceEnrolled asks at most once per drain, as well as it can.      *)
Sends(c, op, by, on) ==
  /\ calls[c] = Nobody
  /\ calls' = [calls EXCEPT ![c] = [op |-> op, by |-> by, on |-> on, seen |-> "nothing"]]
DrainBegins ==
  LET begun(c) == [who |-> session, todo |-> {o \in Officers : Queued(o)}, call |-> c] IN
  /\ sending = NoDrain /\ session # Nobody
  /\ \E o \in Officers : Queued(o)
  /\ \/ sending' = begun(Nobody) /\ UNCHANGED calls
     \/ /\ ~enrolled
        /\ \E c \in Calls : sending' = begun(c) /\ Sends(c, "enroll", session, session)
  /\ UNCHANGED <<sessionVars, cert, enrolled, device, early, together>>
\* (A certificate issued before is answered again; that changes nothing and is left out.)
UploadQueued(o) ==
  /\ sending.who # Nobody /\ sending.call = Nobody /\ o \in sending.todo /\ Queued(o)
  /\ \E c \in Calls :
       /\ sending' = [sending EXCEPT !.todo = @ \ {o}, !.call = c]
       /\ Sends(c, "sign", sending.who, o)
  /\ UNCHANGED <<sessionVars, cert, enrolled, device, early, together>>
\* The connection breaks; the service goes on with the call.
CallDropped ==
  /\ sending.call # Nobody /\ sending' = [sending EXCEPT !.call = Nobody]
  /\ UNCHANGED <<sessionVars, cert, enrolled, calls, device, early, together>>
\* What its backoff holds back, the drain leaves unsent.
DrainEnds ==
  /\ sending.who # Nobody /\ sending.call = Nobody /\ sending' = NoDrain
  /\ UNCHANGED <<sessionVars, cert, enrolled, calls, device, early, together>>
QueueKilled ==
  /\ Kill /\ sending' = NoDrain /\ enrolled' = FALSE
  /\ UNCHANGED <<cert, calls, device, early, together>>

-----------------------------------------------------------------------------
(* The service.  A call that ends is answered, and a drain that waits for    *)
(* it goes on; enrolledThisRun is set by a good answer only, if it comes.  *)
Ends(c, good) ==
  /\ calls' = [calls EXCEPT ![c] = Nobody]
  /\ early' = [o \in Officers |-> early[o] \ {c}]
  /\ \/ /\ sending.call = c /\ sending' = [sending EXCEPT !.call = Nobody]
        /\ enrolled' \in {enrolled, enrolled \/ good}
     \/ sending.call # c /\ UNCHANGED <<sending, enrolled>>

\* resolve_enrollment_status: the first account claims the device, any other waits.
AlwaysActive == "active"   \* bug: any account may use any device
ResolveStatus == IF \E p \in Officers : device[p].status = "active" THEN "pending" ELSE "active"
\* The accounts whose first enrolment has been decided and not yet inserted.
Deciding == {calls[d].by : d \in {e \in Calls : calls[e] # Nobody /\ calls[e].op = "enroll"
                                                /\ calls[e].seen # "nothing"}}
\* enroll: a known row keeps its status, and a revoked one is refused.
EnrollReads(c) ==
  LET o == calls[c].by IN
  /\ calls[c].op = "enroll" /\ calls[c].seen = "nothing"
  /\ \/ /\ device[o].status # "none" /\ Ends(c, device[o].status # "revoked")
        /\ UNCHANGED together
     \/ /\ device[o].status = "none"
        /\ calls' = [calls EXCEPT ![c].seen = ResolveStatus]
        /\ together' = together \cup {{o, p} : p \in Deciding}
        /\ UNCHANGED <<sending, enrolled, early>>
  /\ UNCHANGED <<sessionVars, cert, device>>
\* The primary key is the device and the account: an account has one row, two may have two.
EnrollInserts(c) ==
  LET o == calls[c].by IN
  /\ calls[c].op = "enroll" /\ calls[c].seen # "nothing"
  /\ \/ /\ device[o].status = "none" /\ Ends(c, TRUE)
        /\ device' = [device EXCEPT ![o].status = calls[c].seen]
     \/ device[o].status # "none" /\ Ends(c, FALSE) /\ UNCHANGED device
  /\ UNCHANGED <<sessionVars, cert, together>>

AcceptsAnySender(call) == Enforce => device[call.by].status = "active"   \* bug
\* The service takes a certificate only from the officer it names, and with binding
\* enforced only from a device that is active for the account.
Accepts(call) == call.by = call.on /\ (Enforce => device[call.by].status = "active")
SignChecks(c) ==
  /\ calls[c].op = "sign" /\ calls[c].seen = "nothing"
  /\ Queued(calls[c].on) /\ Accepts(calls[c])
  /\ calls' = [calls EXCEPT ![c].seen = "accepted"]
  /\ UNCHANGED <<sessionVars, cert, sending, enrolled, device, early, together>>
\* The certificate's row, after the signature and the bucket; keys and numbers are unique.
SignCommits(c) ==
  LET call == calls[c] IN
  /\ call.op = "sign" /\ call.seen = "accepted" /\ Queued(call.on)
  /\ cert' = [cert EXCEPT ![call.on] = [state |-> "issued", by |-> call.by]]
  /\ Ends(c, FALSE)
  /\ UNCHANGED <<sessionVars, device, together>>
\* Refused, lost, or died on the way.
CallFails(c) ==
  /\ Ends(c, FALSE)
  /\ UNCHANGED <<sessionVars, cert, device, together>>

\* approve_device and revoke_device, from the admin's side.
ApproveDevice(o) ==
  /\ device[o].status # "none"
  /\ device' = [device EXCEPT ![o] = [status |-> "active", approved |-> TRUE]]
  /\ early' = [early EXCEPT ![o] = {}]
  /\ UNCHANGED <<sessionVars, cert, sending, enrolled, calls, together>>
RevokeDevice(o) ==
  /\ device[o].status # "none" /\ device' = [device EXCEPT ![o].status = "revoked"]
  /\ early' = [early EXCEPT ![o] = {c \in Calls : calls[c] # Nobody /\ calls[c].op = "sign"
                                                     /\ calls[c].by = o}]
  /\ UNCHANGED <<sessionVars, cert, sending, enrolled, calls, together>>

Served(c) == EnrollReads(c) \/ EnrollInserts(c) \/ SignChecks(c) \/ SignCommits(c) \/ CallFails(c)
EnrolNext ==
  \/ SessionStep /\ UNCHANGED enrolVars
  \/ QueueKilled
  \/ SignCertificate \/ DrainBegins \/ CallDropped \/ DrainEnds
  \/ \E c \in Calls : calls[c] # Nobody /\ Served(c)
  \/ \E o \in Officers : UploadQueued(o) \/ ApproveDevice(o) \/ RevokeDevice(o)
EnrolSpec == SessionInit /\ EnrolInit /\ [][EnrolNext]_<<sessionVars, enrolVars>>

-----------------------------------------------------------------------------
(***************************************************************************)
(* However often the phone changes hands between the signature and the     *)
(* upload, a certificate is never lost to another officer's session and is *)
(* issued under the account of the officer it names.  With binding         *)
(* enforced, the device is active for that account when it is issued, or   *)
(* its upload was under way when the account was revoked: a revocation     *)
(* takes hold of every upload that begins after it, whatever was checked,  *)
(* enrolled and approved before (certificates.py).                         *)
(***************************************************************************)
SignedByItsOfficer ==
  [][\A o \in Officers : cert[o] # Nobody =>
       /\ cert'[o] # Nobody /\ cert'[o].by \in {Nobody, o}
       /\ (Enforce /\ cert'[o] # cert[o]) =>
            device[o].status = "active" \/ \E c \in early[o] : calls'[c] # calls[c]
    ]_<<sessionVars, enrolVars>>

(***************************************************************************)
(* Trust on first use (devices.py): two accounts hold the device without   *)
(* an admin's approval only if each enrolled for the first time before the *)
(* other's row was in, and at most one does otherwise, whatever was        *)
(* enrolled again, approved and revoked in between; and a revoked account  *)
(* returns only by an approval.                                            *)
(***************************************************************************)
TrustOnFirstUse ==
  [][/\ \A o, p \in {q \in Officers : device'[q].status = "active" /\ ~device'[q].approved} :
          o # p => {o, p} \in together'
     /\ \A o \in Officers :
          device[o].status = "revoked" /\ device'[o].status = "active" => device'[o].approved
    ]_<<sessionVars, enrolVars>>
=================================================================================
