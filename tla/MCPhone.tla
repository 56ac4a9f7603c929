------------------------------- MODULE MCPhone --------------------------------
(***************************************************************************)
(* Bounded instances of four sides of one phone that share no state here   *)
(* and are checked side by side: the capture of a verification up to the   *)
(* service's content checks (Verification), the sign queue under every     *)
(* fault (SignPipeline), the device's enrolment under the accounts that    *)
(* sign in on it (DeviceEnrolment), and the work list on its tabs          *)
(* (WorkList), once the list as officers and answers come and go, once the *)
(* cards with the certificates that ride on them.  A behaviour is of one   *)
(* side, and the others rest.                                              *)
(***************************************************************************)
EXTENDS MCSignPipeline, Verification, DeviceEnrolment, WorkList

CONSTANTS w1, w2, s1, k1, k2, o1, o2, t1, q1, q2

VARIABLE side

\* One officer's job is signed off, the other's is set out for.
MCBook == o1 :> << w1 :> "started" @@ w2 :> "paused", w1 :> "signed_off" >>
       @@ o2 :> << w2 :> "not_started", w2 :> "on_the_way" >>
MCSiteOf == w1 :> s1 @@ w2 :> s1
MCJobOf  == k1 :> w2 @@ k2 :> Nothing

\* The list without certificates and register, one officer's changing and Home in front;
\* the cards with one officer, whose requests are answered one at a time, and no gate.
ListAlone ==
  /\ ListNext /\ UNCHANGED <<certs, searching, siteList>> /\ lists'[o2] = 1
  /\ user' # Nothing => focus' = "home"
CardsAlone ==
  /\ ListNext
  /\ visit' <= 1 /\ drops' = 0 /\ Cardinality(flights') <= 1
  /\ gate'.step # "race" /\ lists'[o2] = 1

\* The places for requests are alike: they fill in order.
QueueAlone ==
  LET first == CHOOSE r \in Reqs : TRUE IN
  /\ Next
  /\ \A r \in Reqs \ {first} :
       handler[r].pc = "idle" /\ handler'[r].pc # "idle" => handler[first].pc # "idle"

\* The accounts that sign on the device; a session is restored and refreshed between drains
\* and calls, and changes only while a place for a call is free; an admin approves one
\* account, and one upload is under way at once.  The accounts are alike, and so are the
\* places for calls: t1 signs in first, and the places fill in order.
DeviceAlone ==
  /\ EnrolNext
  /\ asking' # {} \/ restoring' # Nobody =>
       sending' = NoDrain /\ \A c \in Calls : calls'[c] = Nobody
  /\ session' # session => \E c \in Calls : calls[c] = Nobody
  /\ Cardinality({o \in Officers : device'[o].approved}) <= 1
  /\ Cardinality({c \in Calls : calls'[c] # Nobody /\ calls'[c].op = "sign"}) <= 1
  /\ users' \subseteq {t1} \/ t1 \in users
  /\ calls'[q2] # Nobody /\ calls[q2] = Nobody => calls[q1] # Nobody

PhoneInit ==
  /\ side \in {"capture", "queue", "device", "list", "cards"}
  /\ CaptureInit /\ Init /\ SessionInit /\ EnrolInit /\ ListInit
  /\ side # "capture" => plate = 80 /\ row.form = None
PhoneNext ==
  /\ UNCHANGED side
  /\ \/ /\ side = "capture" /\ CaptureNext
        /\ UNCHANGED <<vars, sessionVars, enrolVars, listVars>>
     \/ /\ side = "queue" /\ QueueAlone
        /\ UNCHANGED <<captureVars, sessionVars, enrolVars, listVars>>
     \/ /\ side = "device" /\ DeviceAlone
        /\ UNCHANGED <<captureVars, vars, listVars>>
     \/ /\ \/ side = "list"  /\ ListAlone
           \/ side = "cards" /\ CardsAlone
        /\ UNCHANGED <<captureVars, vars, sessionVars, enrolVars>>
PhoneSpec ==
  PhoneInit /\ [][PhoneNext]_<<side, captureVars, vars, sessionVars, enrolVars, listVars>>
===============================================================================
