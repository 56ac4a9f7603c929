-------------------------- MODULE SignPipelineProofs --------------------------
(***************************************************************************)
(* What is issued is what was approved, and what a device shows as signed  *)
(* is issued: the sign queue of one device and the service it uploads to,  *)
(* for any number of records, requests, keys, versions and faults.         *)
(*                                                                         *)
(* Neither holds step by step: the record may be edited, discarded or      *)
(* queued again while its package is on the way.  What carries them is     *)
(* that a key stands for one approved form wherever it travels (Given: the *)
(* record, the drain's snapshot, the handler, the certificate), and that a *)
(* record never changes its number once it has one (Held), so whatever     *)
(* names the record in memory still names it when it is used (Names).      *)
(*                                                                         *)
(* The composition is also shown to be a behaviour of the service alone    *)
(* (PipelineIsService), which carries the service's theorems over to it.   *)
(***************************************************************************)
EXTENDS SignPipeline, SignServiceProofs

Sealed   == {"QUEUED_FOR_SIGNING", "UPLOADING", "SIGNED", "SYNCED"}

\* The form f was approved with the key k; ap and n are the approvals and the next key.
Given(k, f, ap, n) == k \in Keys /\ k < n /\ ap[k] = f /\ f \in Form /\ f.num # 0

\* What f carries of the record g: no number, or that of the record.
Names(f, g) == g.state = "gone" \/ f.num \in {0, g.num}

\* What every step does to a record: it keeps its number once it has one, and stays gone.
Held(g, h) == /\ g.state = "gone" => h.state = "gone"
              /\ h.state = "gone" \/ g.num = 0 \/ h.num = g.num

Submission(h) == [num |-> h.num, ver |-> h.ver]

KeysFit == nextKey \in Nat \ {0} /\ approved \in [Keys -> MaybeForm]

IssuesGiven == \A row \in rows : Given(row.key, Submission(row), approved, nextKey)

RequestsGiven ==
  \A r \in Reqs : handler[r].pc \in InFlight =>
    Given(handler[r].key, Submission(handler[r]), approved, nextKey)

Sound(g, ap, n) ==
  /\ g.state = "none" => g.num = 0
  /\ g.state \in States => g.form \in Form /\ g.form.num \in {0, g.num}
  /\ g.state \in Sealed => Given(g.key, g.form, ap, n)

\* SignedIsIssued for one record, with the certificates R and the audit events A.
Shown(g, R, A) ==
  /\ g.state \in {"SIGNED", "SYNCED"} => \E row \in R : row.num = g.num /\ row.sig = g.signed
  /\ g.state = "SYNCED" => Event("sync_confirmed", g.num, 0) \in A

RecordsFit ==
  /\ rec \in [Certs -> Record]
  /\ \A c \in Certs : Sound(rec[c], approved, nextKey) /\ Shown(rec[c], rows, audit)

Carried == Form \cup {NoForm}

ScreensFit ==
  /\ screen \in [Certs -> Carried] /\ enq \in [Certs -> Carried]
  /\ \A c \in Certs : /\ enq[c] # NoForm => enq[c].num # 0
                      /\ Names(screen[c], rec[c]) /\ Names(enq[c], rec[c])

DrainType == [pc : {"idle", "items", "wait", "receipt", "confirm"}, todo : SUBSET Item,
              cert : Certs, slot : Reqs \cup {0}, num : Numbers \cup {0}]

\* A snapshot's item: its number is the record's; until the items are done, its form was approved.
ItemFits(item, listing, g, ap, n) ==
  /\ Names(item, g)
  /\ ~listing => Given(item.key, item.form, ap, n) /\ Names(item.form, g)

DrainFits ==
  /\ drain \in DrainType
  /\ \A item \in drain.todo :
       ItemFits(item, drain.pc = "confirm", rec[item.cert], approved, nextKey)
  /\ drain.pc = "wait" => /\ drain.slot \in Reqs
                          /\ handler[drain.slot].pc # "idle"
                          /\ Names(handler[drain.slot], rec[drain.cert])
  /\ drain.pc = "receipt" => Names(drain, rec[drain.cert])

PInv == /\ IInv /\ KeysFit /\ IssuesGiven /\ RequestsGiven
        /\ RecordsFit /\ ScreensFit /\ DrainFits /\ faults \in Nat


-----------------------------------------------------------------------------
LEMMA FormIsMaybe == Form \subseteq MaybeForm /\ NoForm \in MaybeForm
BY DEF Form, MaybeForm, NoForm

LEMMA NoRecordType ==
  /\ NoRecord \in Record
  /\ NoRecord.state = "none" /\ NoRecord.num = 0
BY FormIsMaybe DEF NoRecord, Record

LEMMA DrainIdleType == DrainIdle \in DrainType /\ DrainIdle.pc = "idle" /\ DrainIdle.todo = {}
BY CertsAssumption DEF DrainIdle, DrainType

LEMMA InitPInv == Init => PInv
<1> SUFFICES ASSUME Init PROVE PInv
  OBVIOUS
<1>1. IInv
  BY InitIInv DEF Init
<1>2. KeysFit
  BY FormIsMaybe DEF Init, KeysFit
<1>3. IssuesGiven /\ RequestsGiven
  BY IdleType DEF Init, ServerInit, IssuesGiven, RequestsGiven, InFlight
<1>4. RecordsFit
  BY NoRecordType DEF Init, RecordsFit, Sound, Shown, States, DraftStates, Sealed
<1>5. ScreensFit
  BY NoRecordType DEF Init, ScreensFit, Carried, Names, NoForm
<1>6. DrainFits
  BY DrainIdleType DEF Init, DrainFits
<1> QED
  BY <1>1, <1>2, <1>3, <1>4, <1>5, <1>6 DEF Init, PInv

(* What names a record goes on naming it.                                  *)
LEMMA NamesStay ==
  ASSUME NEW f, NEW g, NEW h, Names(f, g), Held(g, h)
  PROVE  Names(f, h)
BY DEF Names, Held

LEMMA HeldItself == \A g : Held(g, g)
BY DEF Held

-----------------------------------------------------------------------------
(* Keys are fresh: what was approved with a key stays approved with it.    *)

KeysGrow ==
  /\ KeysFit'
  /\ \A k, f : Given(k, f, approved, nextKey) => Given(k, f, approved', nextKey')

LEMMA KeysStay ==
  ASSUME KeysFit, UNCHANGED <<nextKey, approved>>
  PROVE  KeysGrow
BY DEF KeysFit, KeysGrow

LEMMA FreshKey ==
  ASSUME KeysFit, NEW f \in Form, f.num # 0, nextKey \in Keys,
         approved' = [approved EXCEPT ![nextKey] = f], nextKey' = nextKey + 1
  PROVE  KeysGrow /\ Given(nextKey, f, approved', nextKey')
<1>1. KeysFit'
  BY FormIsMaybe DEF KeysFit
<1>2. Given(nextKey, f, approved', nextKey')
  BY DEF KeysFit, Given
<1>3. ASSUME NEW k, NEW e, Given(k, e, approved, nextKey)
      PROVE  Given(k, e, approved', nextKey')
  <2>1. k \in Keys /\ k \in Nat /\ nextKey \in Nat /\ k < nextKey
    BY <1>3, KeysAssumption DEF Given, KeysFit
  <2>2. k # nextKey /\ k < nextKey'
    BY <2>1
  <2> QED
    BY <1>3, <2>1, <2>2 DEF Given, KeysFit
<1> QED
  BY <1>1, <1>2, <1>3 DEF KeysGrow

-----------------------------------------------------------------------------
(* The service's side of a step.                                           *)

\* What the service does while nothing is submitted and no slot is freed.
Quiet ==
  \/ UNCHANGED serverVars
  \/ \E n \in Numbers : ReserveNumber(n) \/ Receipt(n)
  \/ \E r \in Reqs : Progress(r) \/ Trouble(r)

LEMMA QuietIsService == Quiet => [ServerNext]_serverVars
BY DEF Quiet, ServerNext

(* The audit trail only grows.                                             *)
LEMMA AuditGrows == [ServerNext]_serverVars => audit \subseteq audit'
BY DEF ServerNext, serverVars, ReserveNumber, FetchPdf, Receipt, Submit, Progress, Trouble,
       Hangup, CheckKey, CheckNumber, SignAndStore, Commit, Respond, RefuseEarly, RespondFails,
       HandlerCrash, Refuse, StoreFails

(* A certificate that is new is the submission of a handler in flight.     *)
LEMMA IssuedByRequest ==
  ASSUME [ServerNext]_serverVars, NEW row \in rows' \ rows
  PROVE  \E r \in Reqs : /\ handler[r].pc = "stored"
                         /\ row.key = handler[r].key /\ Submission(row) = Submission(handler[r])
<1>1. ASSUME NEW r \in Reqs, Commit(r)
      PROVE  /\ handler[r].pc = "stored"
             /\ row.key = handler[r].key /\ Submission(row) = Submission(handler[r])
  <2>1. row = [key |-> handler[r].key, num |-> handler[r].num,
               ver |-> handler[r].ver, sig |-> handler[r].sig]
    BY <1>1 DEF Commit
  <2> QED
    BY <1>1, <2>1 DEF Commit, Submission
<1>2. \E r \in Reqs : Commit(r)
  BY DEF ServerNext, serverVars, ReserveNumber, FetchPdf, Receipt, Submit, Progress, Trouble,
         Hangup, CheckKey, CheckNumber, SignAndStore, Respond, RefuseEarly, RespondFails,
         HandlerCrash, Refuse, StoreFails
<1> QED
  BY <1>1, <1>2

(* A handler at work keeps its submission, the number of its answer too:   *)
(* the certificate it replays was issued for the same approved form.       *)
LEMMA WorkKeeps ==
  ASSUME IInv, IssuesGiven, RequestsGiven, NEW q \in Reqs, Progress(q) \/ Trouble(q)
  PROVE  /\ \A r \in Reqs : r # q => handler'[r] = handler[r]
         /\ handler[q].pc # "idle" /\ handler'[q].pc # "idle"
         /\ handler'[q].num = handler[q].num
         /\ handler'[q].pc \in InFlight =>
              /\ handler[q].pc \in InFlight /\ handler'[q].key = handler[q].key
              /\ Submission(handler'[q]) = Submission(handler[q])
<1> DEFINE Kept == /\ \A r \in Reqs : r # q => handler'[r] = handler[r]
                   /\ handler[q].pc # "idle" /\ handler'[q].pc # "idle"
                   /\ handler'[q].num = handler[q].num
                   /\ handler'[q].pc \in InFlight =>
                        /\ handler[q].pc \in InFlight /\ handler'[q].key = handler[q].key
                        /\ Submission(handler'[q]) = Submission(handler[q])
<1> SUFFICES Kept
  OBVIOUS
<1>1. handler \in [Reqs -> Handler] /\ handler[q] \in Handler
  BY DEF IInv, ServiceTypeOK
<1>2. CASE Trouble(q)
  <2>1. PICK status : Fail(q, status)
    BY <1>2 DEF Trouble, RefuseEarly, RespondFails, HandlerCrash, Refuse, StoreFails
  <2>2. handler[q].pc # "idle"
    BY <1>2 DEF Trouble, RefuseEarly, RespondFails, HandlerCrash, Refuse, StoreFails
  <2>3. handler' = [handler EXCEPT ![q] = [handler[q] EXCEPT !.pc = "done", !.status = status]]
    BY <2>1 DEF Fail
  <2> QED
    BY <1>1, <2>2, <2>3 DEF Handler, InFlight
<1>3. CASE CheckKey(q)
  <2>1. CASE handler' = [handler EXCEPT ![q].pc = "keyFree"]
    BY <1>1, <1>3, <2>1 DEF Handler, InFlight, Submission, CheckKey
  <2>2. ASSUME NEW row \in KeyRows(q),
               handler' = [handler EXCEPT ![q].pc = "respond", ![q].num = row.num,
                                          ![q].sig = row.sig]
        PROVE  Kept
    <3>1. handler[q].pc = "received" /\ handler[q].pc \in InFlight
      BY <1>3 DEF CheckKey, InFlight
    <3>2. row \in rows /\ row.key = handler[q].key
      BY <2>2 DEF KeyRows
    <3>3. Submission(row) = approved[row.key]
      BY <3>2 DEF IssuesGiven, Given
    <3>4. Submission(handler[q]) = approved[handler[q].key]
      BY <3>1 DEF RequestsGiven, Given
    <3>5. Submission(row).num = row.num /\ Submission(handler[q]).num = handler[q].num
      BY DEF Submission
    <3>6. row.num = handler[q].num
      BY <3>2, <3>3, <3>4, <3>5
    <3>7. /\ \A r \in Reqs : r # q => handler'[r] = handler[r]
          /\ handler'[q].pc = "respond" /\ handler'[q].num = row.num
      BY <1>1, <2>2 DEF Handler
    <3> QED
      BY <3>1, <3>6, <3>7 DEF InFlight
  <2> QED
    BY <1>3, <2>1, <2>2 DEF CheckKey
<1>4. CASE CheckNumber(q)
  BY <1>1, <1>4 DEF CheckNumber, Fail, Handler, InFlight, Submission
<1>5. CASE SignAndStore(q)
  BY <1>1, <1>5 DEF SignAndStore, Handler, InFlight, Submission
<1>6. CASE Commit(q)
  BY <1>1, <1>6 DEF Commit, Fail, Handler, InFlight, Submission
<1>7. CASE Respond(q)
  BY <1>1, <1>7 DEF Respond, Handler, InFlight, Submission
<1> QED
  BY <1>2, <1>3, <1>4, <1>5, <1>6, <1>7 DEF Progress


(* What becomes of the submissions and the certificates in a step of the   *)
(* service: a request keeps its approved form or has just been given one.  *)
LEMMA ServiceFits ==
  ASSUME IInv, IssuesGiven, RequestsGiven, KeysGrow, [ServerNext]_serverVars,
         \A r \in Reqs : handler'[r].pc \in InFlight =>
           \/ /\ handler[r].pc \in InFlight /\ handler'[r].key = handler[r].key
              /\ Submission(handler'[r]) = Submission(handler[r])
           \/ Given(handler'[r].key, Submission(handler'[r]), approved, nextKey)
  PROVE  /\ IInv' /\ IssuesGiven' /\ RequestsGiven'
         /\ rows \subseteq rows' /\ audit \subseteq audit'
<1>1. IInv' /\ rows \subseteq rows' /\ audit \subseteq audit'
  BY NextKeeps, RowsGrow, AuditGrows
<1>2. RequestsGiven'
  BY DEF RequestsGiven, KeysGrow
<1>3. ASSUME NEW row \in rows'
      PROVE  Given(row.key, Submission(row), approved', nextKey')
  <2>1. CASE row \in rows
    BY <2>1 DEF IssuesGiven, KeysGrow
  <2>2. CASE row \notin rows
    <3>1. PICK r \in Reqs : /\ handler[r].pc = "stored"
                            /\ row.key = handler[r].key
                            /\ Submission(row) = Submission(handler[r])
      BY <2>2, IssuedByRequest
    <3> QED
      BY <3>1 DEF RequestsGiven, KeysGrow, InFlight
  <2> QED
    BY <2>1, <2>2
<1> QED
  BY <1>1, <1>2, <1>3 DEF IssuesGiven

LEMMA QuietFits ==
  ASSUME IInv, IssuesGiven, RequestsGiven, KeysGrow, Quiet
  PROVE  /\ IInv' /\ IssuesGiven' /\ RequestsGiven'
         /\ rows \subseteq rows' /\ audit \subseteq audit'
         /\ \A r \in Reqs : handler[r].pc # "idle" =>
              handler'[r].pc # "idle" /\ handler'[r].num = handler[r].num
<1>1. ASSUME NEW q \in Reqs, Progress(q) \/ Trouble(q), NEW r \in Reqs
      PROVE  /\ handler[r].pc # "idle" =>
                  handler'[r].pc # "idle" /\ handler'[r].num = handler[r].num
             /\ handler'[r].pc \in InFlight =>
                  /\ handler[r].pc \in InFlight /\ handler'[r].key = handler[r].key
                  /\ Submission(handler'[r]) = Submission(handler[r])
  <2>1. CASE r = q
    BY <1>1, <2>1, WorkKeeps
  <2>2. CASE r # q
    <3>1. handler'[r] = handler[r]
      BY <1>1, <2>2, WorkKeeps
    <3> QED
      BY <3>1
  <2> QED
    BY <2>1, <2>2
<1>2. CASE UNCHANGED serverVars \/ \E n \in Numbers : ReserveNumber(n) \/ Receipt(n)
  <2>1. handler' = handler
    BY <1>2 DEF serverVars, ReserveNumber, Receipt
  <2> QED
    BY <2>1, ServiceFits, QuietIsService
<1>3. CASE \E q \in Reqs : Progress(q) \/ Trouble(q)
  BY <1>1, <1>3, ServiceFits, QuietIsService
<1> QED
  BY <1>2, <1>3 DEF Quiet

LEMMA HangupFits ==
  ASSUME IInv, IssuesGiven, RequestsGiven, KeysGrow, NEW q \in Reqs, Hangup(q)
  PROVE  /\ IInv' /\ IssuesGiven' /\ RequestsGiven'
         /\ rows \subseteq rows' /\ audit \subseteq audit'
         /\ \A r \in Reqs : r # q => handler'[r] = handler[r]
<1>1. handler \in [Reqs -> Handler]
  BY DEF IInv, ServiceTypeOK
<1>2. /\ \A r \in Reqs : r # q => handler'[r] = handler[r]
      /\ handler'[q].pc = "idle"
  BY <1>1, IdleType DEF Hangup
<1>3. [ServerNext]_serverVars
  BY DEF ServerNext
<1>4. ASSUME NEW r \in Reqs, handler'[r].pc \in InFlight
      PROVE  handler'[r] = handler[r]
  BY <1>2, <1>4 DEF InFlight
<1> QED
  BY <1>2, <1>3, <1>4, ServiceFits

LEMMA SubmitFits ==
  ASSUME IInv, IssuesGiven, RequestsGiven, KeysGrow, NEW q \in Reqs, NEW k, NEW f,
         Given(k, f, approved, nextKey), Submit(q, k, f.num, f.ver)
  PROVE  /\ IInv' /\ IssuesGiven' /\ RequestsGiven'
         /\ rows \subseteq rows' /\ audit \subseteq audit'
         /\ handler'[q].pc # "idle" /\ handler'[q].num = f.num
<1>1. handler \in [Reqs -> Handler] /\ NoRequest \in Handler
  BY IdleType DEF IInv, ServiceTypeOK
<1>2. k \in Keys /\ f.num \in Numbers /\ f.ver \in Versions
  BY DEF Given, Form
<1>3. [ServerNext]_serverVars
  BY <1>2 DEF ServerNext
<1> DEFINE h == [NoRequest EXCEPT !.pc = "received", !.key = k, !.num = f.num, !.ver = f.ver]
<1>4. h.pc = "received" /\ h.key = k /\ h.num = f.num /\ h.ver = f.ver
  BY <1>1 DEF Handler
<1>5. handler' = [handler EXCEPT ![q] = h]
  BY DEF Submit
<1> HIDE DEF h
<1>6. /\ \A r \in Reqs : r # q => handler'[r] = handler[r]
      /\ handler'[q] = h
  BY <1>1, <1>5
<1>7. Submission(h) = f
  BY <1>4 DEF Submission, Given, Form
<1>8. Given(handler'[q].key, Submission(handler'[q]), approved, nextKey)
  BY <1>4, <1>6, <1>7
<1>9. ASSUME NEW r \in Reqs, r # q
      PROVE  handler'[r] = handler[r]
  BY <1>6, <1>9
<1>10. /\ IInv' /\ IssuesGiven' /\ RequestsGiven'
       /\ rows \subseteq rows' /\ audit \subseteq audit'
  BY <1>3, <1>8, <1>9, ServiceFits
<1> QED
  BY <1>4, <1>6, <1>10

-----------------------------------------------------------------------------
(* The device's side of a step.                                            *)

RecordsHeld == \A c \in Certs : Held(rec[c], rec'[c])

\* The service's tables and the keys have only grown.
Grown == KeysGrow /\ rows \subseteq rows' /\ audit \subseteq audit'

LEMMA StillSound ==
  ASSUME Grown, NEW g, Sound(g, approved, nextKey)
  PROVE  Sound(g, approved', nextKey')
BY DEF Grown, KeysGrow, Sound

LEMMA StillShown ==
  ASSUME Grown, NEW g, Shown(g, rows, audit)
  PROVE  Shown(g, rows', audit')
BY DEF Grown, Shown

LEMMA RecordsStay ==
  ASSUME RecordsFit, Grown, rec' = rec
  PROVE  RecordsFit' /\ RecordsHeld
<1>1. RecordsHeld
  BY HeldItself DEF RecordsHeld
<1>2. ASSUME NEW c \in Certs
      PROVE  Sound(rec'[c], approved', nextKey') /\ Shown(rec'[c], rows', audit')
  BY StillSound, StillShown DEF RecordsFit
<1> QED
  BY <1>1, <1>2 DEF RecordsFit

LEMMA RecordMoves ==
  ASSUME RecordsFit, Grown, NEW c \in Certs, NEW h \in Record, rec' = [rec EXCEPT ![c] = h],
         Sound(h, approved', nextKey'), Shown(h, rows', audit'), Held(rec[c], h)
  PROVE  RecordsFit' /\ RecordsHeld
<1>1. /\ rec' \in [Certs -> Record] /\ rec'[c] = h
      /\ \A d \in Certs : d # c => rec'[d] = rec[d]
  BY DEF RecordsFit
<1>2. ASSUME NEW d \in Certs
      PROVE  /\ Sound(rec'[d], approved', nextKey') /\ Shown(rec'[d], rows', audit')
             /\ Held(rec[d], rec'[d])
  <2>1. CASE d = c
    BY <1>1, <2>1
  <2>2. CASE d # c
    BY <1>1, <2>2, StillSound, StillShown, HeldItself DEF RecordsFit
  <2> QED
    BY <2>1, <2>2
<1> QED
  BY <1>1, <1>2 DEF RecordsFit, RecordsHeld

LEMMA ScreensStay ==
  ASSUME ScreensFit, RecordsHeld, UNCHANGED <<screen, enq>>
  PROVE  ScreensFit'
BY NamesStay DEF ScreensFit, RecordsHeld

(* The items a drain still has to do fit the records after the step.       *)
LEMMA ItemsStay ==
  ASSUME DrainFits, RecordsHeld, KeysGrow, drain' \in DrainType, drain'.todo \subseteq drain.todo,
         drain'.pc = "confirm" <=> drain.pc = "confirm"
  PROVE  \A item \in drain'.todo :
           ItemFits(item, drain'.pc = "confirm", rec'[item.cert], approved', nextKey')
<1> TAKE item \in drain'.todo
<1>1. item \in drain.todo /\ item.cert \in Certs
  BY DEF DrainFits, DrainType, Item
<1>2. Names(item, rec[item.cert]) /\ Held(rec[item.cert], rec'[item.cert])
  BY <1>1 DEF DrainFits, ItemFits, RecordsHeld
<1>3. Names(item, rec'[item.cert])
  BY <1>2, NamesStay
<1>4. CASE drain.pc = "confirm"
  BY <1>3, <1>4 DEF ItemFits
<1>5. CASE drain.pc # "confirm"
  <2>1. Given(item.key, item.form, approved, nextKey) /\ Names(item.form, rec[item.cert])
    BY <1>1, <1>5 DEF DrainFits, ItemFits
  <2>2. Given(item.key, item.form, approved', nextKey') /\ Names(item.form, rec'[item.cert])
    BY <1>2, <2>1, NamesStay DEF KeysGrow
  <2> QED
    BY <1>3, <2>2 DEF ItemFits
<1> QED
  BY <1>4, <1>5

LEMMA DrainStays ==
  ASSUME DrainFits, RecordsHeld, KeysGrow, drain' = drain,
         drain.pc = "wait" /\ handler[drain.slot].pc # "idle" =>
           /\ handler'[drain.slot].pc # "idle"
           /\ handler'[drain.slot].num = handler[drain.slot].num
  PROVE  DrainFits'
<1>1. drain' \in DrainType /\ drain.cert \in Certs
  BY DEF DrainFits, DrainType
<1>2. \A item \in drain'.todo :
        ItemFits(item, drain'.pc = "confirm", rec'[item.cert], approved', nextKey')
  BY <1>1, ItemsStay
<1>3. drain.pc = "wait" => /\ drain.slot \in Reqs
                           /\ handler'[drain.slot].pc # "idle"
                           /\ Names(handler'[drain.slot], rec'[drain.cert])
  <2> SUFFICES ASSUME drain.pc = "wait"
               PROVE  /\ drain.slot \in Reqs
                      /\ handler'[drain.slot].pc # "idle"
                      /\ Names(handler'[drain.slot], rec'[drain.cert])
    OBVIOUS
  <2>1. Names(handler[drain.slot], rec[drain.cert]) /\ Held(rec[drain.cert], rec'[drain.cert])
    BY <1>1 DEF DrainFits, RecordsHeld
  <2>2. Names(handler[drain.slot], rec'[drain.cert])
    BY <2>1, NamesStay
  <2> QED
    BY <2>2 DEF DrainFits, Names
<1>4. drain.pc = "receipt" => Names(drain, rec'[drain.cert])
  BY <1>1, NamesStay DEF DrainFits, RecordsHeld
<1> QED
  BY <1>1, <1>2, <1>3, <1>4 DEF DrainFits


-----------------------------------------------------------------------------
(* The steps of the screens.                                               *)

LEMMA QuietStep ==
  ASSUME PInv, Quiet, UNCHANGED <<nextKey, approved>>
  PROVE  /\ Grown /\ KeysFit' /\ IInv' /\ IssuesGiven' /\ RequestsGiven'
         /\ \A r \in Reqs : handler[r].pc # "idle" =>
              handler'[r].pc # "idle" /\ handler'[r].num = handler[r].num
BY KeysStay, QuietFits DEF PInv, Grown, KeysGrow

LEMMA QuietDrain ==
  ASSUME PInv, Quiet, UNCHANGED <<nextKey, approved, drain>>, RecordsHeld
  PROVE  DrainFits'
<1>1. /\ KeysGrow
      /\ \A r \in Reqs : handler[r].pc # "idle" =>
              handler'[r].pc # "idle" /\ handler'[r].num = handler[r].num
  BY QuietStep DEF Grown
<1>2. drain.pc = "wait" => drain.slot \in Reqs
  BY DEF PInv, DrainFits
<1> QED
  BY <1>1, <1>2, DrainStays DEF PInv

LEMMA ScreenMoves ==
  ASSUME ScreensFit, RecordsHeld, NEW c \in Certs, NEW f \in Carried, NEW e \in Carried,
         screen' = [screen EXCEPT ![c] = f], enq' = [enq EXCEPT ![c] = e],
         e # NoForm => e.num # 0, Names(f, rec'[c]), Names(e, rec'[c])
  PROVE  ScreensFit'
<1>1. /\ screen' \in [Certs -> Carried] /\ enq' \in [Certs -> Carried]
      /\ screen'[c] = f /\ enq'[c] = e
      /\ \A d \in Certs : d # c => screen'[d] = screen[d] /\ enq'[d] = enq[d]
  BY DEF ScreensFit
<1>2. ASSUME NEW d \in Certs
      PROVE  /\ enq'[d] # NoForm => enq'[d].num # 0
             /\ Names(screen'[d], rec'[d]) /\ Names(enq'[d], rec'[d])
  <2>1. CASE d = c
    BY <1>1, <2>1
  <2>2. CASE d # c
    BY <1>1, <2>2, NamesStay DEF ScreensFit, RecordsHeld
  <2> QED
    BY <2>1, <2>2
<1> QED
  BY <1>1, <1>2 DEF ScreensFit

(* A new record, with the number that was reserved for it or none.         *)
LEMMA StartVerificationKeeps ==
  ASSUME PInv, NEW c \in Certs, StartVerification(c)
  PROVE  PInv'
<1>1. Quiet /\ UNCHANGED <<enq, drain, nextKey, approved>> /\ rec[c].state = "none"
  BY DEF StartVerification, Quiet
<1>2. PICK n \in Numbers \cup {0} :
        LET form == [num |-> n, ver |-> AnyVersion] IN
          /\ rec' = [rec EXCEPT ![c].state = "DRAFT", ![c].num = n, ![c].form = form]
          /\ screen' = [screen EXCEPT ![c] = form]
  BY DEF StartVerification
<1> DEFINE form == [num |-> n, ver |-> AnyVersion]
           h    == [rec[c] EXCEPT !.state = "DRAFT", !.num = n, !.form = form]
<1>3. form \in Form /\ form \in Carried /\ form \in MaybeForm /\ form.num = n
  BY VersionsAssumption DEF Form, Carried, MaybeForm, AnyVersion
<1>4. rec[c] \in Record /\ rec[c].num = 0 /\ n \in Numbers \cup {0}
  BY <1>1 DEF PInv, RecordsFit, Sound
<1> HIDE DEF form
<1>5. h \in Record /\ h.state = "DRAFT" /\ h.num = n /\ h.form = form
  BY <1>3, <1>4 DEF Record, States, DraftStates
<1>6. rec' = [rec EXCEPT ![c] = h] /\ screen' = [screen EXCEPT ![c] = form]
  BY <1>2 DEF form
<1> HIDE DEF h
<1>7. /\ Sound(h, approved', nextKey') /\ Shown(h, rows', audit') /\ Held(rec[c], h)
  BY <1>1, <1>3, <1>4, <1>5 DEF Sound, Shown, Held, States, DraftStates, Sealed
<1>8. RecordsFit' /\ RecordsHeld
  BY <1>1, <1>5, <1>6, <1>7, RecordMoves, QuietStep DEF PInv
<1>9. rec'[c] = h
  BY <1>6 DEF PInv, RecordsFit
<1>10. ScreensFit'
  <2>1. enq[c] \in Carried /\ (enq[c] # NoForm => enq[c].num # 0) /\ Names(enq[c], rec'[c])
    BY <1>8, NamesStay DEF PInv, ScreensFit, RecordsHeld
  <2>2. enq' = [enq EXCEPT ![c] = enq[c]]
    BY <1>1 DEF PInv, ScreensFit
  <2>3. Names(form, rec'[c])
    BY <1>3, <1>5, <1>9 DEF Names
  <2> QED
    BY <1>3, <1>6, <1>8, <2>1, <2>2, <2>3, ScreenMoves DEF PInv
<1>11. faults' \in Nat
  BY DEF PInv, StartVerification, Fault
<1> QED
  BY <1>1, <1>8, <1>10, <1>11, QuietStep, QuietDrain DEF PInv

(* Screens open and close; what they show is the stored form.              *)
LEMMA OpeningKeeps ==
  ASSUME PInv, NEW c \in Certs, OpenResults(c) \/ LeaveScreen(c) \/ EnqueueFails(c)
  PROVE  PInv'
<1>1. /\ UNCHANGED <<serverVars, rec, drain, nextKey, approved, faults>>
      /\ Quiet
  BY DEF OpenResults, LeaveScreen, EnqueueFails, Quiet
<1>2. RecordsFit' /\ RecordsHeld
  BY <1>1, RecordsStay, QuietStep DEF PInv
<1>3. /\ screen[c] \in Carried /\ enq[c] \in Carried /\ (enq[c] # NoForm => enq[c].num # 0)
      /\ Names(screen[c], rec'[c]) /\ Names(enq[c], rec'[c])
      /\ screen = [screen EXCEPT ![c] = screen[c]] /\ enq = [enq EXCEPT ![c] = enq[c]]
  BY <1>1 DEF PInv, ScreensFit
<1>4. NoForm \in Carried /\ Names(NoForm, rec'[c])
  BY DEF NoForm, Carried, Names
<1>5. CASE OpenResults(c)
  <2>1. rec[c].form \in Carried /\ Names(rec[c].form, rec'[c])
    BY <1>1, <1>5 DEF PInv, RecordsFit, Sound, Carried, Names, OpenResults, States
  <2>2. ScreensFit'
    BY <1>2, <1>3, <1>5, <2>1, ScreenMoves DEF OpenResults, PInv
  <2> QED
    BY <1>1, <1>2, <2>2, QuietStep, QuietDrain DEF PInv
<1>6. CASE LeaveScreen(c)
  <2>1. ScreensFit'
    BY <1>2, <1>3, <1>4, <1>6, ScreenMoves DEF LeaveScreen, PInv
  <2> QED
    BY <1>1, <1>2, <2>1, QuietStep, QuietDrain DEF PInv
<1>7. CASE EnqueueFails(c)
  <2>1. ScreensFit'
    BY <1>2, <1>3, <1>4, <1>7, ScreenMoves DEF EnqueueFails, PInv
  <2> QED
    BY <1>1, <1>2, <2>1, QuietStep, QuietDrain DEF PInv
<1> QED
  BY <1>5, <1>6, <1>7

(* Saving a form that names the record leaves a draft of it.               *)
LEMMA SaveFits ==
  ASSUME PInv, Grown, NEW c \in Certs, NEW f \in Form, Names(f, rec[c]), SaveDraftForm(c, f)
  PROVE  RecordsFit' /\ RecordsHeld
<1>1. CASE ~Exists(c)
  BY <1>1, RecordsStay DEF SaveDraftForm, PInv
<1>2. CASE Exists(c)
  <2> DEFINE h == [rec[c] EXCEPT !.form = f, !.state = "DRAFT"]
  <2>1. rec[c] \in Record /\ f \in MaybeForm
    BY FormIsMaybe DEF PInv, RecordsFit
  <2>2. h \in Record /\ h.state = "DRAFT" /\ h.form = f /\ h.num = rec[c].num
    BY <2>1 DEF Record, States, DraftStates
  <2>3. rec' = [rec EXCEPT ![c] = h]
    BY <1>2 DEF SaveDraftForm
  <2> HIDE DEF h
  <2>4. f.num \in {0, h.num} /\ rec[c].state \notin {"none", "gone"}
    BY <1>2, <2>2 DEF Names, Exists, States, DraftStates
  <2>5. Sound(h, approved', nextKey') /\ Shown(h, rows', audit') /\ Held(rec[c], h)
    BY <2>2, <2>4 DEF Sound, Shown, Held, Sealed
  <2> QED
    BY <2>2, <2>3, <2>5, RecordMoves DEF PInv
<1> QED
  BY <1>1, <1>2

LEMMA FormOnScreen ==
  ASSUME PInv, NEW c \in Certs, screen[c] # NoForm
  PROVE  screen[c] \in Form /\ Names(screen[c], rec[c])
BY DEF PInv, ScreensFit, Carried

LEMMA EditingKeeps ==
  ASSUME PInv, NEW c \in Certs, Sign(c) \/ \E v \in Versions : EditResults(c, v)
  PROVE  PInv'
<1>1. /\ UNCHANGED <<serverVars, drain, nextKey, approved, faults>>
      /\ Quiet /\ screen[c] # NoForm
  BY DEF Sign, EditResults, Quiet
<1>2. screen[c] \in Form /\ Names(screen[c], rec[c]) /\ Grown
  BY <1>1, FormOnScreen, QuietStep
<1>3. CASE Sign(c)
  <2>1. RecordsFit' /\ RecordsHeld
    BY <1>2, <1>3, SaveFits DEF Sign
  <2>2. Names(screen[c], rec'[c]) /\ screen[c] \in Carried
    BY <1>2, <2>1, NamesStay DEF RecordsHeld, Carried
  <2>3. screen' = [screen EXCEPT ![c] = screen[c]]
    BY <1>3 DEF Sign, PInv, ScreensFit
  <2>4. ScreensFit'
    BY <1>3, <2>1, <2>2, <2>3, ScreenMoves DEF Sign, PInv
  <2> QED
    BY <1>1, <2>1, <2>4, QuietStep, QuietDrain DEF PInv
<1>4. ASSUME NEW v \in Versions, EditResults(c, v)
      PROVE  PInv'
  <2> DEFINE f == [screen[c] EXCEPT !.ver = v]
  <2>1. f \in Form /\ f.num = screen[c].num
    BY <1>2 DEF Form
  <2>2. screen' = [screen EXCEPT ![c] = f] /\ SaveDraftForm(c, f) /\ enq' = enq
    BY <1>4 DEF EditResults
  <2> HIDE DEF f
  <2>3. Names(f, rec[c])
    BY <1>2, <2>1 DEF Names
  <2>4. RecordsFit' /\ RecordsHeld
    BY <1>2, <2>1, <2>2, <2>3, SaveFits
  <2>5. Names(f, rec'[c]) /\ f \in Carried
    BY <2>1, <2>3, <2>4, NamesStay DEF RecordsHeld, Carried
  <2>6. /\ enq[c] \in Carried /\ (enq[c] # NoForm => enq[c].num # 0)
        /\ Names(enq[c], rec'[c]) /\ enq' = [enq EXCEPT ![c] = enq[c]]
    BY <2>2, <2>4, NamesStay DEF PInv, ScreensFit, RecordsHeld
  <2>7. ScreensFit'
    BY <2>2, <2>4, <2>5, <2>6, ScreenMoves DEF PInv
  <2> QED
    BY <1>1, <2>4, <2>7, QuietStep, QuietDrain DEF PInv
<1> QED
  BY <1>3, <1>4

(* The form is queued under a key of its own: from here on the key stands  *)
(* for it.                                                                 *)
LEMMA EnqueueKeeps ==
  ASSUME PInv, NEW c \in Certs, Enqueue(c)
  PROVE  PInv'
<1>1. /\ UNCHANGED <<serverVars, screen, drain, faults>> /\ Quiet
      /\ enq[c] # NoForm /\ nextKey \in Keys
      /\ enq' = [enq EXCEPT ![c] = NoForm]
  BY DEF Enqueue, Quiet
<1>2. rec[c].state = "DRAFT"
  BY DEF Enqueue, CanTransition
<1>3. enq[c] \in Form /\ enq[c].num # 0 /\ enq[c].num = rec[c].num /\ enq[c] \in MaybeForm
  BY <1>1, <1>2, FormIsMaybe DEF PInv, ScreensFit, Carried, Names
<1>4. KeysGrow /\ Given(nextKey, enq[c], approved', nextKey')
  BY <1>1, <1>3, FreshKey DEF Enqueue, PInv
<1>5. /\ IInv' /\ IssuesGiven' /\ RequestsGiven' /\ Grown /\ KeysFit'
  BY <1>1, <1>4, QuietFits DEF PInv, Grown, KeysGrow
<1> DEFINE h == [rec[c] EXCEPT !.state = "QUEUED_FOR_SIGNING", !.form = enq[c],
                               !.key = nextKey, !.pdf = "ok"]
<1>6. rec[c] \in Record /\ nextKey \in Nat
  BY DEF PInv, RecordsFit, KeysFit
<1>7. /\ h \in Record /\ h.state = "QUEUED_FOR_SIGNING" /\ h.form = enq[c] /\ h.key = nextKey
      /\ h.num = rec[c].num
  BY <1>3, <1>6 DEF Record, States, DraftStates
<1>8. rec' = [rec EXCEPT ![c] = h]
  BY DEF Enqueue
<1> HIDE DEF h
<1>9. Sound(h, approved', nextKey') /\ Shown(h, rows', audit') /\ Held(rec[c], h)
  BY <1>2, <1>3, <1>4, <1>7 DEF Sound, Shown, Held
<1>10. RecordsFit' /\ RecordsHeld
  BY <1>5, <1>7, <1>8, <1>9, RecordMoves DEF PInv
<1>11. ScreensFit'
  <2>1. /\ screen[c] \in Carried /\ Names(screen[c], rec'[c])
        /\ screen' = [screen EXCEPT ![c] = screen[c]]
    BY <1>1, <1>10, NamesStay DEF PInv, ScreensFit, RecordsHeld
  <2>2. NoForm \in Carried /\ Names(NoForm, rec'[c])
    BY DEF NoForm, Carried, Names
  <2> QED
    BY <1>1, <1>10, <2>1, <2>2, ScreenMoves DEF PInv
<1>12. DrainFits'
  <2>1. handler' = handler
    BY <1>1 DEF serverVars
  <2> QED
    BY <1>1, <1>4, <1>10, <2>1, DrainStays DEF PInv
<1> QED
  BY <1>1, <1>5, <1>10, <1>11, <1>12 DEF PInv


(* A record changes and nothing else in the app does.                      *)
LEMMA RecordOnly ==
  ASSUME PInv, Quiet, UNCHANGED <<screen, enq, drain, nextKey, approved>>,
         RecordsFit', RecordsHeld, faults' \in Nat
  PROVE  PInv'
BY QuietStep, QuietDrain, ScreensStay DEF PInv

LEMMA DiscardKeeps ==
  ASSUME PInv, NEW c \in Certs, Discard(c)
  PROVE  PInv'
<1>1. /\ UNCHANGED <<serverVars, screen, enq, drain, nextKey, approved, faults>> /\ Quiet
  BY DEF Discard, Quiet
<1> DEFINE h == [NoRecord EXCEPT !.state = "gone"]
<1>2. h \in Record /\ h.state = "gone"
  BY NoRecordType DEF Record
<1>3. rec' = [rec EXCEPT ![c] = h]
  BY DEF Discard
<1> HIDE DEF h
<1>4. Sound(h, approved', nextKey') /\ Shown(h, rows', audit') /\ Held(rec[c], h)
  BY <1>2 DEF Sound, Shown, Held, States, DraftStates, Sealed
<1> QED
  BY <1>1, <1>2, <1>3, <1>4, RecordMoves, RecordOnly, QuietStep DEF PInv

(* A record is marked, archived, held back or let go, or its PDF is lost.  *)
LEMMA MarkFits ==
  ASSUME PInv, Grown, NEW c \in Certs, NEW h \in Record, rec' = [rec EXCEPT ![c] = h],
         h.state = rec[c].state, h.num = rec[c].num, h.form = rec[c].form,
         h.key = rec[c].key, h.signed = rec[c].signed
  PROVE  RecordsFit' /\ RecordsHeld
<1>1. Sound(rec[c], approved', nextKey') /\ Shown(rec[c], rows', audit')
  BY StillSound, StillShown DEF PInv, RecordsFit
<1>2. Sound(h, approved', nextKey') /\ Shown(h, rows', audit') /\ Held(rec[c], h)
  BY <1>1 DEF Sound, Shown, Held
<1> QED
  BY <1>2, RecordMoves DEF PInv

LEMMA MarkingKeeps ==
  ASSUME PInv, NEW c \in Certs, ArchiveDraft(c) \/ BackoffOver(c) \/ PdfEvicted(c)
  PROVE  PInv'
<1>1. /\ UNCHANGED <<serverVars, screen, enq, drain, nextKey, approved>> /\ Quiet
      /\ faults' \in Nat
  BY DEF ArchiveDraft, BackoffOver, PdfEvicted, Quiet, Fault, PInv
<1>2. rec[c] \in Record
  BY DEF PInv, RecordsFit
<1>3. PICK h \in Record :
        /\ rec' = [rec EXCEPT ![c] = h]
        /\ h.state = rec[c].state /\ h.num = rec[c].num /\ h.form = rec[c].form
        /\ h.key = rec[c].key /\ h.signed = rec[c].signed
  <2>1. CASE ArchiveDraft(c)
    <3> DEFINE h == [rec[c] EXCEPT !.archived = TRUE]
    <3>1. /\ h \in Record
          /\ h.state = rec[c].state /\ h.num = rec[c].num /\ h.form = rec[c].form
          /\ h.key = rec[c].key /\ h.signed = rec[c].signed
      BY <1>2 DEF Record
    <3>2. rec' = [rec EXCEPT ![c] = h]
      BY <2>1 DEF ArchiveDraft
    <3> HIDE DEF h
    <3> QED
      BY <3>1, <3>2
  <2>2. CASE BackoffOver(c)
    <3> DEFINE h == [rec[c] EXCEPT !.hold = FALSE]
    <3>1. /\ h \in Record
          /\ h.state = rec[c].state /\ h.num = rec[c].num /\ h.form = rec[c].form
          /\ h.key = rec[c].key /\ h.signed = rec[c].signed
      BY <1>2 DEF Record
    <3>2. rec' = [rec EXCEPT ![c] = h]
      BY <2>2 DEF BackoffOver
    <3> HIDE DEF h
    <3> QED
      BY <3>1, <3>2
  <2>3. CASE PdfEvicted(c)
    <3> DEFINE h == [rec[c] EXCEPT !.pdf = "lost"]
    <3>1. /\ h \in Record
          /\ h.state = rec[c].state /\ h.num = rec[c].num /\ h.form = rec[c].form
          /\ h.key = rec[c].key /\ h.signed = rec[c].signed
      BY <1>2 DEF Record
    <3>2. rec' = [rec EXCEPT ![c] = h]
      BY <2>3 DEF PdfEvicted
    <3> HIDE DEF h
    <3> QED
      BY <3>1, <3>2
  <2> QED
    BY <2>1, <2>2, <2>3
<1>4. RecordsFit' /\ RecordsHeld
  BY <1>1, <1>3, MarkFits, QuietStep
<1> QED
  BY <1>1, <1>4, RecordOnly

(* The number reserved later goes into the record and its stored form; a   *)
(* screen that is open goes on without one.                                *)
LEMMA BackfillKeeps ==
  ASSUME PInv, NEW c \in Certs, BackfillNumber(c)
  PROVE  PInv'
<1>1. PICK n \in Numbers :
        /\ ReserveNumber(n)
        /\ \/ rec' = [rec EXCEPT ![c].num = n, ![c].form.num = n] /\ UNCHANGED faults
           \/ Fault /\ UNCHANGED rec
  BY DEF BackfillNumber
<1>2. /\ UNCHANGED <<screen, enq, drain, nextKey, approved>> /\ Quiet
      /\ rec[c].state = "DRAFT" /\ rec[c].num = 0 /\ faults' \in Nat
  BY <1>1 DEF BackfillNumber, Quiet, Fault, PInv
<1>3. CASE UNCHANGED rec
  BY <1>2, <1>3, RecordsStay, RecordOnly, QuietStep DEF PInv
<1>4. CASE rec' = [rec EXCEPT ![c].num = n, ![c].form.num = n]
  <2> DEFINE f == [rec[c].form EXCEPT !.num = n]
             h == [rec[c] EXCEPT !.num = n, !.form = f]
  <2>1. rec[c] \in Record /\ rec[c].form \in Form
    BY <1>2 DEF PInv, RecordsFit, Sound, States, DraftStates
  <2>2. f \in Form /\ f \in MaybeForm /\ f.num = n
    BY <2>1 DEF Form, MaybeForm
  <2>3. rec' = [rec EXCEPT ![c] = h]
    BY <1>4, <2>1 DEF Record, PInv, RecordsFit
  <2> HIDE DEF f
  <2>4. h \in Record /\ h.state = "DRAFT" /\ h.num = n /\ h.form = f
    BY <1>2, <2>1, <2>2 DEF Record
  <2> HIDE DEF h
  <2>5. Sound(h, approved', nextKey') /\ Shown(h, rows', audit') /\ Held(rec[c], h)
    BY <1>2, <2>2, <2>4 DEF Sound, Shown, Held, Sealed
  <2> QED
    BY <1>2, <2>3, <2>4, <2>5, RecordMoves, RecordOnly, QuietStep DEF PInv
<1> QED
  BY <1>1, <1>3, <1>4

-----------------------------------------------------------------------------
(* The steps of the queue.                                                 *)

(* An attempt that failed puts the record back, with what it carries.      *)
LEMMA FailureFits ==
  ASSUME PInv, Grown, NEW c \in Certs, rec' = [rec EXCEPT ![c] = AfterFailure(rec[c])]
  PROVE  RecordsFit' /\ RecordsHeld
<1> DEFINE g == rec[c]
           h == AfterFailure(g)
<1>1. g \in Record /\ Sound(g, approved', nextKey') /\ Shown(g, rows', audit')
  BY StillSound, StillShown DEF PInv, RecordsFit
<1> SUFFICES /\ h \in Record
             /\ Sound(h, approved', nextKey') /\ Shown(h, rows', audit') /\ Held(g, h)
  BY RecordMoves DEF PInv
<1>2. CASE g.state = "UPLOADING"
  <2>1. h = [g EXCEPT !.state = "QUEUED_FOR_SIGNING", !.hold = TRUE]
    BY <1>2 DEF AfterFailure
  <2>2. /\ h \in Record /\ h.state = "QUEUED_FOR_SIGNING" /\ h.num = g.num
        /\ h.form = g.form /\ h.key = g.key
    BY <1>1, <2>1 DEF Record, States
  <2> HIDE DEF h
  <2> QED
    BY <1>1, <1>2, <2>2 DEF Sound, Shown, Held, States, Sealed
<1>3. CASE g.state \in {"SIGNED", "none", "gone"}
  <2>1. h = g
    BY <1>3 DEF AfterFailure
  <2> QED
    BY <1>1, <2>1, HeldItself
<1>4. CASE g.state \notin {"UPLOADING", "SIGNED", "none", "gone"}
  <2>1. h = [g EXCEPT !.hold = TRUE]
    BY <1>4 DEF AfterFailure
  <2>2. /\ h \in Record /\ h.state = g.state /\ h.num = g.num
        /\ h.form = g.form /\ h.key = g.key /\ h.signed = g.signed
    BY <1>1, <2>1 DEF Record
  <2> HIDE DEF h
  <2> QED
    BY <1>1, <1>4, <2>2 DEF Sound, Shown, Held
<1> QED
  BY <1>2, <1>3, <1>4

(* What a drain lists: an item names its record, and unless only receipts  *)
(* are left its form was approved with its key.                            *)
LEMMA ItemOfFits ==
  ASSUME PInv, NEW c \in Certs
  PROVE  /\ ItemOf(c) \in Item /\ ItemOf(c).cert = c
         /\ Names(ItemOf(c), rec[c])
         /\ rec[c].state \in Sealed =>
              /\ Given(ItemOf(c).key, ItemOf(c).form, approved, nextKey)
              /\ Names(ItemOf(c).form, rec[c])
<1>1. rec[c] \in Record /\ Sound(rec[c], approved, nextKey)
  BY DEF PInv, RecordsFit
<1>2. /\ ItemOf(c) \in Item /\ ItemOf(c).cert = c /\ ItemOf(c).num = rec[c].num
      /\ ItemOf(c).key = rec[c].key /\ ItemOf(c).form = rec[c].form
  BY <1>1 DEF ItemOf, Item, Record
<1> QED
  BY <1>1, <1>2 DEF Names, Sound, Sealed, States

LEMMA StartDrainKeeps ==
  ASSUME PInv, StartDrain
  PROVE  PInv'
<1>1. UNCHANGED <<serverVars, screen, enq, nextKey, approved, faults>> /\ Quiet
  BY DEF StartDrain, Quiet
<1>2. ASSUME NEW c \in Certs
      PROVE  /\ rec'[c] \in Record
             /\ Sound(rec'[c], approved', nextKey') /\ Shown(rec'[c], rows', audit')
             /\ Held(rec[c], rec'[c])
             /\ rec'[c].num = rec[c].num /\ rec'[c].form = rec[c].form
             /\ rec[c].state # "gone" => rec'[c].state # "gone"
  <2>1. /\ rec[c] \in Record
        /\ Sound(rec[c], approved', nextKey') /\ Shown(rec[c], rows', audit')
    BY <1>1, StillSound, StillShown, QuietStep DEF PInv, RecordsFit
  <2>2. rec'[c] = [rec[c] EXCEPT !.state = Recovered(c)]
    BY DEF StartDrain
  <2>3. CASE c \in InState("UPLOADING")
    <3>1. rec[c].state = "UPLOADING" /\ Recovered(c) = "QUEUED_FOR_SIGNING"
      BY <2>3 DEF InState, Recovered
    <3>2. /\ rec'[c] \in Record /\ rec'[c].state = "QUEUED_FOR_SIGNING"
          /\ rec'[c].num = rec[c].num /\ rec'[c].form = rec[c].form /\ rec'[c].key = rec[c].key
      BY <2>1, <2>2, <3>1 DEF Record, States
    <3> QED
      BY <2>1, <3>1, <3>2 DEF Sound, Shown, Held, States, Sealed
  <2>4. CASE c \notin InState("UPLOADING")
    <3>1. rec'[c] = rec[c]
      BY <2>1, <2>2, <2>4 DEF Recovered, Record
    <3> QED
      BY <2>1, <3>1, HeldItself
  <2> QED
    BY <2>3, <2>4
<1>3. RecordsFit' /\ RecordsHeld
  <2>1. DOMAIN rec' = Certs /\ rec' = [c \in Certs |-> rec'[c]]
    BY DEF StartDrain
  <2>2. rec' \in [Certs -> Record]
    BY <1>2, <2>1
  <2> QED
    BY <1>2, <2>2 DEF RecordsFit, RecordsHeld
<1>4. DrainFits'
  <2> DEFINE due == {d \in InState("UPLOADING") \cup InState("QUEUED_FOR_SIGNING") :
                       ~rec[d].hold}
             new == {ItemOf(c) : c \in due}
  <2>1. due \subseteq Certs /\ \A c \in due : rec[c].state \in Sealed
    BY DEF InState, Sealed
  <2>2. drain' = [drain EXCEPT !.pc = "items", !.todo = new]
    BY DEF StartDrain
  <2>3. new \subseteq Item
    BY <2>1, ItemOfFits
  <2>4. ASSUME NEW item \in new
        PROVE  ItemFits(item, FALSE, rec'[item.cert], approved', nextKey')
    <3>1. PICK c \in due : item = ItemOf(c)
      OBVIOUS
    <3>2. /\ c \in Certs /\ item.cert = c /\ Names(item, rec[c]) /\ Names(item.form, rec[c])
          /\ Given(item.key, item.form, approved, nextKey)
      BY <2>1, <3>1, ItemOfFits
    <3>3. Names(item, rec'[c]) /\ Names(item.form, rec'[c])
      BY <1>2, <3>2, NamesStay
    <3> QED
      BY <1>1, <3>2, <3>3 DEF ItemFits
  <2> HIDE DEF new
  <2>5. drain' \in DrainType /\ drain'.pc = "items" /\ drain'.todo = new
    BY <2>2, <2>3 DEF PInv, DrainFits, DrainType
  <2> QED
    BY <2>4, <2>5 DEF DrainFits
<1> QED
  BY <1>1, <1>3, <1>4, QuietStep, ScreensStay DEF PInv


(* A drain goes on with its items, or with fewer of them.                  *)
LEMMA BackToItems ==
  ASSUME DrainFits, RecordsHeld, KeysGrow, drain' \in DrainType,
         drain'.pc = "items", drain.pc # "confirm", drain'.todo \subseteq drain.todo
  PROVE  DrainFits'
<1>1. \A item \in drain'.todo :
        ItemFits(item, drain'.pc = "confirm", rec'[item.cert], approved', nextKey')
  BY ItemsStay
<1> QED
  BY <1>1 DEF DrainFits

LEMMA DrainRuns ==
  ASSUME PInv, Quiet, UNCHANGED <<screen, enq, nextKey, approved>>,
         RecordsFit', RecordsHeld, DrainFits', faults' \in Nat
  PROVE  PInv'
BY QuietStep, ScreensStay DEF PInv

LEMMA TodoType ==
  ASSUME PInv, NEW item \in drain.todo
  PROVE  item \in Item /\ item.cert \in Certs
BY DEF PInv, DrainFits, DrainType, Item

(* An item is passed over, cannot be read, or is not sent.                 *)
LEMMA ItemPassedKeeps ==
  ASSUME PInv, NEW item \in drain.todo, SkipItem(item) \/ BadPdf(item) \/ UploadFails(item)
  PROVE  PInv'
<1>1. /\ UNCHANGED <<serverVars, screen, enq, nextKey, approved>> /\ Quiet
      /\ faults' \in Nat /\ drain.pc = "items" /\ drain' = NextItem(item)
  BY DEF SkipItem, BadPdf, UploadFails, Quiet, Fault, PInv
<1>2. /\ drain' \in DrainType /\ drain'.pc = "items" /\ drain'.todo \subseteq drain.todo
  BY <1>1 DEF PInv, DrainFits, DrainType, NextItem
<1>3. Grown /\ item.cert \in Certs
  BY <1>1, QuietStep, TodoType
<1>4. RecordsFit' /\ RecordsHeld
  <2>1. CASE SkipItem(item)
    BY <1>3, <2>1, RecordsStay DEF SkipItem, PInv
  <2>2. CASE BadPdf(item)
    BY <1>3, <2>2, FailureFits DEF BadPdf
  <2>3. CASE UploadFails(item)
    <3> DEFINE h == [rec[item.cert] EXCEPT !.hold = TRUE]
    <3>1. rec[item.cert] \in Record
      BY <1>3 DEF PInv, RecordsFit
    <3>2. /\ h \in Record
          /\ h.state = rec[item.cert].state /\ h.num = rec[item.cert].num
          /\ h.form = rec[item.cert].form
          /\ h.key = rec[item.cert].key /\ h.signed = rec[item.cert].signed
      BY <3>1 DEF Record
    <3>3. rec' = [rec EXCEPT ![item.cert] = h]
      BY <2>3 DEF UploadFails
    <3> HIDE DEF h
    <3> QED
      BY <1>3, <3>2, <3>3, MarkFits
  <2> QED
    BY <2>1, <2>2, <2>3
<1>5. DrainFits'
  BY <1>1, <1>2, <1>3, <1>4, BackToItems DEF PInv, Grown
<1> QED
  BY <1>1, <1>4, <1>5, DrainRuns

(* The package of the snapshot is sent: whatever the record holds by now,  *)
(* the form sent is the one approved with the key.                         *)
LEMMA UploadKeeps ==
  ASSUME PInv, NEW item \in drain.todo, NEW r \in Reqs, Upload(item, r)
  PROVE  PInv'
<1>1. /\ Submit(r, item.key, item.form.num, item.form.ver)
      /\ rec[item.cert].state = "QUEUED_FOR_SIGNING" /\ drain.pc = "items"
      /\ UNCHANGED <<screen, enq, nextKey, approved, faults>>
  BY DEF Upload
<1>2. item \in Item /\ item.cert \in Certs
  BY TodoType
<1>3. Given(item.key, item.form, approved, nextKey) /\ Names(item.form, rec[item.cert])
  BY <1>1 DEF PInv, DrainFits, ItemFits
<1>4. KeysGrow
  BY <1>1, KeysStay DEF PInv
<1>5. /\ IInv' /\ IssuesGiven' /\ RequestsGiven' /\ Grown
      /\ handler'[r].pc # "idle" /\ handler'[r].num = item.form.num
  BY <1>1, <1>3, <1>4, SubmitFits DEF PInv, Grown
<1> DEFINE h == [rec[item.cert] EXCEPT !.state = "UPLOADING"]
<1>6. rec[item.cert] \in Record /\ Sound(rec[item.cert], approved', nextKey')
  BY <1>2, <1>5, StillSound DEF PInv, RecordsFit
<1>7. /\ h \in Record /\ h.state = "UPLOADING" /\ h.num = rec[item.cert].num
      /\ h.form = rec[item.cert].form /\ h.key = rec[item.cert].key
  BY <1>6 DEF Record, States
<1>8. rec' = [rec EXCEPT ![item.cert] = h]
  BY DEF Upload
<1> HIDE DEF h
<1>9. Sound(h, approved', nextKey') /\ Shown(h, rows', audit') /\ Held(rec[item.cert], h)
  BY <1>1, <1>6, <1>7 DEF Sound, Shown, Held, States, Sealed
<1>10. RecordsFit' /\ RecordsHeld
  BY <1>2, <1>5, <1>7, <1>8, <1>9, RecordMoves DEF PInv
<1>11. /\ drain' \in DrainType /\ drain'.pc = "wait" /\ drain'.todo \subseteq drain.todo
       /\ drain'.cert = item.cert /\ drain'.slot = r
  BY <1>2 DEF Upload, PInv, DrainFits, DrainType, NextItem
<1>12. DrainFits'
  <2>1. \A i \in drain'.todo :
          ItemFits(i, drain'.pc = "confirm", rec'[i.cert], approved', nextKey')
    BY <1>1, <1>4, <1>10, <1>11, ItemsStay DEF PInv
  <2>2. Names(item.form, rec'[item.cert])
    BY <1>2, <1>3, <1>10, NamesStay DEF RecordsHeld
  <2>3. Names(handler'[r], rec'[item.cert])
    BY <1>5, <2>2 DEF Names
  <2> QED
    BY <1>5, <1>11, <2>1, <2>3 DEF DrainFits
<1> QED
  BY <1>1, <1>5, <1>10, <1>12, ScreensStay DEF PInv, Grown, KeysGrow

(* The answer to the request a drain waits for.                            *)
LEMMA Answered ==
  ASSUME PInv, drain.pc = "wait", Hangup(drain.slot),
         UNCHANGED <<screen, enq, nextKey, approved, faults>>
  PROVE  /\ drain.slot \in Reqs /\ drain.cert \in Certs /\ drain.todo \subseteq Item
         /\ IInv' /\ IssuesGiven' /\ RequestsGiven' /\ KeysFit' /\ Grown
<1>1. drain.slot \in Reqs /\ drain.cert \in Certs /\ drain.todo \subseteq Item
  BY DEF PInv, DrainFits, DrainType
<1> QED
  BY <1>1, KeysStay, HangupFits DEF PInv, Grown, KeysGrow

LEMMA SignedKeeps ==
  ASSUME PInv, Signed
  PROVE  PInv'
<1> DEFINE a == handler[drain.slot]
           g == rec[drain.cert]
           h == [g EXCEPT !.state = "SIGNED", !.signed = a.sig]
<1>1. /\ drain.pc = "wait" /\ a.pc = "done" /\ a.status = "issued"
      /\ CanTransition(g.state, "SIGNED") /\ Hangup(drain.slot)
      /\ rec' = [rec EXCEPT ![drain.cert] = h]
      /\ drain' = [drain EXCEPT !.pc = "receipt", !.num = a.num]
      /\ UNCHANGED <<screen, enq, nextKey, approved, faults>>
  BY DEF Signed
<1>2. /\ drain.slot \in Reqs /\ drain.cert \in Certs
      /\ IInv' /\ IssuesGiven' /\ RequestsGiven' /\ KeysFit' /\ Grown
  BY <1>1, Answered
<1>3. /\ a \in Handler /\ a.num \in Numbers /\ a.num # 0
      /\ \E row \in rows : row.num = a.num /\ row.sig = a.sig
  <2>1. a \in Handler /\ a.num \in Numbers /\ RowOf(a)
    BY <1>1, <1>2 DEF PInv, IInv, ServiceTypeOK, HasSubmission, AnswersRow
  <2> HIDE DEF a
  <2> QED
    BY <2>1, NumbersAssumption DEF RowOf
<1>4. g.state = "UPLOADING" /\ g \in Record /\ Sound(g, approved', nextKey')
  BY <1>1, <1>2, StillSound DEF CanTransition, PInv, RecordsFit
<1>5. a.num = g.num
  BY <1>1, <1>3, <1>4 DEF PInv, DrainFits, Names
<1>6. /\ h \in Record /\ h.state = "SIGNED" /\ h.num = g.num /\ h.form = g.form
      /\ h.key = g.key /\ h.signed = a.sig
  BY <1>3, <1>4 DEF Record, States, Handler
<1>7. \E row \in rows' : row.num = a.num /\ row.sig = a.sig
  BY <1>2, <1>3 DEF Grown
<1>8. a.num \in Numbers \cup {0}
  BY <1>3
<1> HIDE DEF h, a
<1>9. Sound(h, approved', nextKey') /\ Shown(h, rows', audit') /\ Held(g, h)
  BY <1>4, <1>5, <1>6, <1>7 DEF Sound, Shown, Held, States, Sealed
<1>10. RecordsFit' /\ RecordsHeld
  BY <1>1, <1>2, <1>6, <1>9, RecordMoves DEF PInv
<1>11. /\ drain' \in DrainType /\ drain'.pc = "receipt" /\ drain'.todo \subseteq drain.todo
       /\ drain'.cert = drain.cert /\ drain'.num = a.num
  BY <1>1, <1>8 DEF PInv, DrainFits, DrainType
<1>12. DrainFits'
  <2>1. \A i \in drain'.todo :
          ItemFits(i, drain'.pc = "confirm", rec'[i.cert], approved', nextKey')
    BY <1>1, <1>2, <1>10, <1>11, ItemsStay DEF PInv, Grown
  <2>2. Names(drain', rec'[drain.cert])
    <3>1. rec'[drain.cert] = h
      BY <1>1, <1>2 DEF PInv, RecordsFit
    <3> QED
      BY <1>5, <1>6, <1>11, <3>1 DEF Names
  <2> QED
    BY <1>11, <2>1, <2>2 DEF DrainFits
<1> QED
  BY <1>1, <1>2, <1>10, <1>12, ScreensStay DEF PInv

LEMMA UploadRejectedKeeps ==
  ASSUME PInv, UploadRejected
  PROVE  PInv'
<1>1. /\ drain.pc = "wait" /\ Hangup(drain.slot)
      /\ rec' = [rec EXCEPT ![drain.cert] = AfterFailure(rec[drain.cert])]
      /\ drain' = [drain EXCEPT !.pc = "items"]
      /\ UNCHANGED <<screen, enq, nextKey, approved, faults>>
  BY DEF UploadRejected
<1>2. /\ drain.slot \in Reqs /\ drain.cert \in Certs
      /\ IInv' /\ IssuesGiven' /\ RequestsGiven' /\ KeysFit' /\ Grown
  BY <1>1, Answered
<1>3. RecordsFit' /\ RecordsHeld
  BY <1>1, <1>2, FailureFits
<1>4. drain' \in DrainType /\ drain'.pc = "items" /\ drain'.todo \subseteq drain.todo
  BY <1>1 DEF PInv, DrainFits, DrainType
<1>5. DrainFits'
  BY <1>1, <1>2, <1>3, <1>4, BackToItems DEF PInv, Grown
<1> QED
  BY <1>1, <1>2, <1>3, <1>5, ScreensStay DEF PInv

LEMMA UploadTimeoutKeeps ==
  ASSUME PInv, UploadTimeout
  PROVE  PInv'
<1>1. /\ UNCHANGED <<serverVars, screen, enq, nextKey, approved>> /\ Quiet
      /\ faults' \in Nat /\ drain.pc = "wait"
      /\ rec' = [rec EXCEPT ![drain.cert] = AfterFailure(rec[drain.cert])]
      /\ drain' = [drain EXCEPT !.pc = "items"]
  BY DEF UploadTimeout, Quiet, Fault, PInv
<1>2. Grown /\ drain.cert \in Certs
  BY <1>1, QuietStep DEF PInv, DrainFits, DrainType
<1>3. RecordsFit' /\ RecordsHeld
  BY <1>1, <1>2, FailureFits
<1>4. drain' \in DrainType /\ drain'.pc = "items" /\ drain'.todo \subseteq drain.todo
  BY <1>1 DEF PInv, DrainFits, DrainType
<1>5. DrainFits'
  BY <1>1, <1>2, <1>3, <1>4, BackToItems DEF PInv, Grown
<1> QED
  BY <1>1, <1>3, <1>5, DrainRuns


(* A receipt is given for a certificate that was issued, and is audited.   *)
LEMMA ReceiptGiven ==
  ASSUME PInv, NEW n, Receipt(n)
  PROVE  Quiet /\ n \in Numbers /\ n # 0 /\ Event("sync_confirmed", n, 0) \in audit'
<1>1. n \in Numbers
  BY DEF Receipt, IsIssued, PInv, IInv, ServiceTypeOK, CertificateRow
<1> QED
  BY <1>1, NumbersAssumption DEF Receipt, Quiet

(* The record of the certificate whose receipt was confirmed.              *)
LEMMA SyncedFits ==
  ASSUME PInv, Grown, NEW c \in Certs, NEW f, f.num # 0, Names(f, rec[c]),
         Event("sync_confirmed", f.num, 0) \in audit',
         CanTransition(rec[c].state, "SYNCED"),
         rec' = [rec EXCEPT ![c].state = "SYNCED"]
  PROVE  RecordsFit' /\ RecordsHeld
<1> DEFINE g == rec[c]
           h == [g EXCEPT !.state = "SYNCED"]
<1>1. g \in Record /\ g.state = "SIGNED" /\ f.num = g.num
  BY DEF PInv, RecordsFit, CanTransition, Names
<1>2. Sound(g, approved', nextKey') /\ Shown(g, rows', audit')
  BY StillSound, StillShown DEF PInv, RecordsFit
<1>3. /\ h \in Record /\ h.state = "SYNCED" /\ h.num = g.num /\ h.form = g.form
      /\ h.key = g.key /\ h.signed = g.signed
  BY <1>1 DEF Record, States
<1>4. rec' = [rec EXCEPT ![c] = h]
  OBVIOUS
<1> HIDE DEF h
<1>5. Sound(h, approved', nextKey') /\ Shown(h, rows', audit') /\ Held(g, h)
  BY <1>1, <1>2, <1>3 DEF Sound, Shown, Held, States, Sealed
<1> QED
  BY <1>3, <1>4, <1>5, RecordMoves DEF PInv

LEMMA ConfirmSignedKeeps ==
  ASSUME PInv, ConfirmSigned
  PROVE  PInv'
<1>1. /\ drain.pc = "receipt" /\ drain' = [drain EXCEPT !.pc = "items"]
      /\ UNCHANGED <<screen, enq, nextKey, approved>> /\ faults' \in Nat
  BY DEF ConfirmSigned, Fault, PInv
<1>2. Quiet
  BY ReceiptGiven DEF ConfirmSigned, Quiet
<1>3. /\ drain.cert \in Certs /\ Names(drain, rec[drain.cert]) /\ Grown
      /\ drain' \in DrainType /\ drain'.pc = "items" /\ drain'.todo \subseteq drain.todo
  BY <1>1, <1>2, QuietStep DEF PInv, DrainFits, DrainType
<1>4. RecordsFit' /\ RecordsHeld
  <2>1. CASE rec' = [rec EXCEPT ![drain.cert] = AfterFailure(rec[drain.cert])]
    BY <1>3, <2>1, FailureFits
  <2>2. CASE Receipt(drain.num) /\ rec' = Synced(drain.cert)
    <3>1. CASE CanTransition(rec[drain.cert].state, "SYNCED")
      <4>1. rec' = [rec EXCEPT ![drain.cert].state = "SYNCED"]
        BY <2>2, <3>1 DEF Synced
      <4>2. drain.num # 0 /\ Event("sync_confirmed", drain.num, 0) \in audit'
        BY <2>2, ReceiptGiven
      <4> QED
        BY <1>3, <3>1, <4>1, <4>2, SyncedFits
    <3>2. CASE ~CanTransition(rec[drain.cert].state, "SYNCED")
      BY <1>3, <2>2, <3>2, FailureFits DEF Synced
    <3> QED
      BY <3>1, <3>2
  <2> QED
    BY <2>1, <2>2 DEF ConfirmSigned
<1>5. DrainFits'
  BY <1>1, <1>3, <1>4, BackToItems DEF PInv, Grown
<1> QED
  BY <1>1, <1>2, <1>4, <1>5, DrainRuns

LEMMA StartConfirmKeeps ==
  ASSUME PInv, StartConfirm
  PROVE  PInv'
<1>1. UNCHANGED <<serverVars, rec, screen, enq, nextKey, approved, faults>> /\ Quiet
  BY DEF StartConfirm, Quiet
<1>2. RecordsFit' /\ RecordsHeld
  BY <1>1, RecordsStay, QuietStep DEF PInv
<1> DEFINE new == {ItemOf(c) : c \in {d \in InState("SIGNED") : rec[d].num # 0}}
<1>3. drain' = [drain EXCEPT !.pc = "confirm", !.todo = new]
  BY DEF StartConfirm
<1>4. new \subseteq Item
  BY ItemOfFits DEF InState
<1>5. ASSUME NEW item \in new
      PROVE  ItemFits(item, TRUE, rec'[item.cert], approved', nextKey')
  <2>1. PICK c \in Certs : item = ItemOf(c)
    BY DEF InState
  <2> QED
    BY <1>1, <2>1, ItemOfFits DEF ItemFits
<1> HIDE DEF new
<1>6. drain' \in DrainType /\ drain'.pc = "confirm" /\ drain'.todo = new
  BY <1>3, <1>4 DEF PInv, DrainFits, DrainType
<1>7. DrainFits'
  BY <1>5, <1>6 DEF DrainFits
<1> QED
  BY <1>1, <1>2, <1>7, DrainRuns DEF PInv

LEMMA ConfirmLaterKeeps ==
  ASSUME PInv, NEW item \in drain.todo, ConfirmLater(item)
  PROVE  PInv'
<1>1. /\ drain.pc = "confirm" /\ drain' = [drain EXCEPT !.todo = @ \ {item}]
      /\ UNCHANGED <<screen, enq, nextKey, approved>> /\ faults' \in Nat
  BY DEF ConfirmLater, Fault, PInv
<1>2. Quiet
  BY ReceiptGiven DEF ConfirmLater, Quiet
<1>3. /\ item.cert \in Certs /\ Names(item, rec[item.cert]) /\ Grown
      /\ drain' \in DrainType /\ drain'.pc = "confirm" /\ drain'.todo \subseteq drain.todo
  BY <1>1, <1>2, QuietStep, TodoType DEF PInv, DrainFits, DrainType, ItemFits
<1>4. RecordsFit' /\ RecordsHeld
  <2>1. CASE rec' = rec
    BY <1>3, <2>1, RecordsStay DEF PInv
  <2>2. CASE /\ Receipt(item.num) /\ CanTransition(rec[item.cert].state, "SYNCED")
             /\ rec' = [rec EXCEPT ![item.cert].state = "SYNCED"]
    <3>1. item.num # 0 /\ Event("sync_confirmed", item.num, 0) \in audit'
      BY <2>2, ReceiptGiven
    <3> QED
      BY <1>3, <2>2, <3>1, SyncedFits
  <2> QED
    BY <2>1, <2>2 DEF ConfirmLater
<1>5. DrainFits'
  <2>1. \A i \in drain'.todo :
          ItemFits(i, drain'.pc = "confirm", rec'[i.cert], approved', nextKey')
    BY <1>1, <1>3, <1>4, ItemsStay DEF PInv, Grown
  <2> QED
    BY <1>3, <2>1 DEF DrainFits
<1> QED
  BY <1>1, <1>2, <1>4, <1>5, DrainRuns

LEMMA EndDrainKeeps ==
  ASSUME PInv, EndDrain
  PROVE  PInv'
<1>1. /\ UNCHANGED <<serverVars, rec, screen, enq, nextKey, approved, faults>> /\ Quiet
      /\ drain' = DrainIdle
  BY DEF EndDrain, Quiet
<1>2. RecordsFit' /\ RecordsHeld
  BY <1>1, RecordsStay, QuietStep DEF PInv
<1>3. DrainFits'
  BY <1>1, DrainIdleType DEF DrainFits
<1> QED
  BY <1>1, <1>2, <1>3, DrainRuns DEF PInv

-----------------------------------------------------------------------------
(* The app is killed: what was only in memory is gone.                     *)
LEMMA AppKilledKeeps ==
  ASSUME PInv, AppKilled
  PROVE  PInv'
<1>1. /\ UNCHANGED <<serverVars, nextKey, approved>> /\ Quiet /\ faults' \in Nat
      /\ screen' = [c \in Certs |-> NoForm] /\ enq' = [c \in Certs |-> NoForm]
      /\ drain' = DrainIdle
  BY DEF AppKilled, Quiet, Fault, PInv
<1>2. RecordsFit' /\ RecordsHeld
  <2>1. CASE UNCHANGED rec
    BY <1>1, <2>1, RecordsStay, QuietStep DEF PInv
  <2>2. ASSUME NEW c \in Certs, rec[c].state = "DRAFT",
               rec' = [rec EXCEPT ![c].state = "READY_TO_SIGN"]
        PROVE  RecordsFit' /\ RecordsHeld
    <3> DEFINE g == rec[c]
               h == [g EXCEPT !.state = "READY_TO_SIGN"]
    <3>1. g \in Record /\ Sound(g, approved', nextKey') /\ Grown
      BY <1>1, StillSound, QuietStep DEF PInv, RecordsFit
    <3>2. /\ h \in Record /\ h.state = "READY_TO_SIGN" /\ h.num = g.num /\ h.form = g.form
      BY <3>1 DEF Record, States, DraftStates
    <3>3. rec' = [rec EXCEPT ![c] = h]
      BY <2>2
    <3> HIDE DEF h
    <3>4. Sound(h, approved', nextKey') /\ Shown(h, rows', audit') /\ Held(g, h)
      BY <2>2, <3>1, <3>2 DEF Sound, Shown, Held, States, DraftStates, Sealed
    <3> QED
      BY <3>1, <3>2, <3>3, <3>4, RecordMoves DEF PInv
  <2> QED
    BY <2>1, <2>2 DEF AppKilled
<1>3. ScreensFit'
  BY <1>1 DEF ScreensFit, Carried, Names, NoForm
<1>4. DrainFits'
  BY <1>1, DrainIdleType DEF DrainFits
<1> QED
  BY <1>1, <1>2, <1>3, <1>4, QuietStep DEF PInv

(* The service works on, and an answer nobody waits for is dropped.        *)
LEMMA ServiceKeeps ==
  ASSUME PInv, NEW r \in Reqs, ServerStep(r) \/ ServerTrouble(r)
  PROVE  PInv'
<1>1. /\ UNCHANGED <<rec, screen, enq, drain, nextKey, approved>> /\ Quiet
      /\ faults' \in Nat
  BY DEF ServerStep, ServerTrouble, Quiet, Fault, PInv, clientVars
<1>2. RecordsFit' /\ RecordsHeld
  BY <1>1, RecordsStay, QuietStep DEF PInv
<1> QED
  BY <1>1, <1>2, RecordOnly

LEMMA DropAnswerKeeps ==
  ASSUME PInv, NEW r \in Reqs, DropAnswer(r)
  PROVE  PInv'
<1>1. /\ UNCHANGED <<rec, screen, enq, drain, nextKey, approved, faults>>
      /\ Hangup(r) /\ ~(drain.pc = "wait" /\ drain.slot = r)
  BY DEF DropAnswer, clientVars
<1>2. /\ IInv' /\ IssuesGiven' /\ RequestsGiven' /\ KeysFit' /\ Grown
      /\ \A q \in Reqs : q # r => handler'[q] = handler[q]
  BY <1>1, KeysStay, HangupFits DEF PInv, Grown, KeysGrow
<1>3. RecordsFit' /\ RecordsHeld
  BY <1>1, <1>2, RecordsStay DEF PInv
<1>4. drain.pc = "wait" => drain.slot \in Reqs /\ drain.slot # r
  BY <1>1 DEF PInv, DrainFits
<1>5. DrainFits'
  BY <1>1, <1>2, <1>3, <1>4, DrainStays DEF PInv, Grown
<1> QED
  BY <1>1, <1>2, <1>3, <1>5, ScreensStay DEF PInv

-----------------------------------------------------------------------------
LEMMA PipelineKeeps ==
  ASSUME PInv, [Next]_vars
  PROVE  PInv'
<1>1. CASE UNCHANGED vars
  <2>1. UNCHANGED <<rec, screen, enq, drain, nextKey, approved, faults>> /\ Quiet
    BY <1>1 DEF vars, clientVars, Quiet
  <2>2. RecordsFit' /\ RecordsHeld
    BY <2>1, RecordsStay, QuietStep DEF PInv
  <2> QED
    BY <2>1, <2>2, RecordOnly DEF PInv
<1>2. ASSUME NEW c \in Certs,
             Screens(c) \/ BackfillNumber(c) \/ BackoffOver(c) \/ PdfEvicted(c)
      PROVE  PInv'
  BY <1>2, StartVerificationKeeps, OpeningKeeps, EditingKeeps, EnqueueKeeps, DiscardKeeps,
     MarkingKeeps, BackfillKeeps DEF Screens
<1>3. ASSUME NEW item \in drain.todo,
             \/ SkipItem(item) \/ BadPdf(item) \/ UploadFails(item) \/ ConfirmLater(item)
             \/ \E r \in Reqs : Upload(item, r)
      PROVE  PInv'
  BY <1>3, ItemPassedKeeps, UploadKeeps, ConfirmLaterKeeps
<1>4. CASE \/ StartDrain \/ Signed \/ UploadRejected \/ ConfirmSigned \/ StartConfirm
           \/ EndDrain \/ UploadTimeout \/ AppKilled
  BY <1>4, StartDrainKeeps, SignedKeeps, UploadRejectedKeeps, ConfirmSignedKeeps,
     StartConfirmKeeps, EndDrainKeeps, UploadTimeoutKeeps, AppKilledKeeps
<1>5. ASSUME NEW r \in Reqs, ServerStep(r) \/ ServerTrouble(r) \/ DropAnswer(r)
      PROVE  PInv'
  BY <1>5, ServiceKeeps, DropAnswerKeeps
<1> QED
  BY <1>1, <1>2, <1>3, <1>4, <1>5 DEF Next, DrainStep

LEMMA PipelineInductive == Spec => []PInv
<1>1. PInv /\ [Next]_vars => PInv'
  BY PipelineKeeps
<1> QED
  BY <1>1, InitPInv, PTL DEF Spec

(* The queue, its records and the service keep their types.                *)
THEOREM PipelineTyped == Spec => []PipelineTypeOK
<1>1. PInv => PipelineTypeOK
  BY FormIsMaybe DEF PInv, IInv, PipelineTypeOK, ClientTypeOK, KeysFit, RecordsFit, ScreensFit,
                     DrainFits, DrainType, Carried
<1> QED
  BY <1>1, PipelineInductive, PTL

(* Edits, discards, retries, timeouts, crashes and overlapping requests    *)
(* never make the service issue, under a key, anything but the form that   *)
(* was approved with that key.                                             *)
THEOREM IssuesWhatWasApproved == Spec => []IssuedAsApproved
<1>1. PInv => IssuedAsApproved
  BY DEF PInv, IssuesGiven, Given, Submission, IssuedAsApproved
<1> QED
  BY <1>1, PipelineInductive, PTL

(* A record shown as signed stands for a certificate under its own number, *)
(* with the hash the device stored; a synced one for a confirmed receipt.  *)
THEOREM ShowsOnlyIssued == Spec => []SignedIsIssued
<1>1. PInv => SignedIsIssued
  BY DEF PInv, RecordsFit, Shown, SignedIsIssued
<1> QED
  BY <1>1, PipelineInductive, PTL


-----------------------------------------------------------------------------
(* The device is one of the clients the service may have.                  *)

LEMMA StepOfService ==
  ASSUME PInv, [Next]_vars
  PROVE  \/ Quiet
         \/ \E r \in Reqs : Hangup(r)
         \/ \E item \in drain.todo, r \in Reqs : Upload(item, r)
<1>1. CASE UNCHANGED vars
  BY <1>1 DEF vars, Quiet
<1>2. ASSUME NEW c \in Certs,
             Screens(c) \/ BackfillNumber(c) \/ BackoffOver(c) \/ PdfEvicted(c)
      PROVE  Quiet
  <2>1. CASE StartVerification(c) \/ BackfillNumber(c)
    BY <2>1 DEF StartVerification, BackfillNumber, Quiet
  <2>2. CASE ~(StartVerification(c) \/ BackfillNumber(c))
    <3>1. UNCHANGED serverVars
      BY <1>2, <2>2 DEF Screens, OpenResults, LeaveScreen, EditResults, Sign, Enqueue,
         EnqueueFails, Discard, ArchiveDraft, BackoffOver, PdfEvicted
    <3> QED
      BY <3>1 DEF Quiet
  <2> QED
    BY <2>1, <2>2
<1>3. CASE \/ \E item \in drain.todo : SkipItem(item) \/ BadPdf(item) \/ UploadFails(item)
           \/ StartDrain \/ StartConfirm \/ EndDrain \/ UploadTimeout \/ AppKilled
  <2>1. UNCHANGED serverVars
    BY <1>3 DEF SkipItem, BadPdf, UploadFails, StartDrain, StartConfirm, EndDrain,
                UploadTimeout, AppKilled
  <2> QED
    BY <2>1 DEF Quiet
<1>4. CASE ConfirmSigned \/ \E item \in drain.todo : ConfirmLater(item)
  <2>1. UNCHANGED serverVars \/ \E n : Receipt(n)
    BY <1>4 DEF ConfirmSigned, ConfirmLater
  <2> QED
    BY <2>1, ReceiptGiven DEF Quiet
<1>5. CASE Signed \/ UploadRejected
  <2>1. drain.slot \in Reqs /\ Hangup(drain.slot)
    BY <1>5 DEF Signed, UploadRejected, PInv, DrainFits
  <2> QED
    BY <2>1
<1>6. ASSUME NEW r \in Reqs, ServerStep(r) \/ ServerTrouble(r) \/ DropAnswer(r)
      PROVE  Quiet \/ Hangup(r)
  BY <1>6 DEF ServerStep, ServerTrouble, DropAnswer, Quiet
<1> QED
  BY <1>1, <1>2, <1>3, <1>4, <1>5, <1>6 DEF Next, DrainStep

LEMMA UploadIsSubmit ==
  ASSUME PInv, NEW item \in drain.todo, NEW r \in Reqs, Upload(item, r)
  PROVE  /\ item.key \in Keys /\ item.form.num \in Numbers /\ item.form.ver \in Versions
         /\ Submit(r, item.key, item.form.num, item.form.ver)
BY DEF Upload, PInv, DrainFits, ItemFits, Given, Form

(* Composed with the queue, the service still behaves as it specifies:     *)
(* what is proved of it for any client holds behind this one.              *)
THEOREM PipelineIsService == Spec => ServerSpec
<1>1. Init => ServerInit
  BY DEF Init
<1>2. PInv /\ [Next]_vars => [ServerNext]_serverVars
  <2> SUFFICES ASSUME PInv, [Next]_vars PROVE [ServerNext]_serverVars
    OBVIOUS
  <2>1. CASE Quiet
    BY <2>1, QuietIsService
  <2>2. ASSUME NEW r \in Reqs, Hangup(r) PROVE ServerNext
    BY <2>2 DEF ServerNext
  <2>3. ASSUME NEW item \in drain.todo, NEW r \in Reqs, Upload(item, r) PROVE ServerNext
    BY <2>3, UploadIsSubmit DEF ServerNext
  <2> QED
    BY <2>1, <2>2, <2>3, StepOfService
<1> QED
  BY <1>1, <1>2, PipelineInductive, PTL DEF Spec, ServerSpec

(* A queue that waits for the answer before it sends again has at most one *)
(* request at the service.                                                 *)
OneRequest == \A q, r \in Reqs : handler[q].pc # "idle" /\ handler[r].pc # "idle" => q = r

LEMMA OneRequestStep ==
  ASSUME ~Overlap, PInv, OneRequest, [Next]_vars
  PROVE  OneRequest'
<1>1. handler \in [Reqs -> Handler]
  BY DEF PInv, IInv, ServiceTypeOK
<1>2. CASE Quiet
  <2>1. ASSUME NEW r \in Reqs, handler'[r].pc # "idle"
        PROVE  handler[r].pc # "idle"
    <3>1. CASE \E q \in Reqs : Progress(q) \/ Trouble(q)
      <4>1. PICK q \in Reqs : Progress(q) \/ Trouble(q)
        BY <3>1
      <4>2. /\ r # q => handler'[r] = handler[r]
            /\ handler[q].pc # "idle"
        BY <4>1, WorkKeeps DEF PInv
      <4> QED
        BY <2>1, <4>2
    <3>2. CASE UNCHANGED serverVars \/ \E n \in Numbers : ReserveNumber(n) \/ Receipt(n)
      <4>1. handler' = handler
        BY <3>2 DEF serverVars, ReserveNumber, Receipt
      <4> QED
        BY <2>1, <4>1
    <3> QED
      BY <1>2, <3>1, <3>2 DEF Quiet
  <2> QED
    BY <2>1 DEF OneRequest
<1>3. ASSUME NEW r \in Reqs, Hangup(r) PROVE OneRequest'
  BY <1>1, <1>3, IdleType DEF Hangup, OneRequest
<1>4. ASSUME NEW item \in drain.todo, NEW r \in Reqs, Upload(item, r) PROVE OneRequest'
  BY <1>1, <1>4 DEF Upload, Submit, OneRequest
<1> QED
  BY <1>2, <1>3, <1>4, StepOfService

(* Behind such a queue the archive is write-once.                          *)
THEOREM QueueKeepsArchive ==
  ASSUME ~Overlap
  PROVE  Spec => []StoredMatchesRow
<1>1. Init => OneRequest
  BY IdleType DEF Init, ServerInit, OneRequest
<1>2. PInv /\ OneRequest /\ [Next]_vars => OneRequest'
  BY OneRequestStep
<1>3. OneRequest => NoOverlap
  BY DEF OneRequest, NoOverlap, InFlight
<1>4. Spec => []NoOverlap
  BY <1>1, <1>2, <1>3, PipelineInductive, PTL DEF Spec
<1> QED
  BY <1>4, PipelineIsService, ArchiveIsWriteOnce, PTL
=============================================================================
