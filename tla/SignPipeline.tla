---------------------------- MODULE SignPipeline -----------------------------
(***************************************************************************)
(* One device's sign queue (mobile/src/queue/signQueue.ts over             *)
(* mobile/src/db/certificateRepo.ts) composed with the signing service it  *)
(* uploads to.                                                             *)
(*                                                                         *)
(* The records live in SQLite and survive a crash of the app; screens, the *)
(* sign flow waiting for its biometric prompt, and the running drain do    *)
(* not.  JavaScript runs one callback at a time: an action is the code     *)
(* between two awaits.  A request outlives the client that sent it.        *)
(***************************************************************************)
EXTENDS SignService

CONSTANTS
  Certs,      \* local record ids
  UserActs,   \* what the environment does beyond the plain flow, see AllActs
  Overlap,    \* may an attempt be sent while an earlier request is still being served?
  MaxFaults   \* bound: lost calls, timeouts, failures and crashes together

(* "offline":  a draft is started without a connection, hence without a number   *)
(* "lateEdit": a results screen left open is edited after its record was signed  *)
(* "discard":  a queued certificate is discarded, a draft deleted                *)
(* "archive":  the work order closes while its certificate is being prepared     *)
(* "evict":    the rendered PDF disappears from the cache directory              *)
AllActs == {"offline", "lateEdit", "discard", "archive", "evict"}

ASSUME CertsAssumption     == Certs # {}
ASSUME UserActsAssumption  == UserActs \subseteq AllActs
ASSUME OverlapAssumption   == Overlap \in BOOLEAN
ASSUME MaxFaultsAssumption == MaxFaults \in Nat

VARIABLES
  rec,       \* the SQLite table: Certs -> record
  screen,    \* Certs -> the form a mounted results/sign screen holds in memory
  enq,       \* Certs -> the verification a sign flow is carrying through its awaits
  drain,     \* the drain in progress (the `draining` mutex)
  nextKey,   \* the next fresh idempotency key (randomUUID)
  approved,  \* history: key -> the form the technician approved with it
  faults     \* faults so far

clientVars == <<rec, screen, enq, drain, nextKey, approved, faults>>
vars == <<serverVars, clientVars>>

AnyVersion == CHOOSE v \in Versions : TRUE
NoForm == [num |-> 0, ver |-> "none"]
MaybeForm == [num : Numbers \cup {0}, ver : Versions \cup {"none"}]

DraftStates == {"DRAFT", "READY_TO_SIGN"}
States == DraftStates \cup {"QUEUED_FOR_SIGNING", "UPLOADING", "SIGNED", "SYNCED"}

(* STATE_TRANSITIONS of shared/schema/src/envelope.ts.                     *)
CanTransition(from, to) ==
  <<from, to>> \in {<<"DRAFT", "READY_TO_SIGN">>,
                    <<"READY_TO_SIGN", "DRAFT">>,
                    <<"READY_TO_SIGN", "QUEUED_FOR_SIGNING">>,
                    <<"QUEUED_FOR_SIGNING", "UPLOADING">>,
                    <<"UPLOADING", "QUEUED_FOR_SIGNING">>,
                    <<"UPLOADING", "SIGNED">>,
                    <<"SIGNED", "SYNCED">>}

\* "none": not created yet; "gone": deleted.  hold: next_retry_at lies in the future.
Record == [state : States \cup {"none", "gone"}, num : Numbers \cup {0}, form : MaybeForm,
           key : Nat, pdf : {"none", "ok", "lost"}, signed : Nat,
           archived : BOOLEAN, hold : BOOLEAN]

NoRecord == [state |-> "none", num |-> 0, form |-> NoForm, key |-> 0, pdf |-> "none",
             signed |-> 0, archived |-> FALSE, hold |-> FALSE]

Exists(c) == rec[c].state \in States

\* What a drain reads into memory of one record when it starts.
Item == [cert : Certs, num : Numbers \cup {0}, key : Nat, form : MaybeForm]
ItemOf(c) == [cert |-> c, num |-> rec[c].num, key |-> rec[c].key, form |-> rec[c].form]

DrainIdle == [pc |-> "idle", todo |-> {}, cert |-> CHOOSE c \in Certs : TRUE,
              slot |-> 0, num |-> 0]

ClientTypeOK ==
  /\ rec \in [Certs -> Record]
  /\ screen \in [Certs -> MaybeForm]
  /\ enq \in [Certs -> MaybeForm]
  /\ drain.pc \in {"idle", "items", "wait", "receipt", "confirm"}
  /\ drain.todo \subseteq Item
  /\ drain.cert \in Certs /\ drain.slot \in Reqs \cup {0} /\ drain.num \in Numbers \cup {0}
  /\ nextKey \in Nat \ {0}
  /\ approved \in [Keys -> MaybeForm]
  /\ faults \in Nat

PipelineTypeOK == ServiceTypeOK /\ ClientTypeOK

Init ==
  /\ ServerInit
  /\ rec = [c \in Certs |-> NoRecord]
  /\ screen = [c \in Certs |-> NoForm]
  /\ enq = [c \in Certs |-> NoForm]
  /\ drain = DrainIdle
  /\ nextKey = 1
  /\ approved = [k \in Keys |-> NoForm]
  /\ faults = 0

Fault == faults < MaxFaults /\ faults' = faults + 1

-----------------------------------------------------------------------------
(* The screens.                                                            *)

\* register.tsx: reserve a number if the server can be reached, create the draft, open it.
StartVerification(c) ==
  /\ rec[c].state = "none"
  /\ \E n \in Numbers \cup {0} :
       /\ \/ n # 0 /\ ReserveNumber(n) /\ UNCHANGED faults
          \/ n = 0 /\ "offline" \in UserActs /\ UNCHANGED <<serverVars, faults>>
          \/ n = 0 /\ (\E lost \in Numbers : ReserveNumber(lost)) /\ Fault
       /\ LET form == [num |-> n, ver |-> AnyVersion] IN
            /\ rec' = [rec EXCEPT ![c].state = "DRAFT", ![c].num = n, ![c].form = form]
            /\ screen' = [screen EXCEPT ![c] = form]
  /\ UNCHANGED <<enq, drain, nextKey, approved>>

\* Home lists drafts and opens the results screen on the stored form.
OpenResults(c) ==
  /\ rec[c].state \in DraftStates /\ ~rec[c].archived
  /\ screen[c] = NoForm
  /\ screen' = [screen EXCEPT ![c] = rec[c].form]
  /\ UNCHANGED <<serverVars, rec, enq, drain, nextKey, approved, faults>>

LeaveScreen(c) ==
  /\ screen[c] # NoForm /\ enq[c] = NoForm
  /\ screen' = [screen EXCEPT ![c] = NoForm]
  /\ UNCHANGED <<serverVars, rec, enq, drain, nextKey, approved, faults>>

\* saveDraftForm: writes the form and DRAFT, whatever the state is; a missing row is not created.
SaveDraftForm(c, form) ==
  rec' = IF Exists(c) THEN [rec EXCEPT ![c].form = form, ![c].state = "DRAFT"] ELSE rec

\* The debounced autosave of a results screen writes the form that screen holds.
EditResults(c, v) ==
  /\ screen[c] # NoForm
  /\ "lateEdit" \in UserActs \/ (rec[c].state \in DraftStates /\ enq[c] = NoForm)
  /\ LET form == [screen[c] EXCEPT !.ver = v] IN
       /\ screen' = [screen EXCEPT ![c] = form]
       /\ SaveDraftForm(c, form)
  /\ UNCHANGED <<serverVars, enq, drain, nextKey, approved, faults>>

\* doSign up to the biometric prompt; validateReadyToSign wants the number in the form.
Sign(c) ==
  /\ screen[c] # NoForm /\ enq[c] = NoForm
  /\ screen[c].num # 0
  /\ "lateEdit" \in UserActs \/ rec[c].state \in DraftStates
  /\ SaveDraftForm(c, screen[c])
  /\ enq' = [enq EXCEPT ![c] = screen[c]]
  /\ UNCHANGED <<serverVars, screen, drain, nextKey, approved, faults>>

\* Prompt confirmed, position taken, PDF rendered: READY_TO_SIGN, then QUEUED_FOR_SIGNING.
Enqueue(c) ==
  /\ enq[c] # NoForm
  /\ CanTransition(rec[c].state, "READY_TO_SIGN")
  /\ nextKey \in Keys
  /\ rec' = [rec EXCEPT ![c].state = "QUEUED_FOR_SIGNING", ![c].form = enq[c],
                        ![c].key = nextKey, ![c].pdf = "ok"]
  /\ approved' = [approved EXCEPT ![nextKey] = enq[c]]
  /\ nextKey' = nextKey + 1
  /\ enq' = [enq EXCEPT ![c] = NoForm]
  /\ UNCHANGED <<serverVars, screen, drain, faults>>

\* The prompt was cancelled, or transition() threw because the record is no longer a draft.
EnqueueFails(c) ==
  /\ enq[c] # NoForm
  /\ enq' = [enq EXCEPT ![c] = NoForm]
  /\ UNCHANGED <<serverVars, rec, screen, drain, nextKey, approved, faults>>

\* discard (draft or queued) and deleteDraft (draft).
Discard(c) ==
  /\ "discard" \in UserActs
  /\ rec[c].state \in DraftStates \cup {"QUEUED_FOR_SIGNING"}
  /\ rec' = [rec EXCEPT ![c] = [NoRecord EXCEPT !.state = "gone"]]
  /\ UNCHANGED <<serverVars, screen, enq, drain, nextKey, approved, faults>>

\* Home has loaded the work orders and archives the drafts of the closed ones.
ArchiveDraft(c) ==
  /\ "archive" \in UserActs
  /\ rec[c].state \in DraftStates /\ ~rec[c].archived
  /\ rec' = [rec EXCEPT ![c].archived = TRUE]
  /\ UNCHANGED <<serverVars, screen, enq, drain, nextKey, approved, faults>>

-----------------------------------------------------------------------------
(* The queue.                                                              *)

\* backfillCertificateNumbers: reserve, then assign to the record and its stored form.
BackfillNumber(c) ==
  /\ rec[c].state = "DRAFT" /\ ~rec[c].archived /\ rec[c].num = 0
  /\ \E n \in Numbers :
       /\ ReserveNumber(n)
       /\ \/ /\ rec' = [rec EXCEPT ![c].num = n, ![c].form.num = n]
             /\ UNCHANGED faults
          \/ Fault /\ UNCHANGED rec
  /\ UNCHANGED <<screen, enq, drain, nextKey, approved>>

\* listInState leaves archived records out.
InState(s) == {c \in Certs : rec[c].state = s /\ ~rec[c].archived}

\* Bug: an orphan of a killed app stays UPLOADING.
RecoveredNever(c) == rec[c].state

\* What a drain leaves behind of an UPLOADING record when it finds one: an orphan goes back.
Recovered(c) == IF c \in InState("UPLOADING") THEN "QUEUED_FOR_SIGNING" ELSE rec[c].state

\* drainOnce up to its first await: orphans back to the queue, then the snapshot.
StartDrain ==
  /\ drain.pc = "idle"
  /\ InState("UPLOADING") \cup InState("QUEUED_FOR_SIGNING") \cup InState("SIGNED") # {}
  /\ rec' = [c \in Certs |-> [rec[c] EXCEPT !.state = Recovered(c)]]
  /\ drain' = [drain EXCEPT !.pc = "items",
                 !.todo = {ItemOf(c) : c \in {d \in InState("UPLOADING")
                                                    \cup InState("QUEUED_FOR_SIGNING") :
                                                ~rec[d].hold}}]
  /\ UNCHANGED <<serverVars, screen, enq, nextKey, approved, faults>>

\* recordRetryFailure, after the catch block has put an UPLOADING record back in the queue.
AfterFailure(rc) ==
  CASE rc.state = "UPLOADING" -> [rc EXCEPT !.state = "QUEUED_FOR_SIGNING", !.hold = TRUE]
    [] rc.state = "SIGNED" -> rc
    [] rc.state \in {"none", "gone"} -> rc
    [] OTHER -> [rc EXCEPT !.hold = TRUE]

NextItem(item) == [drain EXCEPT !.pc = "items", !.todo = drain.todo \ {item}]

\* The item left the queue since the snapshot.
SkipItem(item) ==
  /\ drain.pc = "items" /\ item \in drain.todo
  /\ rec[item.cert].state # "QUEUED_FOR_SIGNING"
  /\ drain' = NextItem(item)
  /\ UNCHANGED <<serverVars, rec, screen, enq, nextKey, approved, faults>>

\* The rendered PDF is missing or fails its hash: the attempt counts as failed.
BadPdf(item) ==
  /\ drain.pc = "items" /\ item \in drain.todo
  /\ Exists(item.cert) /\ rec[item.cert].pdf = "lost"
  /\ rec' = [rec EXCEPT ![item.cert] = AfterFailure(@)]
  /\ drain' = NextItem(item)
  /\ UNCHANGED <<serverVars, screen, enq, nextKey, approved, faults>>

\* Bug: the form is read again, the key is the snapshot's.
UploadCurrentForm(item, r) ==
  LET form == rec[item.cert].form IN
  /\ drain.pc = "items" /\ item \in drain.todo
  /\ rec[item.cert].state = "QUEUED_FOR_SIGNING" /\ rec[item.cert].pdf = "ok"
  /\ Overlap \/ \A q \in Reqs : handler[q].pc = "idle"
  /\ Submit(r, item.key, form.num, form.ver)
  /\ rec' = [rec EXCEPT ![item.cert].state = "UPLOADING"]
  /\ drain' = [NextItem(item) EXCEPT !.pc = "wait", !.cert = item.cert, !.slot = r]
  /\ UNCHANGED <<screen, enq, nextKey, approved, faults>>

\* UPLOADING, and the package of the snapshot is sent.
Upload(item, r) ==
  /\ drain.pc = "items" /\ item \in drain.todo
  /\ rec[item.cert].state = "QUEUED_FOR_SIGNING" /\ rec[item.cert].pdf = "ok"
  /\ Overlap \/ \A q \in Reqs : handler[q].pc = "idle"
  /\ Submit(r, item.key, item.form.num, item.form.ver)
  /\ rec' = [rec EXCEPT ![item.cert].state = "UPLOADING"]
  /\ drain' = [NextItem(item) EXCEPT !.pc = "wait", !.cert = item.cert, !.slot = r]
  /\ UNCHANGED <<screen, enq, nextKey, approved, faults>>

\* UPLOADING, but the device key or the network fails before anything is sent.
UploadFails(item) ==
  /\ drain.pc = "items" /\ item \in drain.todo
  /\ rec[item.cert].state = "QUEUED_FOR_SIGNING"
  /\ Fault
  /\ rec' = [rec EXCEPT ![item.cert].hold = TRUE]
  /\ drain' = NextItem(item)
  /\ UNCHANGED <<serverVars, screen, enq, nextKey, approved>>

\* Bug: the bytes are hashed, but not compared with the stated hash.
SignedUnverified ==
  LET h == handler[drain.slot] IN
  /\ drain.pc = "wait" /\ h.pc = "done" /\ h.status = "issued"
  /\ CanTransition(rec[drain.cert].state, "SIGNED")
  /\ rec' = [rec EXCEPT ![drain.cert].state = "SIGNED", ![drain.cert].signed = h.pdf]
  /\ drain' = [drain EXCEPT !.pc = "receipt", !.num = h.num]
  /\ Hangup(drain.slot)
  /\ UNCHANGED <<screen, enq, nextKey, approved, faults>>

\* A 200 whose bytes have the stated hash; the signed PDF is stored and the record is SIGNED.
Signed ==
  LET h == handler[drain.slot] IN
  /\ drain.pc = "wait" /\ h.pc = "done"
  /\ h.status = "issued" /\ h.pdf = h.sig
  /\ CanTransition(rec[drain.cert].state, "SIGNED")
  /\ rec' = [rec EXCEPT ![drain.cert].state = "SIGNED", ![drain.cert].signed = h.sig]
  /\ drain' = [drain EXCEPT !.pc = "receipt", !.num = h.num]
  /\ Hangup(drain.slot)
  /\ UNCHANGED <<screen, enq, nextKey, approved, faults>>

\* An error status, a PDF that does not match its hash, or a record that is not UPLOADING any more.
UploadRejected ==
  LET h == handler[drain.slot] IN
  /\ drain.pc = "wait" /\ h.pc = "done"
  /\ \/ h.status # "issued"
     \/ h.pdf # h.sig
     \/ ~CanTransition(rec[drain.cert].state, "SIGNED")
  /\ rec' = [rec EXCEPT ![drain.cert] = AfterFailure(@)]
  /\ drain' = [drain EXCEPT !.pc = "items"]
  /\ Hangup(drain.slot)
  /\ UNCHANGED <<screen, enq, nextKey, approved, faults>>

\* The connection breaks or times out; the request may still be served.
UploadTimeout ==
  /\ drain.pc = "wait"
  /\ Fault
  /\ rec' = [rec EXCEPT ![drain.cert] = AfterFailure(@)]
  /\ drain' = [drain EXCEPT !.pc = "items"]
  /\ UNCHANGED <<serverVars, screen, enq, nextKey, approved>>

Synced(c) == IF CanTransition(rec[c].state, "SYNCED")
             THEN [rec EXCEPT ![c].state = "SYNCED"]
             ELSE [rec EXCEPT ![c] = AfterFailure(@)]

\* confirmReceipt for the certificate just signed; a failure leaves it SIGNED.
ConfirmSigned ==
  /\ drain.pc = "receipt"
  /\ drain' = [drain EXCEPT !.pc = "items"]
  /\ \/ Receipt(drain.num) /\ rec' = Synced(drain.cert) /\ UNCHANGED faults
     \/ /\ Receipt(drain.num) \/ UNCHANGED serverVars
        /\ Fault
        /\ rec' = [rec EXCEPT ![drain.cert] = AfterFailure(@)]
  /\ UNCHANGED <<screen, enq, nextKey, approved>>

\* All items tried: list the records still SIGNED.
StartConfirm ==
  /\ drain.pc = "items" /\ drain.todo = {}
  /\ drain' = [drain EXCEPT !.pc = "confirm",
                 !.todo = {ItemOf(c) : c \in {d \in InState("SIGNED") : rec[d].num # 0}}]
  /\ UNCHANGED <<serverVars, rec, screen, enq, nextKey, approved, faults>>

\* The receipt of one of them; any failure is swallowed.
ConfirmLater(item) ==
  /\ drain.pc = "confirm" /\ item \in drain.todo
  /\ drain' = [drain EXCEPT !.todo = @ \ {item}]
  /\ \/ /\ Receipt(item.num)
        /\ rec' = IF CanTransition(rec[item.cert].state, "SYNCED")
                  THEN [rec EXCEPT ![item.cert].state = "SYNCED"] ELSE rec
        /\ UNCHANGED faults
     \/ /\ Fault
        /\ Receipt(item.num) \/ UNCHANGED serverVars
        /\ UNCHANGED rec
  /\ UNCHANGED <<screen, enq, nextKey, approved>>

EndDrain ==
  /\ drain.pc = "confirm" /\ drain.todo = {}
  /\ drain' = DrainIdle
  /\ UNCHANGED <<serverVars, rec, screen, enq, nextKey, approved, faults>>

\* The backoff runs out, or the technician taps "Retry" / "Sync now" (clearRetryBackoff).
BackoffOver(c) ==
  /\ rec[c].hold
  /\ rec' = [rec EXCEPT ![c].hold = FALSE]
  /\ UNCHANGED <<serverVars, screen, enq, drain, nextKey, approved, faults>>

-----------------------------------------------------------------------------
(* What nobody asked for.                                                  *)

\* The process is killed, possibly between the two transitions of an enqueue.
AppKilled ==
  /\ Fault
  /\ \/ UNCHANGED rec
     \/ \E c \in Certs : /\ enq[c] # NoForm /\ rec[c].state = "DRAFT"
                         /\ rec' = [rec EXCEPT ![c].state = "READY_TO_SIGN"]
  /\ screen' = [c \in Certs |-> NoForm]
  /\ enq' = [c \in Certs |-> NoForm]
  /\ drain' = DrainIdle
  /\ UNCHANGED <<serverVars, nextKey, approved>>

\* The file in the cache directory is cleared or damaged.
PdfEvicted(c) ==
  /\ "evict" \in UserActs
  /\ rec[c].pdf = "ok"
  /\ Fault
  /\ rec' = [rec EXCEPT ![c].pdf = "lost"]
  /\ UNCHANGED <<serverVars, screen, enq, drain, nextKey, approved>>

ServerStep(r) == Progress(r) /\ UNCHANGED clientVars

ServerTrouble(r) ==
  /\ Trouble(r)
  /\ Fault
  /\ UNCHANGED <<rec, screen, enq, drain, nextKey, approved>>

\* The answer to a request nobody waits for is dropped.
DropAnswer(r) ==
  /\ ~(drain.pc = "wait" /\ drain.slot = r)
  /\ Hangup(r)
  /\ UNCHANGED clientVars

-----------------------------------------------------------------------------
Screens(c) ==
  \/ StartVerification(c) \/ OpenResults(c) \/ LeaveScreen(c)
  \/ \E v \in Versions : EditResults(c, v)
  \/ Sign(c) \/ Enqueue(c) \/ EnqueueFails(c)
  \/ Discard(c) \/ ArchiveDraft(c)

\* What a running drain does next; UploadFails, UploadTimeout and AppKilled are the faults.
DrainStep ==
  \/ \E item \in drain.todo : \/ SkipItem(item) \/ BadPdf(item) \/ ConfirmLater(item)
                              \/ \E r \in Reqs : Upload(item, r)
  \/ Signed \/ UploadRejected \/ ConfirmSigned \/ StartConfirm \/ EndDrain

Next ==
  \/ \E c \in Certs : Screens(c) \/ BackfillNumber(c) \/ BackoffOver(c) \/ PdfEvicted(c)
  \/ StartDrain \/ DrainStep \/ UploadTimeout \/ AppKilled
  \/ \E item \in drain.todo : UploadFails(item)
  \/ \E r \in Reqs : ServerStep(r) \/ ServerTrouble(r) \/ DropAnswer(r)

Spec == Init /\ [][Next]_vars

(* Launch, foreground, reconnect and the 60 s interval keep starting       *)
(* drains; a drain, a request being served and a backoff all come to an    *)
(* end.  Nothing makes a technician sign, and nothing is fair to a fault.  *)
Fairness ==
  /\ WF_vars(StartDrain) /\ WF_vars(DrainStep)
  /\ \A c \in Certs : WF_vars(BackoffOver(c)) /\ WF_vars(BackfillNumber(c))
  /\ \A r \in Reqs : WF_vars(ServerStep(r)) /\ WF_vars(DropAnswer(r))

FairSpec == Spec /\ Fairness

-----------------------------------------------------------------------------
(* What was issued under a key is what the technician approved with that   *)
(* key: the package uploaded is one snapshot, whatever happened to the     *)
(* record between listing and sending it.                                  *)
IssuedAsApproved ==
  \A row \in rows : approved[row.key] = [num |-> row.num, ver |-> row.ver]

(* A record the device shows as signed has a certificate on the server     *)
(* under its own number, with the hash the device stored; SYNCED means the *)
(* server has confirmed the audit record too.                              *)
SignedIsIssued ==
  \A c \in Certs :
    /\ rec[c].state \in {"SIGNED", "SYNCED"} =>
         \E row \in rows : row.num = rec[c].num /\ row.sig = rec[c].signed
    /\ rec[c].state = "SYNCED" => Event("sync_confirmed", rec[c].num, 0) \in audit

(* Signing finishes by itself once the connection holds (queued.tsx),      *)
(* unless the technician discards the certificate before it is issued.     *)
QueuedGetsSynced ==
  \A c \in Certs : rec[c].state = "QUEUED_FOR_SIGNING" ~> rec[c].state \in {"SYNCED", "gone"}
=============================================================================
