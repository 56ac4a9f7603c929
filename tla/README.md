# Formal model of the calibration-certificate platform

TLA+ modules for the parts of the platform whose correctness depends on the
order of events: a verification from the data plate to the certificate that is
issued exactly once over a bad connection, a work order from the technician's
tap to its write-back in OnKey, the phone's copies of it all, and the jobs that
keep the backend in step with OnKey and Syspro. TLC checks every property on
small instances; TLAPS proves the most important ones for every value of the
constants. Paths below are relative to the repository.

Contents: [Inventory](#inventory) · [Modules](#modules) · [Runs](#runs) ·
[Bounds](#bounds) · [Fairness](#fairness) · [Proofs](#proofs) ·
[Only model-checked](#only-model-checked) · [Disagreements](#disagreements) ·
[Not modelled](#not-modelled) · [Plan](#plan)

## Inventory

| Component | State it keeps | Operations | Talks to | Hard behaviour | What makes it correct |
|---|---|---|---|---|---|
| Sign queue (mobile): `mobile/src/queue`, `mobile/src/db/certificateRepo.ts` | one SQLite row per certificate: state, number, form, idempotency key, PDF, backoff, archived | create draft, autosave, sign, drain, backfill, discard, archive, retry | signing service | the app killed between two awaits; lost answers; screens that stay mounted; drains started from five places | what is issued is what was approved; queued work is finished |
| Signing service: `backend/app/routers/certificates.py`, `pdf_store.py`, `audit.py` | `certificates`, `sequence_counters`, `audit_events`, the PDF bucket | reserve-number, sign, rejection, pdf, receipt | Postgres, bucket, TSA/KMS | overlapping attempts with one key; a bucket outside the transaction; a crash after commit | no key and no number is issued twice; issued PDFs are retrievable |
| Verification screens: `mobile/app/dispenser/[id]`, `mobile/app/verification/[id]` | the draft, and a copy of it per screen | data plate, register and gate, results with autosave, sign-off, reject | shared rules, sign queue | stale screens, days that pass, drafts of older versions | a certificate sealed on the phone can be acted on: accepted, or refused for time alone |
| Shared rules: `shared/schema/src` and their Python twins | none | tolerance, readiness, rejection, test plans | both sides | two implementations that must agree | phone and service take the same decision |
| Mobile write outbox and mirror: `mobile/src/sync`, `mobile/src/db/cache.ts` | the tables `outbox` and `cache` | enqueue, drain, pull | Supabase RPCs, backend | replay after a lost answer; two drains at once; a rejected event blocks its work order | per work order, writes are applied once and in order |
| Site and dispenser register: `mobile/app/site`, `mobile/app/workorder`, `mobile/src/api/client.ts`, `workorders.py` | sites, dispensers, components, their cached copies | add, edit, retire, save a detail | outbox, mirror sync | optimistic copies against pulls; refusals; drains cut off | a kept write is delivered or refused for a reason of its own |
| Job card screens: `mobile/app/wo/[id].tsx`, `spares`, `signoff` | a copy of the card per screen, the page's state | verbs, card editing, booking parts, sealing | client.ts, outbox | slow, lost and reordered answers; edits not yet saved | an entry the technician waited for is in the sealed card; the page is no dead end |
| Work list and freshness gate: `FreshnessGate.tsx`, `home.tsx`, `sites.tsx` | `wo:records`, the gate, the filtered list | refresh, gate, search, in-progress cards | cache, register | answers of an earlier officer or session; a gate that waits for three requests | what is shown is the officer's own and current |
| Work-order lifecycle: `app_wo_transition` (migration 108), `app_wo_stand_down` (070), `app_job_card_save` (067), `app_job_card_sign` (110) | `work_order_lifecycle`, `work_order_job_cards` | on_the_way, start, pause, stop, sign_off, stand_down, save, sign | OnKey outbox, in the same transaction | events replayed late with the device's clock; unlocked read-then-update | a signed, stopped job is signed off; the queue tells the state |
| OnKey outbox and drain: `app_wo_enqueue_onkey` (053), `onkey_outbox_next` (049), `supabase/functions/onkey` | `onkey_outbox`, run records, parked report rows | enqueue chain, drain head, retry, give up, export | OnKey SOAP | head-of-line blocking; a write whose answer was lost; sessions that expire | status changes reach OnKey in order; a session is logged off |
| OnKey session lease: migrations 096, 101-107 | `onkey_session_lease` | take, release, kick, verify | pg_cron, backend | a holder that outlives its lease; a kick that was not delivered | one session at a time |
| OnKey read sync: `backend/app/workorders/onkey_sync.py` | raw snapshots, register, delta cursor | delta, full, sweep, derive | OnKey export | edits OnKey shows late; a window that fails half way; lanes that overlap | the cursor passes no edit it has not stored |
| Syspro stock ingest: `backend/app/syspro` | `syspro_stock`, watermark | full and incremental loads | Syspro over TDS | rows that change under a load; a failing batch | the watermark covers what it claims; a prune takes only what is gone |
| Accounts and devices: `mobile/src/auth`, `backend/app/devices.py`, `routers/devices.py` | session, device rows | sign in and out, refresh, enrol, approve, revoke | sign service | accounts that change while refreshes and drains are under way; enrolments and uploads decided on rows read earlier | a certificate goes under its officer's own token, from a device active for the account |
| Measure register: `mobile/app/profile.tsx`, `technicians.py` | measures, profile, view-as | register, mirror, view as | outbox, cache | a cache that outlives a sign-out | a profile holds its officer's own measures |

### Interactions

The phone keeps certificates in SQLite and sends each as one package to the
signing service; nothing else connects the two. The service puts the signed PDF
into a bucket that is not part of the transaction and then commits a row.
Work-order events go through the mobile outbox to Postgres functions, which
queue OnKey writes in the same transaction; an edge function drains that queue
inside a leased OnKey session, and the read sync later confirms or contradicts
what was written. The screens work on copies: of the list, of the card, of the
register, each renewed by requests that are answered in any order.

## Modules

```
CertificateIssue  <- implemented by -  SignService  <- EXTENDS -  SignPipeline

JobLifecycle  <- EXTENDS -  OnKeyOutbox  <- EXTENDS -  WorkOrder  <- EXTENDS -  OnKeyDrain
     ^  ^
     |  +---- EXTENDS -  WriteOutbox          OnKeyFunction (the drain, line by line)
     +------- EXTENDS -  JobScreen            SessionLease   ReadSync   StockIngest

PhoneSession  <- EXTENDS -  DeviceEnrolment, MeasureRegister

Verification   JobCardScreens   SiteRegister   WorkList
```

A *Proofs* module EXTENDS the module it proves about; `WorkOrderProofs` holds
the theorems of WorkOrder, OnKeyDrain and JobScreen. An *MC* module gives the
constants their values and puts components that share no state side by side: a behaviour
moves one side and the others rest, so a run explores the sum of the sides, not
their product. What a resting side could choose at the start is fixed, and the
fairness of a side is the antecedent of what that side makes happen.

### Signing: CertificateIssue, SignService, SignPipeline

*CertificateIssue* is the promise a customer relies on: a growing set of issued
(key, number) pairs, no key and no number twice, a rejection only after the
verification it rejects, nothing ever revoked.

*SignService* is `certificates.py`. State: `rows` (table `certificates`),
`object` (the bucket, by number), `handler` (the requests being served, one
per slot of `Reqs`), `nextSig` (every PAdES signature differs, so a signature
number also stands for the SHA-256 of the signed PDF), `nextNumber`
(`sequence_counters`), `audit`.

| Action | Code |
|---|---|
| `ReserveNumber` | `reserve_number`, one locked transaction |
| `Submit` | arrival of POST /sign |
| `RefuseEarly` | steps 1 and 1b: schema and test plan |
| `CheckKey` | step 2, replay of a known idempotency key |
| `CheckNumber` | step 3, number already issued; for a rejection, the parent lookup |
| `Refuse` | steps 4 to 7: subject, device, readiness, hash, text layer |
| `SignAndStore`, `StoreFails` | step 8: sign, then `PdfStore.put` with its upsert on 409 |
| `Commit` | flush and commit with the two unique constraints |
| `Respond`, `RespondFails` | `_response_for` |
| `HandlerCrash`, `Hangup` | the process dies; the slot is free again |
| `FetchPdf`, `Receipt` | the two GET endpoints |

Each step boundary is a place where another handler can run: the sessions are
READ COMMITTED and take no lock before the commit. The content checks are one
nondeterministic refusal each, except the parent lookup, which reads `rows`;
what they say of a real form is Verification's.

*SignPipeline* composes one phone with SignService (EXTENDS it and conjoins its
actions). State: `rec` (the SQLite rows), `screen` (the form a mounted screen
holds), `enq` (a sign flow waiting for the biometric prompt, position or PDF),
`drain` (the `draining` promise with its snapshot), `approved` (history: the
form approved under each key), `nextKey`, `faults`. An action is the JavaScript
between two awaits. `screen`, `enq` and `drain` are lost when the app is killed
(`AppKilled`); `rec` and requests already sent are not. `UserActs` selects what
the environment does beyond the plain flow, `Overlap` whether a retry may be
sent while an earlier request is still being served. Simplifications, each
harmless for the properties: the retry counter is "still backing off"; reading
the PDF, re-checking the state and moving to UPLOADING are one step when nothing
intervenes (the re-check and the move are one synchronous block); reserving a
number in the backfill and assigning it are one step; device enrolment is a
possible `UploadFails`.

### A verification: Verification

The data plate (`identity.tsx`), the register screen and its gate
(`register.tsx`), the results with their autosave (`results.tsx`), the sign-off
(`sign.tsx`), the rejection (`reject.tsx`), each on the copy it opened with,
with the rules of `shared/schema/src` in both languages: `PlanPoints`,
`RequiredMeasures`, `Efd` and `Within`, `ValidateReadyToSign` on the phone,
`ServerRefuses` and `ValidatePlanConsistency` in the service.

| Action | Code |
|---|---|
| `AddMeasure`, `AddPliers`, `SaveIdentity`, `RefreshDetail` | profile and dispenser detail |
| `OpenRegisterDirectly`, `SaveAndStart`, `StartAnyway`, `LeaveRegister` | the gate, its "Start anyway", the draft it creates |
| `ShowResults`, `EnterHose`, `EnterDelivery`, `Autosave`, `LeaveResults`, `ContinueToSign` | the results screen, its 700 ms timer, its completeness check |
| `SignOpens`, `EnterSignOff`, `BackToResults`, `DoSign` | the sign-off |
| `ServiceJudges`, `SealRejection` | the service's reading of what was sealed; the rejection that may follow |
| `DayPasses` | measures expire between any two steps |

### The phone's accounts: PhoneSession, DeviceEnrolment, MeasureRegister

*PhoneSession* is `AuthContext.tsx`: the stored session, the one shown, the one
being restored and the tokens being refreshed (`SignIn`, `SignOut`,
`AskRefresh`, `Refreshed`, `Launch`, `Restored`, `Kill`).

*DeviceEnrolment* adds the service's rows for the device (`device`), the calls
the service is at work on (`calls`), and the drain that waits for one of them
(`sending`). The drain keeps the token it was given whoever signs in meanwhile.

| Action | Code |
|---|---|
| `SignCertificate` | a certificate is sealed and queued, naming the signed-in officer |
| `DrainBegins`, `UploadQueued`, `DrainEnds` | `drainOnce`: the snapshot, `ensureDeviceEnrolled`, one upload after another |
| `CallDropped`, `QueueKilled` | the connection breaks, or the app is killed; the service goes on |
| `EnrollReads`, `EnrollInserts` | `enroll`: the SELECT and the decision; the INSERT, which only the account's own row can refuse |
| `SignChecks`, `SignCommits` | steps 2 to 4b of `sign_certificate`; the row, after signature and bucket |
| `CallFails` | refused, lost, or the process died |
| `ApproveDevice`, `RevokeDevice` | the admin's endpoints |

Between the two steps of a call anything else may happen: another call's, an
approval, a revocation, a kill. The histories `together` and `early` name the
calls that were caught between theirs.

*MeasureRegister* adds an admin's view-as and the measures on their
way between service, cache, outbox and profile (`OpenProfile`, `LeaveProfile`,
`SubmitMeasure`, `ReplayMeasure`, `SyncMeasures`, `SwitchView`, `PullServed`,
`PullArrives`, `PullFails`, `ScreenKilled`).

### The work list: WorkList

State: `copy` (`wo:records`), `flights` (requests under way), `gate`
(`FreshnessGate`), `settling` (gates that have their list and still wait for the
scope and the vans of the stock), `focus` and `shown` (the tab in front and what it shows), the
certificates in progress and the register of sites.

| Action | Code |
|---|---|
| `SignedIn`, `SignedOut`, `Foreground`, `CheckNet`, `Overrun` | the gate: once per sign-in, after a while away, its check and its time limit |
| `GoHome`, `GoSites`, `GoAway`, `PullHome`, `PullSites`, `Type` | the tabs |
| `Read`, `Arrive`, `Failed` | a list request served, answered, failed (`fetchThrough`) |
| `GateSettles` | the three requests of `refreshCoreCaches` are in: the gate opens and Home is painted from the copy as it is by then |
| `DeleteDraft`, `RetryItem`, `Capture`, `QueueMoves` | the certificates that ride on the cards |
| `ListChanges`, `SitesSynced`, `RegisterAnswered`, `StampAges` | the planner, the mirror sync, the register's answer, the day |

### The job on the phone: JobScreen, JobCardScreens, WriteOutbox

*JobScreen* is the page `wo/[id].tsx` between technician and server: the verbs
`LifecycleActions.tsx` offers (`Offered`), the gate of the card (`Passes`), the
panels and the ways on they leave (`Ways`), and the calls of `client.ts`. Its
actions are `Open`, `Leave`, `TryAgain`, `GoTo`, `ComeBack`, `Tap`,
`ConfirmPause`, `CancelPause`, `FillCard`, `ToggleCalibration`, `Seen`,
`ClientSignature`, `ServeCall`, `AnswerComes`, `Lost`, `Recall`, `ReplayOwed`. A
tap is judged by the page's record, the server judges by its row (`Accepts`).

*JobCardScreens* is the two editors of one card and the screen that seals it:
the job page (`EditWork`, `PersistJob`, `AskTasks`), the spares page
(`OpenSpares`, `BookParts`), the sign-off (`OpenSignOff`, `PressSeal`), and the
requests between them and the server (`Serve`, `Answered`, `Unanswered`,
`Replay`). Every save sends the whole card and replaces it, which is what makes
the order of answers matter.

*WriteOutbox* is the outbox below both (`outbox.ts`), the calls that fill it
(`client.ts`) and the cached records (`cache.ts`).

| Action | Code |
|---|---|
| `Tap` | a button of `wo/[id].tsx` or the job card, from what the cache shows |
| `RpcServed`, `RpcLost`, `RpcDone` | the RPC; what client.ts does with the answer: cache it, throw, or queue the write and move the cached record |
| `ListServed`, `ListDone`, `CardFetched` | reads that overwrite the cache |
| `ReplayStart`, `ReplayServed`, `ReplayRecord`, `ReplayCut` | `drainOutbox` over its snapshot |
| `KillApp`, `Recall` | the app dies; the office takes the job away |

The RPC is one step (its transaction is WorkOrder's subject). Without the act
"overtake" a call is not served while writes of its job are queued, which is how
it is as long as the phone stays offline until its queue has drained. A 409 is a
refusal.

### The register: SiteRegister

The site's record, its dispensers and the components of one of them, on the
service, in the mirror and in the outbox. Forms: `SubmitAdd`, `Retire`,
`SubmitIdentity`; their calls: `CallServed`, `CallLost`, `CallAnswered`,
`CallRefused` (`CallStep`); screens' requests: `PageServed`, `PullArrives`; the
sync: `SyncBegins`, `DrainServed`, `DrainRefused`, `DrainCut`, `SyncServed`,
`SyncArrives`, `SyncFails` (`SyncStep`); the environment: `SignalChanges`,
`PhoneKilled`.

### The work order on the server: JobLifecycle, OnKeyOutbox, WorkOrder

*JobLifecycle* holds the rules `app_wo_transition` applies to a lifecycle row:
`Allowed`, `Clamp` (the device's clock against now(), the work order's creation
and the previous event), `Apply` (the UPDATE, with the row the transaction read
and the row it finds under the lock as two arguments). *OnKeyOutbox* holds the
rows of `onkey_outbox`: `Codes` (`wo_status_map`, with the two hops of a
blocking pause), `HopRows` (`onkey_transition_plan`), `CostingRow`, `Heads` and
`Latest` (ORDER BY created_at, seq, where nothing breaks a tie), `StartStatuses`.

*WorkOrder* is one work order. State: `lc` (`work_order_lifecycle`), `card`
(`work_order_job_cards`), `mirror` (`work_orders.status_code`), `outbox`
(`onkey_outbox`), `tx` (the transaction each connection runs), `now`.

| Action | Code |
|---|---|
| `TransitionRead`, `TransitionCommit`, `TransitionClash` | `app_wo_transition` (108): its SELECTs and checks; the UPDATE, the queueing and the roll-over of a stop to signed_off; the unique violation of two first events |
| `StandDownRead`, `StandDownCommit` | `app_wo_stand_down` (070) |
| `SaveRead`, `SaveCommit` | `app_job_card_save` (067) |
| `SignRead`, `Seal`, `SealRefused` | `app_job_card_sign` (110); a job that was not handed back goes on into `app_wo_transition` in the same transaction |

An RPC is two steps because it decides on rows it has not locked; the UPDATE
waits for the lock and works on the row it then finds. Every transaction has one
start time and no two have the same.

### The write-back: OnKeyDrain, OnKeyFunction, SessionLease

*OnKeyDrain* has the order of WorkOrder's queue. State: `run` (the row a running
invocation carries), `onkey` (the status and the costings OnKey has), `landed`
(history: the rows that took effect). Actions: `Pick` (`onkey_outbox_next`),
`Block` (the write allowlist), `Execute` (taken, refused, or an error before or
after it took effect), `Record` (the outcome, or `retryOrGiveUp`), `Killed`,
`BackoffOver`, `ReadSync` (the export and `wo_seed_from_onkey`).

*OnKeyFunction* has the invocations themselves: `Start` (the request and its run
record), `Logon`, `Call` (with the one repetition after a session fault),
`Park`, `Fold` and `Fetch` (the exports, 500 rows at a time), `WriteOutcome`,
`FinishRun`, `LogOff`, `Kill`, `Expire`. Here a costing is sent line by line and
invocations overlap.

*SessionLease* keeps their sessions apart. State: `lease` (the row, with its
owner as a history field), `running` (the single-flight flags of the backend),
`kick` (each kick with its request, its run and its log entry), `calm` (history:
nothing was late or dropped). Actions: `Take` (107, a guarded or patient kick,
and its request), `Arrive` (POST /v1/onkey/sync: started, or `accepted: false`), `Lost`,
`TimesOut` (pg_net gives up, and the request may still be served), `End`,
`HandBack`, `ClearFlag` (in that order), `BackendDies`, `Verify` (104), `Tick`.

### The read side: ReadSync, StockIngest

*ReadSync*: `onkey` (its clock, what its exports show, the edits stamped but not
shown yet), `raw` (the snapshots), `reg` (the register mined from them),
`cursor`, `lane` (the running syncs). `StartLane`, `LaneStep` (a window is
fetched, stored, derived), `DeltaStep` (probe, pages, finish), `LaneFails`,
`BackendRestarts`; OnKey: `EditOrder`, `ShowEdit` (at most `Lag` after its
stamp), `OnKeyTick`.

*StockIngest*: `syspro`, `stock`, `water` (the high-water mark), `verified` (the
vans), `load`, `loads`. `BeginLoad`, `NothingWanted`, `ReadMark`, `Batch`,
`FinishLoad` (watermark and prune), `Close`, `Die`; Syspro: `Change`, `Delete`,
`Verify`.

## Runs

| Run | Instance | Shows |
|---|---|---|
| `overlaps` | *sign*: 2 slots, 2 keys, 2 numbers (2 is the rejection of 1), 3 signatures. *job*: 2 connections, 6 transactions, a resumable pause. *phone*: 1 job, 2 calls, 2 drains, 3 taps, 1 fault, every act. *function*: 2 invocations, a costing of 2 lines, a report of 3 rows in bites of 2, 2 tries, 1 hiccup | calls that overlap anywhere: no key or number twice and the refinement of CertificateIssue (`IssuedOnce`), every issued PDF retrievable, answers about one's own certificate; a signed job never left stopped; a drain sends the oldest write of its job; sessions are logged off and a line is booked once per try |
| `phone` | *queue*: 1 certificate, 2 slots, 2 keys, 2 forms, every user act, overlapping attempts, 1 fault. *capture*: 1 hose, 2 points, right and failing deliveries, 3 measures, 2 days, 1 renewal, drafts of older versions. *device*: 2 technicians, 2 sign-ins, 2 calls at the service, enforcement on. *list* and *cards*: 2 officers and their lists, 2 requests at once, 2 gates, 1 drop | issued = approved and SIGNED/SYNCED are backed by the server; what was sealed is complete and can be rejected in turn, and the service refuses it for time alone; each certificate goes under its officer, and after a revocation only if it was under way; one account per device on trust, but for enrolments that overlap; the list is the officer's own and hides no certificate |
| `settles` | *sign*: 2 certificates, discards, 1 fault anywhere. *job*: 2 jobs, 4 taps, recalls, a drain cut off. *site*: 2 dispensers, 2 forms, 1 outage | the archive holds what the row says; writes are applied in order and once; the screens agree at rest; the register is as entered; and all of it is delivered in the end |
| `backend_jobs` | *lease*: 2 kicks, a fast mode, a logged mode and the drain. *sync*: 2 orders, pages of 1, two lanes, 1 edit. *cursor*: the delta lane for as long as its cursor needs | one run per mode, a lease is freed by its own, comes free, a kick is resolved; the delta cursor loses no edit and the register ends as OnKey is |
| `work_order` | *order*: 1 connection, 7 transactions, device clocks 3 and 1 late, right and 1 early, a resumable and a blocking pause, 2 contents. *page*: 7 acts, 4 hurried, 3 calls. *screens*: 1 part, 3 entries, 2 requests. *stock*: 2 items, 2 warehouses, 2 versions, 2 loads | a signed job is finished, the costing is the signed card, the queue tells the state hop by hop, pauses fit the work; the page leads on; what the technician waited for is on the card; the watermark covers what it claims and a prune is founded |
| `drain_order` | 1 connection, 3 transactions, blocking pauses, 2 attempts, an allowlist that changes, 1 fault | nothing overtakes, a given-up row was really refused, every row settles |
| `service_overlap` (violation) | 2 slots, 2 signatures | the archive is not write-once when requests overlap |
| `outbox_sign_overtakes` (violation) | 1 job, 5 taps | a signature sent online overtakes a queued save |
| `added_twice` (violation) | 3 ids, 1 form, 1 outage | a lost answer registers one dispenser twice |
| `drain_tie` (violation) | 1 connection, 4 transactions, no fault | a stop and its sign-off reach OnKey in either order |
| `plan_follows_plate` (violation) | as *capture* | a missing designation is taken for the standard plan |
| `measures_blank` (violation) | 2 technicians, an admin, 2 sign-ins | one officer's measures are mirrored into another's profile |

### Bounds

- *Signing.* Two slots are enough for every pairwise race: the code compares a
  request only with committed rows. Two keys and two numbers give same
  key/same number, same key/other number and other key/same number.
  `MaxSignings` is one more than each slot signing once, so a third attempt can
  come after both. `MaxFaults` bounds lost calls, timeouts, failing dependencies
  and kills together. Slots are interchangeable: `overlaps` uses their
  symmetry, and in `phone` they fill in order.
- *Capture.* One hose and two points reach both plans: a point every plan has
  and one with a nominal volume. A slip of 104 hundredths of a percent is
  outside the tolerance where 0 is inside. Two days are "in date" and "expired".
- *Work order.* `MaxNow` - 1 transactions. Seven are on the way, start, pause,
  resume, save, sign, and one more; the longest chain a property relates is a
  pause with two hops, a resume and a stop with its roll-over. Two connections
  are enough for each lost-update race.
- *Drain.* `MAX_ATTEMPTS` is 2 instead of 5: the properties tell only "last
  attempt" and "not the last". Three transactions queue up to two hops and the
  row after them. `GiveUp` and `Bite` of OnKeyFunction likewise stand for 5 and 500.
- *Lease.* Two kicks are a holder and a contender; a third only repeats the
  contender. Leases are longer than delay plus work, as migration 096 sets them.
- *Outbox.* Four taps over two jobs let one job block while the other goes on;
  three taps with two calls and two drains reach every race of one job's writes;
  five reach save, save, sign with the two transitions before them.
- *Screens.* `MaxHurried` and `MaxRushed` bound what a technician does around
  the first time an answer is not waited for; the properties are about the one
  who does wait, and the later steps show that nothing else is blocked.
- *Device.* Two technicians and two sign-ins are one officer and the next; two
  calls are an enrolment or upload and the one that overlaps it; two uploads
  at once are the *queue* side's. A session is restored or refreshed only
  between drains and calls, and changes only while a place for a call is free:
  a token already sent does not notice. An admin approves one of the accounts,
  and revokes either, any number of times. Accounts and calls are told apart by
  the order they come in, instead of a symmetry.
- *List.* Two officers with a list each, one of which changes once; two requests
  under way and two gates are an old one and a new one. *list* keeps Home in
  front and *cards* goes through the tabs and screens, without a gate.
- *Read sync.* Two orders on pages of one make every page a cut; one edit whose
  showing is delayed by up to `Lag` = `Overlap` is the worst case the overlap
  covers. *Stock.* Two items in two vans, one of which a load does not cover;
  two loads are a full one and an incremental one in either order.

Deadlock is checked in `backend_jobs`. The other instances stop because their
numbers, keys, signatures, transactions, taps or forms are used up.

### Fairness

- *Sign queue (`Fairness` of SignPipeline).* Launch, foreground, reconnect and
  the 60-second interval (`useSignQueue.ts`) start drains again and again, so
  `StartDrain` is weakly fair; a running drain continues (`DrainStep`), a request
  being served finishes or fails, a backoff runs out. Nothing is fair for the
  technician or for a fault, so liveness starts at QUEUED_FOR_SIGNING and
  assumes finitely many faults.
- *OnKey drain (`LiveDrainSpec`).* pg_cron kicks it every other minute (`Pick`),
  a running function runs on (`Execute` or `Block`, `Record`), time passes
  (`BackoffOver`). OnKey is not assumed to accept anything.
- *Lease (`Fairness` of SessionLease).* Time passes, a request arrives or is
  lost, a run ends and goes through its `finally` block, the verifier runs every
  minute. Kicks are not fair, nor is the backend's death excluded.
- *Outbox (`OutboxFairness` of WriteOutbox).* The interval, reconnect and foreground
  start drains; a request is answered or fails. Faults are finitely many.
- *Register (`RegisterFairness`).* Signal comes back, a call and a screen's
  request end, a sync that has begun goes on and begins again (`useSync.ts`).
- *Read sync (`SyncFairness`).* The scheduled lanes are started by pg_cron, a
  running lane goes on; that a window stores an order it holds is strongly fair,
  because another lane may make that step idle again and again.

## Proofs

Eight modules, checked by TLAPS. Every theorem holds for all values of the
constants that satisfy the named assumptions of the module it is about; faults,
kills, overlaps and clocks are as free as in the model.

| Module | Theorem | States |
|---|---|---|
| SignServiceProofs | `ServiceTypes` | `ServerSpec => []ServiceTypeOK` |
| | `IssuesAreUnique` | `ServerSpec => []UniqueIssue` |
| | `IssuesAreRetrievable` | `ServerSpec => []IssuedRetrievable` |
| | `AnswersAreOwn` | `ServerSpec => []AnswersOwnCertificate` |
| | `RejectionsHaveParents` | `ServerSpec => []RejectionHasParent` |
| | `ServiceImplementsIssue` | `ServerSpec => IssuedOnce`, the refinement of CertificateIssue |
| | `ArchiveIsWriteOnce` | `ServerSpec /\ []NoOverlap => []StoredMatchesRow` |
| SignPipelineProofs | `PipelineTyped` | `Spec => []PipelineTypeOK` |
| | `IssuesWhatWasApproved` | `Spec => []IssuedAsApproved` |
| | `ShowsOnlyIssued` | `Spec => []SignedIsIssued` |
| | `PipelineIsService` | `Spec => ServerSpec` |
| | `QueueKeepsArchive` | `~Overlap` gives `Spec => []StoredMatchesRow` |
| WorkOrderProofs | `WorkOrderTypes` | `Spec => []TypeOK` |
| | `StartRecordedOnce` | `Spec => StartKept` |
| | `SignedNeverStopped` | `Spec => []StopRollsOver` |
| | `SealIsCompletion` | `Spec /\ []Alone => []SealFinishes` |
| | `CostedAsSigned` | `Spec /\ []Alone => []CostingAsSigned` |
| | `PausesFit` | `Spec /\ []Alone => []PausesFitWork` |
| | `QueueToldState` | `Spec /\ []Alone => []QueueTellsState` |
| | `DrainTypes` | `DrainSpec => []DrainTypeOK` |
| | `DeadLettersAreTrue` | `DrainSpec /\ []OneRun => []DeadNeverLanded` |
| | `NothingOvertakes` | `DrainSpec /\ []OneRun /\ []Alone => NoOvertaking` |
| | `BookedOnce` | `DrainSpec /\ []OneRun /\ []Alone => []BookedAsSigned` |
| | `PageLeads` | `ScreenSpec => []PageLeadsOn` |
| OnKeyFunctionProofs | `FunctionTyped` | `FunctionSpec => []FunctionTypeOK` |
| | `SessionsEnd` | `FunctionSpec => []LogsOff` |
| | `OncePerTry` | `FunctionSpec => []BookedOncePerTry` |
| WriteOutboxProofs | `OutboxTypes` | `OutboxSpec => []OutboxTypeOK` |
| | `DrainsKeepOrder` | `OutboxSpec => []ReplayInOrder` |
| | `AppliesInOrder` | `Plain` gives `OutboxSpec => []AppliedInOrder` |
| | `ShowsWhatIsThere` | `Plain /\ Listless` gives `OutboxSpec /\ []Resumable => []MirrorAgrees` |
| BackendJobsProofs | `LeaseTypes` | `Spec => []TypeOK` |
| | `OneRunPerMode` | `Spec => []SingleFlight` |
| | `RunsAreCovered` | `Spec => []LeaseCoversRun` |
| | `OwnersFree` | `Spec => FreedByItsOwn` |
| | `CursorLosesNoEdit` | `SyncSpec => []CursorKeepsEdits` |
| StockAndCardProofs | `WatermarkIsHonest` | `StockSpec => []WatermarkCovers` |
| | `PruneIsFounded` | `StockSpec => PruneTakesOnlyTheGone` |
| | `PatienceKeepsEntries` | `CardSpec => []EntriesKept` |
| PhoneProofs | `FirstUseIsTrustedOnce` | `EnrolSpec => TrustOnFirstUse` |
| | `CertificatesStayWithTheirOfficer` | `EnrolSpec => SignedByItsOfficer` |
| | `SealedIsUsable` | `CaptureSpec => []SealedCanBeActedOn` |
| | `ReadyMeansAccepted` | `CaptureSpec => RefusedOnlyForTime` |
| | `NothingIsHidden` | `ListSpec => []NothingHidden` |
| | `GateBringsPresent` | `ListSpec => []SettledIsPresent` |
| | `SavedIsRegistered` | `RegisterSpec => []AsEntered` |
| | `DroppedWasTaken` | `RegisterSpec => LeavesOnceTaken` |

UniqueIssue, RejectionHasParent, StartKept, LeaseCoversRun, BookedAsSigned and
the type invariants are theorems only: the runs spend their properties
elsewhere, and `IssuedOnce` has the first two in it.

### The signing service

`IInv` adds to the properties that a handler past signing has stored an object
for its number (`StoredHasObject`: the commit comes later than the upload, so
IssuedRetrievable needs it), and that a handler about to answer "issued" has
its row (`AnswersRow`: rows are never removed). Uniqueness rests on the
constraints `Commit` meets and on nothing the handler read before. Each kind of
step has a lemma of its own; steps that leave rows and objects alone share
`HandlerMoves`. For the refinement only the successful branch of `Commit` moves
the projection, and `ProjectAdded` shows that it is `Issue`; that a rejection's
parent is issued by then is `ParentSeen`, because the lookup came before and
rows stay.

That the archive is write-once is false of the service alone (finding 1): a
handler reads that its number is free and stores the object later, under no
lock. `NoOverlap` says at most one handler is past submission; then
`NumberStillFree`, what `CheckNumber` read still holds when the object is
stored, is inductive.

### The sign queue

`PInv` takes the service's invariant and ties every place a form can be to the
approval it came from: `Given(k, f)` says the form f was approved with the key
k. Requests (`RequestsGiven`) and rows (`IssuesGiven`) carry given forms only;
sealed records do too (`RecordsFit`); a screen's form names the record's number
or none (`ScreensFit`), which is what keeps a late autosave from giving a queued
record another number (`Names`, `Held`); what the drain holds was given when it
was listed (`DrainFits`). Keys are given out once (`KeysFit`), so an approval is
never written over. `ShowsOnlyIssued` needs that a confirmed answer has its row,
which is the service's `AnswersRow`.

`PipelineIsService` shows that each of the pipeline's steps is a step of the
service or leaves it alone, so that what is proved of `ServerSpec` holds of the
composition. `QueueKeepsArchive` then follows from `ArchiveIsWriteOnce`: a queue
that waits for its answer never has two requests under way (`OneRequest`), the
state the code is in unless a timeout gives up a request that is still served.

### The work order

Whatever overlaps: types carry `StartRecordedOnce`, because the UPDATE of an
event works on another row than the one the transaction decided on (`ApplyType`,
`ApplyKeepsStart` are stated for two unrelated rows). `SignedNeverStopped` needs
`SealEnds` besides: a transaction that carries a seal is a stop or a sign-off,
so the commit that makes a card signed ends at signed_off whatever a concurrent
stop did in between. Where a pause hands the job back the property is false when
calls overlap, and StopRollsOver says so.

While calls do not overlap (`Alone`: at most one transaction is open):
`AInv` says that a running call decided on the row and the card as they still
are (`ReadsCurrent`), that the times of the row are in order (`TimesFit`), that a
signed card goes with a finished or handed-back job, and that a costing is the
signed card (`Books`). `QInv` says that the queue's status changes are one chain
that ends at the job's state, and that every row is older than the call under
way (`Older`); its lemmas are about
`HopRows` and `Codes`: from every status a state stands for, the plan leads to
a status of the next state in one or two hops and repeats none. The assumption is needed: two overlapping taps queue one
hop twice, and a save that races a signature changes the signed content
(see Disagreements). The app itself is not the only caller, so it is a
hypothesis and not a fact about the code.

The drain beside the calls: `DTypes` holds whatever overlaps. `DFate` says where
a row that took effect is: with the run that carries it, sent, or known as lost.
It needs `OneRun`, one invocation at a time, which is what the lease is for: an
invocation that overlaps another may give up a row the other one has sent.
`NothingOvertakes` needs both: `Stamps` (rows of one call share their time, later
calls have later ones, so the order of the queue is that of the calls) is false
of overlapping calls, whose times are those of their starts; `HeadPicked` says
that a row picked is still the oldest unsettled one when it is sent.
`BookedOnce` joins both halves, from the client's signature to OnKey's books:
while neither calls nor invocations overlap and nothing is lost (`faults = 0`),
OnKey books a job's costing once at most, and the one it books is the signed
card. `AInv` gives one costing in the queue, with the signed content, and stands
under the drain because a run and the read sync leave a row the write it is
(`WritesStay`); `DFate` gives that a row which took effect is sent, so that no
run carries it to OnKey again (`BookedLanded`). TLC breaks it with a second
caller (a save that races the signature) and with a second invocation (which
books the row again), so both hypotheses are used.

### The outbox on the phone

A drain works on a snapshot while the queue changes behind its back: writes are
appended, other drains remove or refuse rows, a refusal makes it pass over the
rest of a job. `Replays` says what survives all this: what a drain has still to
send of a job it is not stuck on comes, in what it has left, after every write
of that job still in front of it in the queue. So what it sends next has nothing
of its job before it (`FirstInQueue`). The invariant rests on no write being made
twice (`Fresh`), and its lemmas are about sequences: what `RemoveAt` leaves is
the queue in its order (`RemoveAtDraws`, `WithoutDraws`), and what a drain goes
on with is its rest from some index on, past stuck jobs only (`PastStuckGoesOn`,
`OrderGoesOn`). Nothing is assumed: it holds for overlapping drains, lost
answers and killed apps.

That the server applies a job's writes in the order they were made is less
robust. `Plain` has five parts: one call under way, one drain, no call served
past a queue, no answer lost, no app killed. TLC refutes AppliedInOrder as soon
as one of them is dropped, so each is needed and none is a fact about the code;
the run `settles` has them too. Then what is queued has not been applied, nor has
anything made after it, except the write a drain was just told of
(`AppliedBefore`, `Recorded`), and a call under way is the last write of all
(`CallLast`).

That a screen agrees with the server once nothing is under way (MirrorAgrees)
seems to ask what the server will make of the whole queue, a recursion over it.
It does not: where the device's moves are the server's, only the last write
counts. `Waiting` is what the server has still to hear, the queue without the
write a drain was just told of. `Mirrored` says of every job: nothing but saves
waits and its screen shows the server's state (`ShowsServer`), or it shows the
state to which the last of its waiting writes that is not a save leads
(`ShowsLast`). A write that could not be sent joins `Waiting` as the last and the
screen moves to where it leads (`RpcDoneWaits`, `DeviceMoves`); a write the server
takes is the first of its job in `Waiting` (`ReplayServedWaits`) and the server
moves to where it leads (`ServeMoves`), so when it was also the last the two have
met. A refused write stays, and with it the claim. Three facts carry this. The
answer a screen has not heard yet is the server's state of a job of which nothing
waits (`AnswerFits`). A stop is never asked for, because the device offers it
with a signed card only and a signed card has ended its job (`SealsEnd`,
`SealShows`). And after a signature only signatures are made (`SignsLast`), as
the device shows signed_off from then on, whatever the queue does.

Besides `Plain` it needs two conditions, and TLC refutes MirrorAgrees without
either. `Listless`: no list read earlier arrives, or an old list overwrites what
an answer just said. `Resumable`: no pause under way hands the job back. The
device keeps blocksResume false for a pause it queued, so that a signature shows
signed_off where the server leaves the job paused; the job need only be paused
offline with such a reason. (`Listless` also says that "no reason" is not one of
the reasons that block.) Of `Plain`, TLC refutes it without "no call past a
queue", "no killed app" and "one drain"; with lost answers or two calls it found
no violation on one job and 4 to 6 writes, and the theorem does not say.

### The function, the lease

In OnKeyFunction a try is counted when a run sets out to send a costing, and its
lines are booked later, after a logon, a call and perhaps one repetition, while
other runs may have the same costing in hand. `TriesCounted` counts the
invocations in between: what is booked and what is under way never exceed what
was sent. It is an induction over the finite set of invocations, and it holds
because a call is repeated only after one that OnKey turned away.

Single flight rests on the backend's flag (`Flagged`, `Alone`) and holds in every
weather. `RunsAreCovered` and `OwnersFree` need time: `Covered` says how much of
its lease a kick has left while its request travels, its run works, and between
the end of the run and the release; `LogOwns` says that a kick still logged,
whose label is on an unexpired lease, is the one that took it. They rest on
`OutlastsAssumption`: leases are longer than delay plus work, which migrations
096 (300 s against 168 s, 1800 s against 1563 s) and 074 (15 s against 2 s)
measured and nothing enforces.

### The read side

`CursorLosesNoEdit`: `IInv == Typed /\ Clocks /\ DeltaRun /\ PassedKept /\
CursorKeepsEdits`. Every order the delta lane has passed is stored as OnKey
shows it, or was stamped late enough for the next run to go back for it, or so
early that an earlier run answers for it (`PassedKept`). A page is a prefix of
the rows that match (`PageIsPrefix`), so "passed" is a comparison of Ids. The
assumption is that `Overlap` is at least `Lag`: DELTA_OVERLAP is sixty seconds
(`onkey_sync.py:654`), and what OnKey takes to show an edit nobody has measured.

`WatermarkIsHonest`: `Reach` is the version up to which a load answers for the
rows it has read; rows read are stored up to it (`ReadIsStored`), because a row
that changes under the load gets a version above it (`MarksAreOld`).
`PruneIsFounded`: a full load has stamped what it delivered
(`DeliveredIsStamped`).

### The capture, the card

A sealed form was checked once, on the day it was queued, and judged again by
the service days later. `CapIInv` says of every copy of the form, in the row, on
the results and on the sign-off, that it was begun with the measures and has the
points of its own plan (`Founded`: from `NewForm` on, and no entry takes a
measure or a point away), and that a queued form passed the phone's rules on
*some* day up to today (`QueuedWasReady`). The rules the phone and the service
each have differ in the day alone: that is `ReadyMeansAccepted`, and with
`SealedIsFinal` it carries completeness from the queue to the sealed row. What
is assumed (`CaptureAssumption`): slips are integers, the measures a profile
begins with are of the three sizes there are, and a visit has a day.

`PatienceKeepsEntries` is about two editors that each write the whole card. While the technician waits
(`~hurried`), `Patient` is inductive: one request besides the question for work
tasks is under way (`OneAtATime`), so an answer to a read is what the server
still has (`ReadsFit`); the page is current unless it is being read for or the
spares page is on top of it (`PageCurrent`), and the spares page is current once
its read has come (`SparesCurrent`). The cached bundle and the page underneath
may be old, and the proof shows where that is made good before it is written
from: a page is read again when it comes to the front, and a push of the spares
page brings a read of its own. Once he hurries, nothing is claimed.
`BlankAssumption` says that the value for "none" is no card and no page.

### The page of a job

`ScreenInv` is claimed of a technician who waits (`~rushed`). It says that
whatever is under way beside reads is alone (`Single`: a tap, a signature or the
switch is answered before the next), that the phone's copy is the server's row
unless the server has just moved the job and not said so yet (`CopyFits`,
`InSync`), that the page shows the copy (`Shows`), and that an answer on its way
is what the server still has (`AnswersFit`). Two conjuncts carry the rest. A card
is signed exactly with a job that is signed off or handed back (`ServerFit`), so
a page that shows a signed card never offers to complete a job at work, and one
that shows an unsigned card at work always has a field to fill. And a call is
accepted as the row stands from the moment it is made (`VerbsFit`); the exception
in PageLeadsOn, a pause confirmed on a panel left open, is the one case where it
is not, and the proof needs it: `pausing` survives a list answer that shows the
job completed. `SignLocally` has to do what the server does with a job that a
pause has handed back; that is the step for the answer of a signature.

### The list

`ListIInv` ties a gate to what it asked for. A request a gate has under way
carries that gate's officer's token, and the run number tells it from the
requests of gates that are over; a gate that has its list has no request left
(`RunsFit`). `owed` is what the list was when the gate began: the running gate's
request will be answered with that or newer; from then on, while the gate still
waits for the stock, the copy holds it, and once the gate is open Home does too
(`GateOwes`). An older answer that comes in between, `ListIsIn`, overwrites the
copy the gate is about to paint from; then nothing is owed any more.
NothingHidden needs that Home, in
front, holds every certificate in progress (`HomeHolds`), because one is
captured on a screen above it and Home reads them again when it comes back.
`BookAssumption`: every officer has a list from the start, and the value for
"none" is no officer, list or job.

### Accounts and devices

`EnrolIInv` of PhoneProofs is about the service's rows for the device, the calls
it is at work on and the phone's certificates. The two accounts of which each
holds the device without an admin's word, or has been told it may, enrolled
together (`OneFirstUse`: a call that claims the device was decided before the
other's row was in). An upload that was checked is of the officer it names
(`CallsFit`), and the account is still active or was revoked with the upload
under way (`StillGood`), so what the commit finds is bound to what the check
read. Certificates are their officers' (`ByItsOfficer`). The session is not part of it: whoever is restored, refreshed
or signed out, the service looks at the token the upload came with.

### The register

`RegisterIInv` has two parts. `RegisterFits` holds whatever happens: the rows a
drain read are in the queue still, no write is in it twice, the add of a
dispenser comes before its changes, a form under way is younger than every kept
write of its records (`CallFits`), and every dispenser a list shows or is about
to show exists at the service or will when its add is delivered (`Known`). This
is enough for LeavesOnceTaken: a 409 drops the row of an add only, and its
record says at least what the add says.

`HeardFits` is AsEntered with a queue and a call in between, under the same two
conditions. Replaying the queue would be a recursion; instead `Matches` says of
one record what its kept writes amount to: the text of the youngest that has
one, or the service's where all of them retire, and retired if the service's row
is or one of them retires it. A write is appended as the youngest
(`MatchesKept`) and taken as the oldest, which is what "not overtaken" gives;
taken, its row may stay, because the drain was cut (`MatchesTaken`), and a write
the service has taken may be kept all the same (`MatchesAgain`). Between the
service's answer and the phone's hearing it, the service has the record with
that one write and nothing of the record is kept (`Pending`).

`RegisterAssumption`: the first dispenser is one of them, no dispenser has the
key of the site, the detail or the list, and the values for "none" are not
records, lists or forms. The bounds (`MaxForms`, `MaxOutages`, `Watched`) are
arbitrary.

## Only model-checked

- *Liveness* (QueuedGetsSynced, EveryWriteAnswered, RegisterSettles, RowsSettle,
  LeaseComesFree, KicksResolved, RegisterCatchesUp): fairness and ENABLED are out
  of the prover's reach.
- The refutations.

## Disagreements

### Shown by a run

See `findings` in PROJECT.json for quotes and lines.

1. `service_overlap`: an overlapping retry overwrites the archived PDF of an
   issued certificate (`pdf_store.py:62`).
2. `outbox_sign_overtakes`: a signature sent online overtakes the save that is
   still queued, so the sealed card is not the one on the screen.
3. `added_twice`: an add whose answer is lost is kept under a second id and
   registers its dispenser twice (`client.ts:1280`).
4. `drain_tie`: the rows of a stop and of its roll-over carry the same
   created_at and seq, and nothing orders them.
5. `plan_follows_plate`: the service stores no designation, and the register
   screen takes a missing one for the standard plan (`register.tsx:137`).
6. `measures_blank`: the cached `measures:my` of one officer is mirrored into the
   profile of the next (`profile.tsx:260`).

### Noticed while modelling

The models contain these behaviours; the properties are stated so that they do
not depend on them, and no run is devoted to them.

- *Signing, device.* After the overlap of finding 1 the device retries for ever,
  because the SHA-256 it checks never matches (`signQueue.ts:176`). The autosave
  of a results screen left mounted moves a queued or signed record back to DRAFT
  and can take a backfilled number out of the form (`certificateRepo.ts:147`).
  An issued certificate whose answer was lost can be discarded
  (`certificateRepo.ts:77`). A draft archived during its sign flow is queued
  where no drain sees it (`certificateRepo.ts:152`). Leaving the results within
  700 ms of an edit loses the edit (`results.tsx:199`).
- *Signing, service.* The schema, subject, hash and parent refusals are not
  audited (`certificates.py:97` and `:128`; `docs/e-signature-procedure.md:86`
  says every refusal is).
- *Device.* Two first enrolments of a device that overlap both become active
  (`routers/devices.py:75`), where the module's head says that the first account
  claims it. A certificate whose upload was checked before its account was
  revoked is issued all the same (`certificates.py:146` and `:239`).
- *Lease.* The verifier releases the lease on a recorded timeout although the
  request may be served later (`104_kicks_verify_delivery.sql:184`), and a
  release is decided by the mode's label, so an old run frees the lease of a
  later kick of its mode (`:59`): `LeaseCoversRun` and `FreedByItsOwn` hold in a
  calm system only.
- *Work order.* A pause from on_the_way followed by a start leaves started_at
  empty (`108:211`). A stand-down takes the device's clock without the lower
  clamp, so last_event_at can go back (`070:49`). A costing row has no
  stateCode, so the hop after it starts from the mirror (`053:57`). A resume
  queues WOR (`108:288`). A save that races a signature overwrites the signed
  card's content (`067:100`). Two overlapping taps queue one hop twice
  (`108:276`). Two overlapping signatures of one card queue two costings, and a
  signature that read a handed-back job seals the card of one a concurrent stop
  has completed, and leaves it at stopped (`110:119`).
- *Drain.* A costing is booked again when its answer was lost
  (`index.ts:384`, `:444`), and when some of its lines were refused the whole
  row is sent again with the action Insert, although `index.ts:419` calls the
  outbox idempotent. Errors of the outcome's own UPDATE are ignored. Runs that overlap
  write the same count of attempts, each from its own read, and a killed run
  writes none, so a row can be tried more often than MAX_ATTEMPTS
  (`index.ts:267`); DrainTypes bounds the counter only. The run row
  stays open when `onkey_outbox_next` fails, or an export asked to debug. The
  status a hop starts from is taken from a mirror that may be stale (`053:64`).
- *Outbox.* A queued save overwrites a newer save made online
  (`client.ts:742`). A transition whose answer was lost is refused on replay and
  blocks its job (`outbox.ts:157`). A blocking pause made offline leaves
  blocksResume false, so the signature shows signed_off where the server keeps
  the job paused (`client.ts:935`). A list read earlier hides a queued event
  (`cache.ts:57`).
- *Register.* Adding or retiring a dispenser offline reports "Could not..."
  although it was queued (`workorder/[id].tsx:97`). An edit kept after a 5xx
  replays after a newer one. A pull overwrites the optimistic copy of a write
  the network cut out of the drain, and the empty answer for a component
  register that is not there yet overwrites a kept detail.
- *The job's page.* A pause panel left open behind a completed job still asks,
  and its confirmation is refused (`wo/[id].tsx:1245`). After a signature made
  offline the page shows the card unsigned and offers the sign-off again; the
  second signature is refused on replay. Two calibration toggles that overlap
  and fail leave the switch wrong. The pause button looks locked where the gate
  would let it through (`LifecycleActions.tsx:163`). Leaving the sign-off while
  its seal is under way makes its `router.back()` pop the job's page. A task
  fetch that was slow writes an older card into the cache (`wo/[id].tsx:415`).
- *The list.* A sign-in during an earlier gate's run gets no gate of its own; an
  old run's `finally` ends a second gate early. A forced refresh that fails
  returns the copy read before it asked. An older answer that lands after the
  gate's own list and before the stock is in has Home painted old, under a gate
  that promised "current before the screen settles"; SettledIsPresent leaves that
  case out (`client.ts:677`). With a search text, a certificate whose
  card is filtered out is shown nowhere (`home.tsx:312`). The answer of an
  earlier session overwrites `wo:records`. `home:stats` is never really forced
  (`client.ts:284`).

## Not modelled

- *PDF rendering, layout and presentation, analysis and insights*: they keep no
  state whose order matters. What a screen lets the technician do is in the
  guards of that screen's module.
- *Cryptography, timestamps, KMS, audit storage*: a signature is a fresh number
  and an external service a step that works or fails.
- *Token validation and the role directory*: a token is its officer.
- *Assignment writes to OnKey* (migrations 057, 058): another kind of outbox row
  beside the status changes.
- *A second derive run* of the read sync: mode `derive` runs inline, without the
  flag that keeps the other modes single (`routers/onkey.py:357`). No run of TLC
  has the derive lane.
- *Uncommitted row versions in Syspro*: a version given out and not yet visible
  when `max(TimeStamp)` is read.
- *Parts of modelled components* are listed in the notes of PROJECT.json: the
  divergence report (049), the learning of status routes, the dry run, the map and
  the statistics of the list, the technician writes of the outbox.
- *Time* is "expired or not" except in WorkOrder (the transaction's number),
  SessionLease (ticks), ReadSync (OnKey's clock) and Verification (days).

## Plan

1. *(done)* Signing: CertificateIssue, SignService, SignPipeline, Verification.
2. *(done)* The work order and its write-back: JobLifecycle, OnKeyOutbox,
   WorkOrder, OnKeyDrain, OnKeyFunction, SessionLease.
3. *(done)* The phone: WriteOutbox, SiteRegister, JobScreen, JobCardScreens,
   WorkList, PhoneSession, DeviceEnrolment, MeasureRegister; the read side:
   ReadSync, StockIngest.
4. *(done)* Proofs of the service, the pipeline, the work order, the drain, the
   function, the lease, the read sync, the ingest and the devices.
5. *(done)* The outbox's order: ReplayInOrder without conditions, AppliedInOrder
   under the conditions it needs.
6. *(done)* The screens' rules: SealedCanBeActedOn, RefusedOnlyForTime,
   EntriesKept, SettledIsPresent, NothingHidden, PageLeadsOn; and the register's
   AsEntered and LeavesOnceTaken.
7. *(done)* MirrorAgrees, without the recursion: the last write that waits.
8. *(open)* An abstract write-back that OnKeyDrain implements (rows of a work
   order delivered in order).
