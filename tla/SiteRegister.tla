----------------------------- MODULE SiteRegister ------------------------------
(***************************************************************************)
(* The register of one site on its way between the service and one phone:  *)
(* the site's own record, its dispensers and the component register of     *)
(* one of them (workorders.py), the writes of the site page, the work      *)
(* order's dispenser page and the identity screen (client.ts), the outbox  *)
(* that keeps them without signal (outbox.ts), and the mirror every screen *)
(* reads (cache.ts, syncEngine.ts).                                        *)
(*                                                                         *)
(* These writes belong to no work order: a refused one blocks nothing, and *)
(* is tried again by every drain.                                          *)
(*                                                                         *)
(* Abstracted: what a record says is the number of the form that was       *)
(* submitted; only this phone writes; the site carries open work of the    *)
(* technician, so the mirror has it; the profile's own drain beside the    *)
(* sync's is WriteOutbox's, what the detail says is Verification's.        *)
(***************************************************************************)
EXTENDS Naturals, Sequences, FiniteSets

CONSTANTS
  Ids, First,   \* dispenser ids: the first is registered, the others may come to be
  MaxForms,     \* bound: forms submitted
  Watched,      \* bound: the keys screens ask for
  MaxOutages,   \* bound: signal lost, refusals without a reason of their own, kills
  Absent, Cold, \* no row, no cached copy
  NoEntry, NoPull, NoSync

RegisterKeys == {"site", "detail"} \cup Ids
CacheKeys == RegisterKeys \cup {"list"}

\* A record, the records there are, the dispensers of the site, a form's write of one record.
Entries    == [text : Nat, retired : BOOLEAN]
Registries == [RegisterKeys -> Entries \cup {Absent}]
Listings   == [Ids -> Entries \cup {Absent}]
Writes     == [kind : {"add", "edit", "retire", "upsert"}, on : RegisterKeys, form : Nat]
Forms      == [todo : Seq(Writes), answer : Entries \cup {Cold}]
ASSUME RegisterAssumption ==
  /\ First \in Ids /\ {"site", "detail", "list"} \cap Ids = {}
  /\ Absent \notin Entries \cup Listings /\ Cold \notin Entries \cup Registries
  /\ NoEntry \notin Forms

VARIABLES
  registry,   \* the service's records
  minted,     \* the dispenser ids there are
  copies,     \* the phone's cached answers by key
  outbox,     \* register writes kept for later, oldest first
  call,       \* the writes of the form being saved, and the answer to the first one
  pull,       \* a screen's request that was served: its key and the answer under way
  signal,     \* does the phone reach the service?
  sync,       \* the mirror sync: draining its rows, asking, or with its answer
  forms,      \* bound: forms submitted
  outages,    \* bound: troubles so far
  entered,    \* history: what the technician was told is saved
  unheard,    \* history: an added dispenser, or a form, whose outcome the phone never learned
  overtaken   \* history: a write was taken while an older one of its record was kept
registerVars == <<registry, minted, copies, outbox, call, pull, signal, sync, forms, outages,
                  entered, unheard, overtaken>>

Fresh == CHOOSE i \in Ids : i \notin minted
Row(form) == [text |-> form, retired |-> FALSE]

\* The read RPCs: a record, or the dispensers of the site (alone, or in a work order's bundle).
AnswerFor(records, key) ==
  CASE key = "list"   -> [i \in Ids |-> records[i]]
    [] OTHER          -> records[key]

\* Every key is written; a record the scope does not have keeps its copy.
Mirrored(scope, old) ==
  [k \in CacheKeys |-> IF AnswerFor(scope, k) = Absent THEN old[k] ELSE AnswerFor(scope, k)]

\* A phone that has mirrored the site once.
RegisterInit ==
  /\ registry = [r \in RegisterKeys |-> IF r \in {"site", First} THEN Row(0) ELSE Absent]
  /\ minted = {First} /\ copies = Mirrored(registry, [k \in CacheKeys |-> Cold])
  /\ outbox = << >> /\ call = NoEntry /\ pull = NoPull
  /\ signal \in BOOLEAN /\ sync = NoSync
  /\ forms = 0 /\ outages = 0 /\ entered = registry
  /\ unheard = FALSE /\ overtaken = FALSE

-----------------------------------------------------------------------------
(* The service.                                                            *)

\* What a write makes of the records it is made on: an edit keeps a retired row retired.
Written(records, w) ==
  LET old == IF records[w.on] \in {Absent, Cold} THEN Row(Absent) ELSE records[w.on]
  IN  [records EXCEPT ![w.on] = IF w.kind = "retire" THEN [old EXCEPT !.retired = TRUE]
                                                     ELSE [old EXCEPT !.text = w.form]]
\* 409 for an id that exists, 404 for one that does not; a site and a detail are upserts.
Registered(w) == w.kind = "add" /\ registry[w.on] # Absent
Unknown(w) == w.kind \in {"edit", "retire"} /\ registry[w.on] = Absent

Serve(w) ==
  /\ ~Registered(w) /\ ~Unknown(w)
  /\ registry' = Written(registry, w)
  /\ overtaken' = (overtaken \/ \E i \in DOMAIN outbox :
                     outbox[i].on = w.on /\ outbox[i].form < w.form)

Outage == outages < MaxOutages /\ outages' = outages + 1

service == <<registry, minted, overtaken>>
told    == <<entered, unheard>>
held    == <<copies, outbox>>

SignalChanges ==
  /\ signal' = ~signal /\ IF signal THEN Outage ELSE UNCHANGED outages
  /\ UNCHANGED <<service, held, told, call, pull, sync, forms>>

-----------------------------------------------------------------------------
(* The screens read through the cache.                                     *)

Shown == {i \in Ids : copies["list"][i] # Absent}

\* A screen that opens, or reads again after a save, asks, and a cached copy is shown meanwhile;
\* a dispenser without a register of components has an empty one.
PageServed ==
  /\ pull = NoPull /\ signal
  /\ \E k \in Watched \cap ({"site", "list", "detail"} \cup Shown) :
       /\ k \in Ids => registry[k] # Absent
       /\ pull' = [key |-> k, answer |-> IF AnswerFor(registry, k) = Absent THEN Row(Absent)
                                         ELSE AnswerFor(registry, k)]
  /\ UNCHANGED <<service, held, told, call, signal, sync, forms, outages>>
\* fetchThrough: the answer replaces the copy when it comes, or is lost.
PullArrives ==
  /\ pull # NoPull /\ pull' = NoPull
  /\ copies' = IF signal THEN [copies EXCEPT ![pull.key] = pull.answer] ELSE copies
  /\ UNCHANGED <<service, outbox, told, call, signal, sync, forms, outages>>

-----------------------------------------------------------------------------
(* The forms and their calls.                                              *)

SubmitForm(writes) ==
  /\ call = NoEntry /\ forms < MaxForms /\ forms' = forms + 1
  /\ call' = [todo |-> writes, answer |-> Cold]
  /\ UNCHANGED <<service, held, told, pull, signal, sync, outages>>
FormWrite(kind, on) == [kind |-> kind, on |-> on, form |-> forms + 1]

\* Saved without an id: the service mints one, or the phone when the write is kept.
SubmitAdd == minted # Ids /\ SubmitForm(<<FormWrite("add", Fresh)>>)
Retire == \E i \in Shown : SubmitForm(<<FormWrite("retire", i)>>)
\* saveAndContinue: the site, the dispenser and its detail, one after the other.
SubmitIdentity ==
  \E i \in Shown :
     SubmitForm(<<FormWrite("upsert", "site"), FormWrite("edit", i),
                  FormWrite("upsert", "detail")>>)

\* The next write of the form goes out.
Proceed ==
  call' = IF Len(call.todo) = 1 THEN NoEntry
          ELSE [call EXCEPT !.todo = Tail(@), !.answer = Cold]
Accepted(w) == entered' = Written(entered, w)

CallServed ==
  /\ call # NoEntry /\ signal /\ call.answer = Cold
  /\ LET w == Head(call.todo) IN
       /\ Serve(w) /\ minted' = minted \cup ({w.on} \cap Ids)
       /\ call' = [call EXCEPT !.answer = registry'[w.on]]
  /\ UNCHANGED <<held, told, pull, signal, sync, forms, outages>>
\* The saved record is cached under its own key; a list hears of it when read again.
CallAnswered ==
  /\ call # NoEntry /\ signal /\ call.answer # Cold
  /\ Accepted(Head(call.todo))
  /\ copies' = [copies EXCEPT ![Head(call.todo).on] = call.answer]
  /\ Proceed
  /\ UNCHANGED <<service, outbox, unheard, pull, signal, sync, forms, outages>>
\* Any other answer is the technician's to act on; what the form still had to write is not made.
CallRefused ==
  /\ call # NoEntry /\ signal /\ call.answer = Cold /\ call' = NoEntry
  /\ IF Registered(Head(call.todo)) \/ Unknown(Head(call.todo)) THEN UNCHANGED outages ELSE Outage
  /\ UNCHANGED <<service, held, told, pull, signal, sync, forms>>
\* Without an answer the write is kept and shown as made: an add under an id of the phone's.
CallLost ==
  /\ call # NoEntry /\ ~signal
  /\ Head(call.todo).kind = "add" => minted # Ids
  /\ LET asked == Head(call.todo)
         w == IF asked.kind = "add" THEN [asked EXCEPT !.on = Fresh] ELSE asked
     IN
       /\ minted' = minted \cup ({w.on} \cap Ids) /\ outbox' = Append(outbox, w) /\ Accepted(w)
       /\ copies' = [Written(copies, w) EXCEPT
                      !["list"] = IF w.kind = "add" THEN [@ EXCEPT ![w.on] = Row(w.form)] ELSE @]
       /\ unheard' = (unheard \/ (w.kind = "add" /\ call.answer # Cold))
  /\ Proceed
  /\ UNCHANGED <<registry, overtaken, pull, signal, sync, forms, outages>>

-----------------------------------------------------------------------------
(* The mirror sync: the outbox first, then the whole scope.                *)

SyncBegins ==
  /\ sync = NoSync /\ sync' = [rows |-> outbox, scope |-> Cold]
  /\ UNCHANGED <<service, held, told, call, pull, signal, forms, outages>>
Draining == sync # NoSync /\ sync.rows # << >>
Sent == sync' = [sync EXCEPT !.rows = Tail(@)]
\* DELETE FROM outbox WHERE id = ?: no write is made twice, so a row is known by its content.
Without(rows, w) ==
  LET at == CHOOSE i \in DOMAIN rows : rows[i] = w
  IN  [i \in 1 .. Len(rows) - 1 |-> rows[IF i < at THEN i ELSE i + 1]]
\* As a drain would that takes 409 for a refusal: the row stays.
DrainServedOnce ==
  /\ Draining /\ signal /\ Sent
  /\ LET w == Head(sync.rows) IN
       IF Registered(w) THEN UNCHANGED <<registry, overtaken, outbox>>
       ELSE Serve(w) /\ outbox' = Without(outbox, w)
  /\ UNCHANGED <<minted, copies, told, call, pull, signal, forms, outages>>
\* The service's answer drops the row: taken, or 409, "already applied on a previous attempt".
DrainServed ==
  /\ Draining /\ signal /\ Sent
  /\ LET w == Head(sync.rows) IN
       /\ Serve(w) \/ (Registered(w) /\ UNCHANGED <<registry, overtaken>>)
       /\ outbox' = Without(outbox, w)
  /\ UNCHANGED <<minted, copies, told, call, pull, signal, forms, outages>>
\* As a drain would that takes 404 for an answer, or any refusal.
DrainRefusedDrops ==
  /\ Draining /\ signal /\ Sent
  /\ IF Unknown(Head(sync.rows)) THEN UNCHANGED outages ELSE Outage
  /\ outbox' = Without(outbox, Head(sync.rows))
  /\ UNCHANGED <<service, copies, told, call, pull, signal, forms>>
DrainUnknownDrops ==
  /\ Draining /\ signal /\ Sent
  /\ IF Unknown(Head(sync.rows))
     THEN outbox' = Without(outbox, Head(sync.rows)) /\ UNCHANGED outages
     ELSE UNCHANGED outbox /\ Outage
  /\ UNCHANGED <<service, copies, told, call, pull, signal, forms>>
\* Any other refusal leaves it for the next drain, and the drain goes on.
DrainRefused ==
  /\ Draining /\ signal /\ Sent
  /\ IF Unknown(Head(sync.rows)) THEN UNCHANGED outages ELSE Outage
  /\ UNCHANGED <<service, held, told, call, pull, signal, forms>>
\* Without an answer the drain ends, whether the write was taken or not; the pull is tried still.
DrainCut ==
  /\ Draining /\ sync' = [sync EXCEPT !.rows = << >>]
  /\ \/ signal /\ Outage /\ signal' = FALSE /\ Serve(Head(sync.rows))
     \/ ~signal /\ UNCHANGED <<registry, overtaken, signal, outages>>
  /\ UNCHANGED <<minted, held, told, call, pull, forms>>

SyncServed ==
  /\ sync # NoSync /\ signal /\ sync.rows = << >> /\ sync.scope = Cold
  /\ sync' = [sync EXCEPT !.scope = registry]
  /\ UNCHANGED <<service, held, told, call, pull, signal, forms, outages>>
SyncArrives ==
  /\ sync # NoSync /\ signal /\ sync.scope # Cold
  /\ copies' = Mirrored(sync.scope, copies) /\ sync' = NoSync
  /\ UNCHANGED <<service, outbox, told, call, pull, signal, forms, outages>>
SyncFails ==
  /\ sync # NoSync /\ ~signal /\ sync.rows = << >> /\ sync' = NoSync
  /\ UNCHANGED <<service, held, told, call, pull, signal, forms, outages>>

\* The app is killed: what it waited for goes unheard, the cache and the outbox stay.
PhoneKilled ==
  /\ Outage /\ call' = NoEntry /\ pull' = NoPull /\ sync' = NoSync
  /\ unheard' = (unheard \/ (call # NoEntry /\ call.answer # Cold))
  /\ UNCHANGED <<service, held, entered, signal, forms>>

SyncStep ==
  \/ SyncBegins \/ DrainServed \/ DrainRefused \/ DrainCut \/ SyncServed \/ SyncArrives \/ SyncFails
CallStep == CallServed \/ CallAnswered \/ CallRefused \/ CallLost
RegisterNext ==
  \/ SignalChanges \/ PageServed \/ SubmitAdd \/ Retire \/ SubmitIdentity
  \/ CallStep \/ PullArrives \/ SyncStep \/ PhoneKilled
RegisterSpec == RegisterInit /\ [][RegisterNext]_registerVars

\* Signal comes back and so do useSync's triggers; a call or a request is answered or fails.
RegisterFairness ==
  /\ WF_registerVars(~signal /\ SignalChanges)
  /\ WF_registerVars(CallStep) /\ WF_registerVars(PullArrives) /\ WF_registerVars(SyncStep)

-----------------------------------------------------------------------------
AtRest == outbox = << >> /\ call = NoEntry

(***************************************************************************)
(* "drops items the server has answered (2xx, or 409 = already applied on  *)
(* a previous attempt)" (outbox.ts): a kept write leaves the queue only    *)
(* when the service has taken it, whatever was refused, cut or killed.     *)
(***************************************************************************)
Has(records, w) ==
  /\ records[w.on] # Absent
  /\ IF w.kind = "retire" THEN records[w.on].retired ELSE records[w.on].text >= w.form
LeavesOnceTaken ==
  [][\A i \in DOMAIN outbox :
       Has(registry', outbox[i]) \/ \E j \in DOMAIN outbox' : outbox'[j] = outbox[i]]_registerVars

(***************************************************************************)
(* With nothing kept and nothing under way the service's records are what  *)
(* the technician was told is saved, each as it was entered last and no    *)
(* dispenser twice - unless an add's outcome was never heard, or a kept    *)
(* write was overtaken by a younger one of its record.                     *)
(***************************************************************************)
AsEntered == AtRest /\ ~unheard /\ ~overtaken => registry = entered

(***************************************************************************)
(* "Replay is idempotent by construction" (outbox.ts:8): what was entered  *)
(* once is registered once.                                                *)
(***************************************************************************)
AddedOnce ==
  \A i, j \in {x \in Ids : registry[x] # Absent} : registry[i].text = registry[j].text => i = j

(***************************************************************************)
(* Every kept write is delivered, whatever it waits for, and the mirror    *)
(* ends up as the service: the list and every single copy.                 *)
(***************************************************************************)
Agrees ==
  \A k \in CacheKeys : AnswerFor(registry, k) \in {Absent, copies[k]}
RegisterSettles == <>[](AtRest /\ Agrees)
===============================================================================
