------------------------------- MODULE JobScreen -------------------------------
(***************************************************************************)
(* The page of one work order (app/wo/[id].tsx) between its technician and *)
(* the server: the verbs it offers (LifecycleActions.tsx), the gate the    *)
(* job card holds shut, the panels with their ways on, and the calls of    *)
(* client.ts behind them.                                                  *)
(*                                                                         *)
(* A screen shows copies: a tap is judged by the page's record, the server *)
(* judges by its row, and answers arrive in any order, also after the page *)
(* is gone.  Abstracted: of the job card it matters whether a visit and    *)
(* the work performed are entered and whether it is signed, and a save is  *)
(* on the server at once (its slow and lost ones are JobCardScreens'); of  *)
(* the outbox that a call without signal is made up for later (its order   *)
(* and its faults are WriteOutbox's).                                      *)
(***************************************************************************)
EXTENDS JobLifecycle, FiniteSets, Sequences

CONSTANTS
  MaxActs,   \* bound: what a technician does who waits for each answer
  MaxRushed, \* bound: ... before and after the first time this one does not
  MaxCalls,  \* bound: calls under way at once
  MaxOwed,   \* bound: calls kept in the outbox
  NotYet,    \* no page, no copy, no answer yet
  Unlisted,  \* the list without the job
  Refusal    \* the answer of a server that says no

\* What the server says of the job, its card, and the list with the divergence.
JobRecords  == [state : LifeStates, blocks : BOOLEAN, calibration : BOOLEAN]
CardFlags   == [visit : BOOLEAN, written : BOOLEAN, signed : BOOLEAN]
ListAnswers == [list : JobRecords \cup {Unlisted}, divergence : BOOLEAN]
Pages == [load : {"loading", "ready", "missing", "error"}, job : JobRecords \cup {NotYet},
          card : CardFlags \cup {NotYet}, visit : BOOLEAN, written : BOOLEAN, dirty : BOOLEAN,
          pausing : BOOLEAN, busy : BOOLEAN, divergence : BOOLEAN,
          at : {"page", "signoff", "elsewhere"}]
ASSUME ScreenAssumption ==
  /\ NotYet \notin JobRecords \cup CardFlags \cup ListAnswers \cup Pages
  /\ Unlisted \notin JobRecords /\ Refusal \notin JobRecords \cup CardFlags \cup ListAnswers
  /\ NotYet # Unlisted /\ NotYet # Refusal

VARIABLES
  service, \* the server: the lifecycle row, the card, the flags of the job
  records, \* the phone's copy under wo:records of what the server says of the job
  page,    \* the screen
  calls,   \* calls under way
  owed,    \* calls the outbox has kept
  acts,    \* bound: what the technician has done
  rushed   \* history: a call failed, one was made before the last was answered, or
           \* the office took the job
screenVars == <<service, records, page, calls, owed, acts, rushed>>

\* app_wo_list's row for the job, if the list has it.
RecordOf(s) ==
  IF s.listed THEN [state |-> StateOf(s.row), blocks |-> s.row.reason \in Blocking,
                    calibration |-> s.calibration]
              ELSE Unlisted

Moved(event, reason, row) == Apply(event, reason, row, row, CreatedAt)

NewPage == [load |-> "loading", job |-> NotYet, card |-> NotYet, visit |-> FALSE,
            written |-> FALSE, dirty |-> FALSE, pausing |-> FALSE, busy |-> FALSE,
            divergence |-> FALSE, at |-> "page"]

\* The page is opened before the journey, or on a job at work whose card is filled.
ScreenInit ==
  /\ \E atWork \in BOOLEAN :
       service = [row |-> IF atWork THEN Moved("start", NoReason, NoRow) ELSE NoRow,
                  card |-> [visit |-> atWork, written |-> atWork, signed |-> FALSE],
                  listed |-> TRUE, calibration |-> atWork, divergence |-> FALSE]
  /\ records \in {NotYet, RecordOf(service)}
  /\ page = NotYet /\ calls = {} /\ owed = << >>
  /\ acts = 0 /\ rushed = FALSE
-----------------------------------------------------------------------------
(* What the page makes of its copies.                                      *)

Phase(p) ==
  CASE p.job = NotYet                               -> "pre"
    [] p.job.state \in {"started", "paused"}       -> "active"
    [] p.job.state \in {"stopped", "signed_off"}   -> "done"
    [] OTHER                                       -> "pre"
Signed(p) == p.card # NotYet /\ p.card.signed

\* "The next step, and at most one alternative beside it."
Offered(job) ==
  CASE job.state = "not_started"                -> {"on_the_way"}
    [] job.state = "on_the_way"                 -> {"start", "stand_down"}
    [] job.state = "started"                    -> {"stop", "pause"}
    [] job.state = "paused" /\ ~job.blocks      -> {"start", "stop"}
    [] OTHER                                    -> {}

\* gateRefusal: what is missing on the card before a job at work is completed or paused.
Passes(verb, p) ==
  Phase(p) = "active" => /\ verb = "stop"  => p.visit /\ p.written
                         /\ verb = "pause" => p.written

\* The panels below the hero, and where their buttons lead.
Editor(p)     == Phase(p) = "active" /\ ~Signed(p)
Spares(p)     == Phase(p) = "active" /\ ~Signed(p)
AtTheEndOnly(p) == ~Signed(p) /\ Phase(p) = "done"
ClientSigns(p) ==
  /\ ~Signed(p)
  /\ Phase(p) = "done" \/ (p.job.state = "paused" /\ p.job.blocks)
SignedCard(p) == Signed(p) /\ (Phase(p) = "done" \/ p.job.state = "paused")
Dispensers(p) == p.job.calibration
Launcher(p)   == p.job.calibration /\ p.job.state \in {"started", "paused", "stopped"}
PastWork(p)   == Phase(p) \in {"pre", "done"} \/ p.job.state = "paused"
Elsewhere(p)  == Spares(p) \/ SignedCard(p) \/ Dispensers(p) \/ Launcher(p) \/ PastWork(p)
Leads(way, p) == IF way = "signoff" THEN ClientSigns(p) ELSE Elsewhere(p)
Ways(p) == {way \in {"signoff", "elsewhere"} : Leads(way, p)}
-----------------------------------------------------------------------------
(* Calls.                                                                  *)

Call(kind) == [kind |-> kind, event |-> "none", reason |-> NoReason, on |-> FALSE,
               before |-> NotYet, answer |-> NotYet]
EventCall(event, reason) == [Call("event") EXCEPT !.event = event, !.reason = reason]

Make(made) == Cardinality(calls \cup made) <= MaxCalls /\ calls' = calls \cup made
Rush == rushed' = (rushed \/ calls # {})
Act  == acts' = acts + 1 /\ acts < IF rushed THEN MaxRushed ELSE MaxActs

\* load: the list's copy at once and the server's answer behind it.
ShowJob(list, p) ==
  IF list = Unlisted THEN [p EXCEPT !.job = NotYet, !.load = "missing"]
                     ELSE [p EXCEPT !.job = list, !.load = "ready"]
Load(list, p) ==
  IF list # NotYet THEN ShowJob(list, p)
  ELSE [p EXCEPT !.load = IF @ = "ready" THEN @ ELSE "loading"]
\* The job card rides along from started onward: read on focus, and when the phase changes.
CardFor(p, now) ==
  IF Phase(now) \notin {"pre", Phase(p)} THEN {Call("card")} ELSE {}
OnFocus(list, p) == {[Call("list") EXCEPT !.before = list]}
                    \cup IF Phase(p) # "pre" THEN {Call("card")} ELSE {}
Focus(p) ==
  LET shown == Load(records, [p EXCEPT !.at = "page"]) IN
  page' = shown /\ Make(OnFocus(records, shown))
-----------------------------------------------------------------------------
(* The technician.                                                         *)

Up == page # NotYet /\ page.load = "ready" /\ page.at = "page"

Open ==
  /\ page = NotYet /\ Act /\ Rush /\ Focus(NewPage)
  /\ UNCHANGED <<service, records, owed>>
TryAgain ==
  /\ page # NotYet /\ page.load \in {"missing", "error"} /\ Act /\ Rush /\ Focus(page)
  /\ UNCHANGED <<service, records, owed>>
Leave ==
  /\ page # NotYet /\ page.at = "page"
  /\ page' = NotYet /\ Rush
  /\ UNCHANGED <<service, records, calls, owed, acts>>

Send(c) == Make({c}) /\ page' = [page EXCEPT !.busy = TRUE]

\* "Sign-off IS completion": Complete opens the sign-off, and stops directly only a job
\* whose card is sealed.
Complete ==
  \/ ~Signed(page) /\ page' = [page EXCEPT !.at = "signoff"] /\ UNCHANGED calls
  \/ Signed(page)  /\ Send(EventCall("stop", NoReason))
onVerb(verb) ==
  CASE verb = "pause"      -> page' = [page EXCEPT !.pausing = TRUE] /\ UNCHANGED calls
    [] verb = "stand_down" -> Send(Call("stand_down"))
    [] verb = "stop"       -> Complete
    [] OTHER               -> Send(EventCall(verb, NoReason))
Tap ==
  /\ Up /\ ~page.busy /\ Act /\ Rush
  /\ \E verb \in Offered(page.job) : Passes(verb, page) /\ onVerb(verb)
  /\ UNCHANGED <<service, records, owed>>

ConfirmPause ==
  /\ Up /\ page.pausing /\ ~page.busy /\ Act /\ Rush
  /\ \E reason \in Reasons : Send(EventCall("pause", reason))
  /\ UNCHANGED <<service, records, owed>>
CancelPause ==
  /\ Up /\ page.pausing
  /\ page' = [page EXCEPT !.pausing = FALSE]
  /\ UNCHANGED <<service, records, calls, owed, acts, rushed>>

\* The inline fields: dirty from the first keystroke, saved when left; a signed card
\* refuses.
FillCard ==
  /\ Up /\ Editor(page) /\ Act /\ Rush
  /\ \E visit, written \in BOOLEAN :
       LET entered(c) == [c EXCEPT !.visit = visit, !.written = written] IN
       /\ page' = [entered(page) EXCEPT !.dirty = TRUE]
       /\ service' = IF service.card.signed THEN service
                     ELSE [service EXCEPT !.card = entered(@)]
  /\ UNCHANGED <<records, calls, owed>>

\* The switch shows its new value at once.
ToggleCalibration ==
  /\ Up /\ Editor(page) /\ Act /\ Rush
  /\ page' = [page EXCEPT !.job.calibration = ~@]
  /\ Make({[Call("calibration") EXCEPT !.on = ~page.job.calibration,
                                       !.before = page.job.calibration]})
  /\ UNCHANGED <<service, records, owed>>
Seen ==
  /\ Up /\ page.divergence /\ Act /\ Rush
  /\ Make({Call("seen")})
  /\ UNCHANGED <<service, records, page, owed>>

GoTo ==
  /\ Up /\ Act /\ Rush
  /\ \E way \in Ways(page) : page' = [page EXCEPT !.at = way]
  /\ UNCHANGED <<service, records, calls, owed>>
ComeBack ==
  /\ page # NotYet /\ page.at # "page" /\ Rush /\ Focus(page)
  /\ UNCHANGED <<service, records, owed, acts>>
\* The sign-off names what is still to do; with nothing left the client signs.
ClientSignature ==
  /\ page # NotYet /\ page.at = "signoff" /\ Act /\ Rush
  /\ \A c \in calls : c.kind # "sign"
  /\ service.card.written /\ ~service.card.signed
  /\ StateOf(service.row) \notin {"not_started", "on_the_way"}
  /\ Make({Call("sign")})
  /\ UNCHANGED <<service, records, page, owed>>
-----------------------------------------------------------------------------
(* The server.                                                             *)

Closing(row) == IF row.state = "stopped" THEN "sign_off" ELSE "stop"
Accepts(c) ==
  CASE c.kind = "event"      -> service.listed /\ Allowed(c.event, service.row)
    [] c.kind = "stand_down" -> service.listed /\ service.row.state = "on_the_way"
    [] c.kind = "sign"       -> /\ service.listed /\ ~service.card.signed
                                /\ StateOf(service.row) \notin {"not_started", "on_the_way"}
                                /\ \/ HandedBack(service.row)
                                   \/ Allowed(Closing(service.row), service.row)
    [] OTHER                 -> TRUE

\* A stop of a signed job goes on to signed_off.
Stopped(row) == IF row.state = "stopped" THEN row ELSE Moved("stop", NoReason, row)
SignedOff(row) == Moved("sign_off", NoReason, Stopped(row))
Outcome(c) ==
  CASE c.kind = "event" /\ c.event = "stop" /\ service.card.signed ->
         [service EXCEPT !.row = SignedOff(@)]
    [] c.kind = "event" /\ ~(c.event = "stop" /\ service.card.signed) ->
         [service EXCEPT !.row = Moved(c.event, c.reason, @)]
    [] c.kind = "stand_down"  -> [service EXCEPT !.row.state = "not_started"]
    [] c.kind = "sign" ->
         [service EXCEPT !.card.signed = TRUE,
                         !.row = IF HandedBack(@) THEN @ ELSE SignedOff(@)]
    [] c.kind = "calibration" -> [service EXCEPT !.calibration = c.on]
    [] c.kind = "seen"        -> [service EXCEPT !.divergence = FALSE]
    [] OTHER                  -> service

AnswerTo(c, s) ==
  CASE c.kind = "card"                       -> s.card
    [] c.kind \in {"event", "stand_down"}    -> RecordOf(s)
    [] OTHER                                 -> [list |-> RecordOf(s), divergence |-> s.divergence]
ServeCall(c) ==
  /\ c.answer = NotYet
  /\ service' = IF Accepts(c) THEN Outcome(c) ELSE service
  /\ calls' = (calls \ {c}) \cup
       {[c EXCEPT !.answer = IF Accepts(c) THEN AnswerTo(c, Outcome(c)) ELSE Refusal]}
  /\ UNCHANGED <<records, page, owed, acts, rushed>>

\* The planner takes the job back; what the technician has in hand is told as divergence.
Recall ==
  /\ service.listed
  /\ service' = [service EXCEPT !.listed = FALSE, !.divergence = TRUE]
  /\ rushed' = TRUE
  /\ UNCHANGED <<records, page, calls, owed, acts>>
-----------------------------------------------------------------------------
(* Answers.                                                                *)

Becomes(p, c) == \* an effect that follows a change of the phase reads the card
  /\ page' = p
  /\ LET left == calls \ {c}
         due  == IF p # NotYet /\ page # NotYet /\ p.at = "page" THEN CardFor(page, p) ELSE {}
     IN  Cardinality(left \cup due) <= MaxCalls /\ calls' = left \cup due
OnPage(p) == IF page = NotYet THEN NotYet ELSE p

\* applyBundle: the page's own fields unless they were edited.
ShowBundle(card, p) ==
  [p EXCEPT !.card = card, !.visit   = IF p.dirty THEN @ ELSE card.visit,
                           !.written = IF p.dirty THEN @ ELSE card.written]

AnsweredRead(c) ==
  \/ /\ c.kind = "list"
     /\ records' = c.answer.list
     /\ LET told == [page EXCEPT !.divergence = c.answer.divergence] IN
        Becomes(OnPage(IF c.answer.list # c.before THEN ShowJob(c.answer.list, told) ELSE told), c)
  \/ /\ c.kind = "card"
     /\ Becomes(OnPage(ShowBundle(c.answer, page)), c)
     /\ UNCHANGED records
  \/ /\ c.kind = "seen"
     /\ Becomes(OnPage([page EXCEPT !.divergence = FALSE]), c)
     /\ UNCHANGED records
  \/ /\ c.kind = "calibration"
     /\ Becomes(page, c) /\ UNCHANGED records

\* router.back(): from the page it leaves, from another screen it comes back to the page.
Back(c, list, p) ==
  LET shown == Load(list, [p EXCEPT !.at = "page"])
      asked == (calls \ {c}) \cup OnFocus(list, shown)
  IN  IF page = NotYet \/ page.at = "page" THEN page' = NotYet /\ calls' = calls \ {c}
      ELSE page' = shown /\ Cardinality(asked) <= MaxCalls /\ calls' = asked

\* apply: the answer is shown and written to the copy; a pause that hands the job back
\* goes on to the client's signature.  A stand-down goes back.
HandsBack(c) == c.kind = "event" /\ c.event = "pause" /\ c.reason \in Blocking
Applied(c, job) ==
  [page EXCEPT !.job = job, !.busy = FALSE, !.pausing = FALSE,
               !.at = IF HandsBack(c) /\ ~Signed(page) THEN "signoff" ELSE @]
ShowVerb(c, list, job) ==
  IF c.kind = "stand_down" THEN Back(c, list, OnPage([page EXCEPT !.busy = FALSE]))
                           ELSE Becomes(OnPage(Applied(c, job)), c)
AnsweredVerb(c) ==
  /\ c.kind \in {"event", "stand_down"} /\ c.answer # Refusal
  /\ records' = IF records \in {NotYet, Unlisted} THEN records ELSE c.answer
  /\ ShowVerb(c, records', c.answer)

\* signJobCard completes the phone's copy, unless a blocking pause handed the job back,
\* and the sign-off goes back.
SignLocally(list) ==
  IF list \in {NotYet, Unlisted} \/ (list.state = "paused" /\ list.blocks) THEN list
  ELSE [list EXCEPT !.state = "signed_off"]
AnsweredSign(c) ==
  /\ c.kind = "sign" /\ c.answer # Refusal
  /\ records' = SignLocally(records)
  /\ Back(c, records', page)

\* An alert; the switch goes back to what it was.
Refused(c) ==
  /\ c.answer = Refusal
  /\ Becomes(OnPage([page EXCEPT !.busy = @ /\ c.kind = "sign"]), c)
  /\ UNCHANGED records
AnswerComes(c) ==
  /\ c.answer # NotYet
  /\ IF c.answer = Refusal THEN Refused(c)
                           ELSE AnsweredRead(c) \/ AnsweredVerb(c) \/ AnsweredSign(c)
  /\ UNCHANGED <<service, owed, acts, rushed>>

-----------------------------------------------------------------------------
(* Without signal: a verb is applied to the phone's copy and kept, if the  *)
(* copy has the job; a switch goes back, a read shows what there is.       *)

\* applyTransitionLocally: a pause leaves blocksResume as it was.
Locally(c, list) ==
  LET to(state) == [list EXCEPT !.state = state] IN
  CASE c.kind = "stand_down" -> to("not_started")
    [] c.event = "on_the_way" -> to("on_the_way")
    [] c.event = "start" -> [to("started") EXCEPT !.blocks = list.state # "paused" /\ @]
    [] c.event = "pause" -> to("paused")
    [] c.event = "stop"  -> to("stopped")
Keep(c) == Len(owed) < MaxOwed /\ owed' = Append(owed, [c EXCEPT !.answer = NotYet])

LostVerb(c) ==
  /\ c.kind \in {"event", "stand_down"}
  /\ IF records \in {NotYet, Unlisted}
     THEN Becomes(OnPage([page EXCEPT !.busy = FALSE]), c) /\ UNCHANGED <<records, owed>>
     ELSE /\ records' = Locally(c, records)
          /\ ShowVerb(c, records', records')
          /\ Keep(c)
LostSign(c) ==
  /\ c.kind = "sign"
  /\ records' = SignLocally(records)
  /\ Back(c, records', page)
  /\ Keep(c)
LostRead(c) ==
  /\ c.kind \in {"list", "card", "calibration", "seen"}
  /\ Becomes(OnPage(CASE c.kind = "list" /\ c.before = NotYet -> [page EXCEPT !.load = "error"]
                      [] c.kind = "calibration" /\ page.job # NotYet ->
                           [page EXCEPT !.job.calibration = c.before]
                      [] c.kind = "seen" -> [page EXCEPT !.divergence = FALSE]
                      [] OTHER -> page), c)
  /\ UNCHANGED <<records, owed>>
Lost(c) ==
  /\ rushed' = TRUE
  /\ LostVerb(c) \/ LostSign(c) \/ LostRead(c)
  /\ UNCHANGED <<service, acts>>
ReplayOwed ==
  /\ owed # << >> /\ Accepts(Head(owed))
  /\ service' = Outcome(Head(owed)) /\ owed' = Tail(owed)
  /\ UNCHANGED <<records, page, calls, acts, rushed>>

ScreenNext ==
  \/ Open \/ TryAgain \/ Leave \/ Tap \/ ConfirmPause \/ CancelPause \/ FillCard
  \/ ToggleCalibration \/ Seen \/ GoTo \/ ComeBack \/ ClientSignature
  \/ \E c \in calls : ServeCall(c) \/ AnswerComes(c) \/ Lost(c)
  \/ Recall \/ ReplayOwed
ScreenSpec == ScreenInit /\ [][ScreenNext]_screenVars
-----------------------------------------------------------------------------
(***************************************************************************)
(* "This decides what is TAPPABLE, the server decides what is true"        *)
(* (LifecycleActions.tsx): the two agree.  For a technician who waits for  *)
(* each answer and a job the office leaves alone, whatever the page lets   *)
(* through its gate is accepted; and the page never ends in a dead end: a  *)
(* job that is not signed off and not with the office under a signed card  *)
(* always has a verb, a field or the sign-off to go on with.  The one      *)
(* exception is the panel that asks for the reason of a pause: left open   *)
(* while the job is completed, it still asks on the job's outcome.         *)
(***************************************************************************)
Held(p) == p.job.state = "paused" /\ p.job.blocks
LeadsOn(p) ==
  \/ \E verb \in Offered(p.job) : Passes(verb, p) \/ Editor(p)
  \/ ClientSigns(p) /\ (service.card.written \/ Editor(p))
LeftOpen(c) == c.event = "pause" /\ Phase(page) = "done"
PageLeadsOn ==
  ~rushed =>
    /\ \A c \in calls : c.answer = NotYet => Accepts(c) \/ LeftOpen(c)
    /\ Up /\ calls = {} => \/ page.job.state = "signed_off" \/ (Held(page) /\ Signed(page))
                           \/ LeadsOn(page)
===============================================================================
