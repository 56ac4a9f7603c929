------------------------------ MODULE WorkOrder -------------------------------
(***************************************************************************)
(* One work order on the server: its lifecycle row, its job card and the   *)
(* OnKey status changes they queue, driven by the app's RPCs               *)
(* app_wo_transition (108), app_wo_stand_down (070), app_job_card_save     *)
(* (067) and app_job_card_sign (110).                                      *)
(*                                                                         *)
(* Each RPC is one READ COMMITTED transaction that reads the rows it       *)
(* decides on without locking them and writes them later.  A transaction   *)
(* is therefore a step that reads and a step that writes and commits; the  *)
(* UPDATE waits for the row's lock and works on the row it then finds.     *)
(* now() is the start of the transaction, one value per transaction.       *)
(***************************************************************************)
EXTENDS OnKeyOutbox, FiniteSets, FiniteSetsExt

CONSTANTS
  Callers,   \* connections an RPC of this work order can be running on
  Skews,     \* device clock minus server clock, for the tap an RPC reports
  Contents,  \* what a job card can say
  HasVan,    \* does the technician book work (technician_has_no_van)?
  MaxNow     \* bound: the start of the last transaction

ASSUME SkewsAssumption    == Skews \subseteq Int
ASSUME ContentsAssumption == Contents \subseteq Nat \ {0}
ASSUME HasVanAssumption   == HasVan \in BOOLEAN
ASSUME MaxNowAssumption   == MaxNow \in Nat \ {0}

VARIABLES
  now,     \* the clock
  lc,      \* the work_order_lifecycle row
  card,    \* the work_order_job_cards row
  mirror,  \* work_orders.status_code, OnKey's status as last exported
  outbox,  \* the work order's rows of onkey_outbox
  tx       \* Callers -> the transaction running there

vars == <<now, lc, card, mirror, outbox, tx>>

Card   == [state : {"none", "draft", "signed"}, content : Contents \cup {0}]
NoCard == [state |-> "none", content |-> 0]

(* seal: the content a signing transaction has sealed, uncommitted.        *)
Tx == [op : {"idle", "transition", "stand_down", "save", "sign"},
       event : Events \cup {"none"}, reason : Reasons \cup {NoReason},
       content : Contents \cup {0}, at : Int, start : Nat, cur : Lifecycle,
       mirror : StatusCodes, seal : Contents \cup {0}]
Idle == [op |-> "idle", event |-> "none", reason |-> NoReason, content |-> 0, at |-> 0,
         start |-> 0, cur |-> NoRow, mirror |-> "ALC", seal |-> 0]

TypeOK ==
  /\ now \in CreatedAt .. MaxNow
  /\ lc \in Lifecycle
  /\ card \in Card
  /\ mirror \in StatusCodes
  /\ outbox \in Seq(Row)
  /\ tx \in [Callers -> Tx]

Init ==
  /\ now = CreatedAt
  /\ lc = NoRow
  /\ card = NoCard
  /\ mirror = "ALC"
  /\ outbox = <<>>
  /\ tx = [c \in Callers |-> Idle]

-----------------------------------------------------------------------------
(* Transactions.                                                           *)

Run(c, t) == tx' = [tx EXCEPT ![c] = t]

Begin(c, t) ==
  /\ tx[c] = Idle
  /\ now < MaxNow
  /\ now' = now + 1
  /\ \E skew \in Skews : Run(c, [t EXCEPT !.start = now + 1, !.at = now + 1 + skew])
  /\ UNCHANGED <<lc, card, mirror, outbox>>

(* A RAISE: the transaction leaves nothing behind.                         *)
RollBack(c) ==
  /\ Run(c, Idle)
  /\ UNCHANGED <<now, lc, card, mirror, outbox>>

TransitionRead(c) ==
  \E event \in {"on_the_way", "start", "pause", "stop"} :
  \E reason \in IF event = "pause" THEN Reasons ELSE {NoReason} :
    /\ Allowed(event, lc)
    /\ Begin(c, [Idle EXCEPT !.op = "transition", !.event = event, !.reason = reason,
                             !.cur = lc, !.mirror = mirror])

(* Two first transitions both insert the lifecycle row: the second fails   *)
(* on its key.                                                             *)
Clashes(c) == tx[c].cur.state = "absent" /\ lc.state # "absent"

TransitionClash(c) ==
  /\ tx[c].op = "transition"
  /\ Clashes(c)
  /\ RollBack(c)

(* Complete finishes everything: a stop of a job whose card is signed goes *)
(* on to signed_off, a second event in the same transaction.               *)
RollsOverCommitted(c) == tx[c].event = "stop" /\ card.state = "signed"
RollsOver(c) == tx[c].event = "stop" /\ (card.state = "signed" \/ tx[c].seal # 0)

(* What a signature may add to the queue: nothing for a technician without *)
(* a van, or a card without lines.                                         *)
CostingRows(content, start) ==
  {<<>>} \cup {<<CostingRow(content, start, s)>> :
                s \in IF HasVan THEN {"pending", "blocked"} ELSE {}}

Sealed(c) == IF tx[c].seal = 0 THEN {<<>>} ELSE CostingRows(tx[c].seal, tx[c].start)

SealCard(c) ==
  card' = IF tx[c].seal = 0 THEN card ELSE [card EXCEPT !.state = "signed"]

TransitionCommit(c) ==
  LET t     == tx[c]
      at    == Clamp(t.at, t.cur, t.start)
      first == Apply(t.event, t.reason, t.cur, lc, at)
      again == Clamp(at, first, t.start)
  IN
  /\ t.op = "transition"
  /\ ~Clashes(c)
  /\ lc' = IF RollsOver(c) THEN Apply("sign_off", NoReason, first, first, again) ELSE first
  /\ SealCard(c)
  /\ \E costing \in Sealed(c) : \E s \in StartStatuses(outbox \o costing, t.mirror) :
       LET queued == outbox \o costing \o HopRows(t.event, t.reason, s, t.start) IN
       IF ~RollsOver(c) THEN outbox' = queued
       ELSE \E s2 \in StartStatuses(queued, mirror) :
              outbox' = queued \o HopRows("sign_off", NoReason, s2, t.start)
  /\ Run(c, Idle)
  /\ UNCHANGED <<now, mirror>>

StandDownRead(c) ==
  /\ lc.state = "on_the_way"
  /\ Begin(c, [Idle EXCEPT !.op = "stand_down"])

(* The journey is abandoned; OnKey was never told of it.                   *)
StandDownCommit(c) ==
  LET t == tx[c] IN
  /\ t.op = "stand_down"
  /\ lc' = [lc EXCEPT !.state = "not_started",
                      !.last = IF t.at > t.start THEN t.start ELSE t.at]
  /\ Run(c, Idle)
  /\ UNCHANGED <<now, card, mirror, outbox>>

-----------------------------------------------------------------------------
(* The job card.                                                           *)

SaveAnyRead(c) ==
  \E content \in Contents : Begin(c, [Idle EXCEPT !.op = "save", !.content = content])
SaveRead(c) ==
  \E content \in Contents :
    /\ card.state # "signed"
    /\ Begin(c, [Idle EXCEPT !.op = "save", !.content = content])

(* A transaction that has updated the card holds its row until it ends.    *)
CardFree == \A c \in Callers : tx[c].seal = 0

(* INSERT ... ON CONFLICT DO UPDATE touches the content, not the state.    *)
SaveCommit(c) ==
  /\ tx[c].op = "save"
  /\ CardFree
  /\ card' = [state |-> IF card.state = "none" THEN "draft" ELSE card.state,
              content |-> tx[c].content]
  /\ Run(c, Idle)
  /\ UNCHANGED <<now, lc, mirror, outbox>>

SignRead(c) ==
  /\ StateOf(lc) \notin {"not_started", "on_the_way"}
  /\ card.state = "draft"
  /\ Begin(c, [Idle EXCEPT !.op = "sign", !.content = card.content, !.cur = lc])

SignEvent(row) == IF row.state = "stopped" THEN "sign_off" ELSE "stop"

(* The card is sealed and its costing queued.  A handed-back job keeps its *)
(* state; for any other the transaction goes on into app_wo_transition,    *)
(* which reads the lifecycle row afresh.                                   *)
Seal(c) ==
  LET t == tx[c] IN
  /\ t.op = "sign"
  /\ CardFree
  /\ IF HandedBack(t.cur)
     THEN /\ card' = [card EXCEPT !.state = "signed"]
          /\ \E costing \in CostingRows(t.content, t.start) : outbox' = outbox \o costing
          /\ Run(c, Idle)
          /\ UNCHANGED <<now, lc, mirror>>
     ELSE /\ Allowed(SignEvent(t.cur), lc)
          /\ Run(c, [t EXCEPT !.op = "transition", !.event = SignEvent(t.cur), !.cur = lc,
                              !.mirror = mirror, !.seal = t.content])
          /\ UNCHANGED <<now, lc, card, mirror, outbox>>

SealRefused(c) ==
  /\ tx[c].op = "sign"
  /\ CardFree
  /\ ~HandedBack(tx[c].cur)
  /\ ~Allowed(SignEvent(tx[c].cur), lc)
  /\ RollBack(c)

Next ==
  \E c \in Callers :
    \/ TransitionRead(c) \/ TransitionClash(c) \/ TransitionCommit(c)
    \/ StandDownRead(c) \/ StandDownCommit(c)
    \/ SaveRead(c) \/ SaveCommit(c)
    \/ SignRead(c) \/ Seal(c) \/ SealRefused(c)

Spec == Init /\ [][Next]_vars
-----------------------------------------------------------------------------
(* Properties.                                                             *)

(* Sign-off is completion (109, 110): a job whose card the client signed   *)
(* rests at signed_off, or paused if it was handed back to the office; it  *)
(* is never left running or stopped.                                       *)
SealFinishes == card.state = "signed" => lc.state = "signed_off" \/ HandedBack(lc)

(* Where no pause hands the job back, a signed job is never left stopped,  *)
(* however the calls overlap: "Complete lands the job in its final state"  *)
(* (108).                                                                  *)
StopRollsOver == Blocking = {} => ~(card.state = "signed" /\ lc.state = "stopped")

(* The start of the work is recorded once, however the calls overlap.      *)
StartKept == [][lc.startedAt # NoTime => lc'.startedAt = lc.startedAt]_vars

(* The costing OnKey is asked to book is the card the client signed, once: *)
(* "this job card has been signed and cannot be changed" (067).            *)
Costings == {i \in DOMAIN outbox : outbox[i].kind = "work_task_spares"}
CostingAsSigned ==
  /\ Cardinality(Costings) <= 1
  /\ \A i \in Costings : card.state = "signed" /\ outbox[i].content = card.content

(* The SLA clock, stopped minus started minus paused, is never negative:   *)
(* what keeps the device clocks of an offline pause and resume apart.      *)
PausesFitWork ==
  lc.state \in {"stopped", "signed_off"} /\ lc.startedAt # NoTime =>
    lc.paused <= lc.stoppedAt - lc.startedAt

(* The OnKey statuses our state stands for.                                *)
StatusesFor(state) ==
  CASE state = "started" -> {"WOR"}
    [] state = "paused"  -> {"WPA", "LSI"}
    [] state = "stopped" -> {"WST"}
    [] state = "signed_off" -> {"WOS"}
    [] OTHER -> {"ALC"}

Changes == {i \in DOMAIN outbox : outbox[i].kind = "status_change"}
LastOf(is, none) == IF is = {} THEN none ELSE outbox[Max(is)].to

(* "The second hop should start where the first one ends" (053): until a   *)
(* costing is queued, a status change starts from the one before it,       *)
(* whatever the mirror says (a costing has no status to start from); and a *)
(* hop is not queued twice (046).                                          *)
HopsChain ==
  \A i \in Changes :
    /\ 1 .. i - 1 \subseteq Changes => outbox[i].from = LastOf(1 .. i - 1, "ALC")
    /\ outbox[i].to # LastOf({j \in Changes : j < i}, "ALC")

(* There is no window in which we believe we have told OnKey something we  *)
(* have not (046): the status changes queued are one chain, and its last   *)
(* is the job's state.                                                     *)
QueueTellsState == HopsChain /\ LastOf(Changes, "ALC") \in StatusesFor(lc.state)
===============================================================================
