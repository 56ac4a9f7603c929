------------------------------ MODULE WriteOutbox -----------------------------
(***************************************************************************)
(* The device's outbox of work order writes (mobile/src/sync/outbox.ts),   *)
(* the calls that fill it (api/client.ts) and what the screens show, above *)
(* the server's rules in JobLifecycle.                                     *)
(*                                                                         *)
(* A write goes straight to its RPC; if the network fails it is queued and *)
(* the device's copy of the work order is moved as if it had been served.  *)
(* A drain replays the queue.  An RPC is one step here (WorkOrder has its  *)
(* transactions); an action of the device is the JavaScript between two    *)
(* awaits.                                                                 *)
(***************************************************************************)
EXTENDS JobLifecycle, Sequences, SequencesExt

CONSTANTS
  Jobs,       \* work orders on the device
  Calls,      \* screen calls that can be under way at once
  Drains,     \* who drains: the sync hook, the profile screen
  Acts,       \* what may happen beyond the plain flow
  MaxTaps,    \* bound: writes the technician makes
  MaxTroubles \* bound: answers lost, drains cut off, apps killed

ASSUME BoundsAssumption == MaxTaps \in Nat /\ MaxTroubles \in Nat

(* "overtake": a call is served while writes of its job are queued;        *)
(* "lost_answer": the server takes a write and its answer is lost;         *)
(* "kill": the app is killed; "recall": the office takes a job away;       *)
(* "stale_list": a list that was read earlier arrives.                     *)
KnownActs == {"overtake", "lost_answer", "kill", "recall", "stale_list"}

VARIABLES
  server,   \* Jobs -> the lifecycle row, the job card and whose job it is
  cached,   \* Jobs -> the cached record the screens show
  bundle,   \* Jobs -> the cached job card: "none", "open", "signed"
  form,     \* Jobs -> the last save made on the card's screen
  kept,     \* the table outbox, oldest first
  calls,    \* Calls -> a write under way from a screen
  drains,   \* Drains -> the writes a drain has still to send, the first under way, and
            \* the jobs a refusal has stuck
  list,     \* a list of records under way to the device
  taps, troubles,
  applied   \* history: Jobs -> the writes the server has applied, in order

outboxVars == <<server, cached, bundle, form, kept, calls, drains, list, taps, troubles, applied>>

Ops == Events \cup {"stand_down", "save", "sign"}

(* A write is its own content: a save puts the card at id, a signature     *)
(* accepts the card as content.                                            *)
Write == [id : 1 .. MaxTaps, job : Jobs, op : Ops, reason : Reasons \cup {NoReason},
          content : 0 .. MaxTaps]
NoCall == <<>>

ShownRecord == [state : LifeStates, blocks : BOOLEAN]
Reply  == {"none", "ok", "refused", "lost"}
NoList == [j \in Jobs |-> <<>>]

Stop == [left |-> <<>>, stuck |-> {}, reply |-> "none"]

OutboxTypeOK ==
  /\ server \in [Jobs -> [row : Lifecycle, card : {"none", "draft", "signed"},
                          content : 0 .. MaxTaps, accepted : 0 .. MaxTaps, mine : BOOLEAN]]
  /\ cached \in [Jobs -> ShownRecord]
  /\ bundle \in [Jobs -> {"none", "open", "signed"}]
  /\ form \in [Jobs -> 0 .. MaxTaps]
  /\ kept \in Seq([write : Write, rejected : BOOLEAN])
  /\ \A i, k \in DOMAIN kept : kept[i].write = kept[k].write => i = k
  /\ \A c \in Calls : calls[c] # NoCall =>
       /\ calls[c].write \in Write
       /\ calls[c].reply \in Reply
       /\ calls[c].shown \in ShownRecord
       /\ calls[c].bundle \in {"none", "open", "signed"}
  /\ drains \in [Drains -> [left : Seq(Write), stuck : SUBSET Jobs, reply : Reply]]
  /\ list = NoList \/ list \in [Jobs -> ShownRecord]
  /\ taps \in 0 .. MaxTaps
  /\ troubles \in 0 .. MaxTroubles
  /\ applied \in [Jobs -> Seq(1 .. MaxTaps)]

OutboxInit ==
  /\ server = [j \in Jobs |-> [row |-> NoRow, card |-> "none", content |-> 0,
                               accepted |-> 0, mine |-> TRUE]]
  /\ cached = [j \in Jobs |-> [state |-> "not_started", blocks |-> FALSE]]
  /\ bundle = [j \in Jobs |-> "none"]
  /\ form = [j \in Jobs |-> 0]
  /\ kept = <<>>
  /\ calls = [c \in Calls |-> NoCall]
  /\ drains = [d \in Drains |-> Stop]
  /\ list = NoList
  /\ taps = 0
  /\ troubles = 0
  /\ applied = [j \in Jobs |-> <<>>]

-----------------------------------------------------------------------------
(* The server: the RPC of a write, one step.                               *)

AtWork(s) == StateOf(s.row) \notin {"not_started", "on_the_way"}

Completion(s) == IF s.row.state = "stopped" THEN "sign_off" ELSE "stop"

Accepts(w, s) ==
  /\ s.mine
  /\ \/ w.op \in Events /\ Allowed(w.op, s.row)
     \/ w.op = "stand_down" /\ s.row.state = "on_the_way"
     \/ w.op = "save" /\ s.card # "signed"
     \/ w.op = "sign" /\ AtWork(s) /\ s.card = "draft"
                      /\ (HandedBack(s.row) \/ Allowed(Completion(s), s.row))

Happens(event, w, row) == Apply(event, w.reason, row, row, Clamp(w.id, row, taps))

(* A stop of a job whose card is signed goes on to signed_off.             *)
Finished(event, w, s) ==
  LET row == Happens(event, w, s.row) IN
  [s EXCEPT !.row = IF event = "stop" /\ s.card = "signed"
                    THEN Happens("sign_off", w, row) ELSE row]

Served(w, s) ==
  CASE w.op \in Events -> Finished(w.op, w, s)
    [] w.op = "stand_down" -> [s EXCEPT !.row.state = "not_started", !.row.last = w.id]
    [] w.op = "save" -> [s EXCEPT !.card = "draft", !.content = w.id]
    [] w.op = "sign" ->
         LET sealed == [s EXCEPT !.card = "signed", !.accepted = w.content] IN
         IF HandedBack(s.row) THEN sealed ELSE Finished(Completion(s), w, sealed)

ServeWrite(w) ==
  IF Accepts(w, server[w.job])
  THEN /\ server' = [server EXCEPT ![w.job] = Served(w, @)]
       /\ applied' = [applied EXCEPT ![w.job] = Append(@, w.id)]
  ELSE UNCHANGED <<server, applied>>

ReplyTo(w) == IF Accepts(w, server[w.job]) THEN "ok" ELSE "refused"

(* What app_wo_list and app_job_card_get say of a job.                     *)
RecordOf(s) == [state |-> StateOf(s.row), blocks |-> s.row.reason \in Blocking]
BundleOf(s) == CASE s.card = "signed" -> "signed"
                 [] s.card = "draft" /\ AtWork(s) -> "open"
                 [] OTHER -> "none"

Recall(j) ==
  /\ "recall" \in Acts
  /\ server[j].mine
  /\ server' = [server EXCEPT ![j].mine = FALSE]
  /\ UNCHANGED <<cached, bundle, form, kept, calls, drains, list, taps, troubles, applied>>

(* A lost answer: the server has taken the write, the device cannot know.  *)
FaultIf(may) ==
  IF may THEN troubles < MaxTroubles /\ troubles' = troubles + 1 ELSE UNCHANGED troubles

-----------------------------------------------------------------------------
(* What the device makes of a write it could only queue.                   *)

(* applyTransitionLocally: the state moves; a pause leaves blocksResume.   *)
Moved(op, m) ==
  CASE op = "start" /\ m.state = "paused" -> [state |-> "started", blocks |-> FALSE]
    [] op = "start" /\ m.state # "paused" -> [m EXCEPT !.state = "started"]
    [] op = "pause" -> [m EXCEPT !.state = "paused"]
    [] op = "stop" -> [m EXCEPT !.state = "stopped"]
    [] op = "on_the_way" -> [m EXCEPT !.state = "on_the_way"]
    [] op = "stand_down" -> [m EXCEPT !.state = "not_started"]
    [] OTHER -> m

(* A signature completes the job, unless a blocking pause handed it back.  *)
SignIgnored(m) == m
SignShown(m) ==
  IF m.state = "paused" /\ m.blocks THEN m ELSE [m EXCEPT !.state = "signed_off"]

-----------------------------------------------------------------------------
(* The screens.                                                            *)

Quiet(j) == \A c \in Calls : calls[c] # NoCall => calls[c].write.job # j

Busy(j) ==
  \E c \in Calls : calls[c] # NoCall /\ calls[c].write.job = j /\ calls[c].write.op # "save"

MayTap(op, j) ==
  LET m       == cached[j]
      working == m.state = "started" \/ (m.state = "paused" /\ ~m.blocks)
  IN
  \/ op = "on_the_way" /\ m.state = "not_started"
  \/ op = "stand_down" /\ m.state = "on_the_way"
  \/ op = "start" /\ (m.state = "on_the_way" \/ (m.state = "paused" /\ ~m.blocks))
  \/ op = "pause" /\ m.state = "started" /\ form[j] # 0
  \/ op = "stop" /\ working /\ bundle[j] = "signed" /\ form[j] # 0
  \/ op = "save" /\ m.state \in {"started", "paused"} /\ bundle[j] # "signed"
  \/ op = "sign" /\ m.state \in {"started", "paused", "stopped", "signed_off"}
                 /\ bundle[j] = "open"

Tap(c, j) ==
  /\ calls[c] = NoCall
  /\ taps < MaxTaps
  /\ \E op \in Ops \ {"sign_off"} : \E reason \in IF op = "pause" THEN Reasons ELSE {NoReason} :
       LET w == [id |-> taps + 1, job |-> j, op |-> op, reason |-> reason,
                 content |-> form[j]] IN
       /\ MayTap(op, j)
       /\ op # "save" => ~Busy(j)
       /\ calls' = [calls EXCEPT ![c] = [write |-> w, reply |-> "none",
                                        shown |-> cached[j], bundle |-> bundle[j]]]
       /\ form' = IF op = "save" THEN [form EXCEPT ![j] = w.id] ELSE form
  /\ taps' = taps + 1
  /\ UNCHANGED <<server, cached, bundle, kept, drains, list, troubles, applied>>

(* Both RPC families answer with the record or bundle as it is then.       *)
RpcServed(c) ==
  LET w == calls[c].write IN
  /\ calls[c] # NoCall
  /\ calls[c].reply = "none"
  /\ "overtake" \in Acts \/ \A i \in DOMAIN kept : kept[i].write.job # w.job
  /\ ServeWrite(w)
  /\ \E lost \in {FALSE} \cup {"lost_answer" \in Acts} :
       /\ FaultIf(lost)
       /\ calls' = [calls EXCEPT ![c] =
                      [write |-> w, reply |-> IF lost THEN "lost" ELSE ReplyTo(w),
                       shown |-> RecordOf(server'[w.job]), bundle |-> BundleOf(server'[w.job])]]
  /\ UNCHANGED <<cached, bundle, form, kept, drains, list, taps>>

(* No signal: the request never leaves.                                    *)
RpcLost(c) ==
  /\ calls[c] # NoCall
  /\ calls[c].reply = "none"
  /\ calls' = [calls EXCEPT ![c].reply = "lost"]
  /\ UNCHANGED <<server, cached, bundle, form, kept, drains, list, taps, troubles, applied>>

ShownAfter(w, reply, answer) ==
  LET m == cached[w.job] IN
  CASE reply = "refused" \/ w.op = "save" -> m
    [] reply # "refused" /\ w.op = "sign" -> SignShown(m)
    [] reply # "refused" /\ w.op \notin {"save", "sign"} ->
         IF reply = "ok" THEN answer ELSE Moved(w.op, m)

RpcDone(c) ==
  LET w     == calls[c].write
      reply == calls[c].reply
  IN
  /\ calls[c] # NoCall
  /\ reply # "none"
  /\ cached' = [cached EXCEPT ![w.job] = ShownAfter(w, reply, calls[c].shown)]
  /\ bundle' = IF reply = "ok" /\ w.op \in {"save", "sign"}
               THEN [bundle EXCEPT ![w.job] = calls[c].bundle] ELSE bundle
  /\ kept' = IF reply = "lost" THEN Append(kept, [write |-> w, rejected |-> FALSE])
               ELSE kept
  /\ calls' = [calls EXCEPT ![c] = NoCall]
  /\ UNCHANGED <<server, form, drains, list, taps, troubles, applied>>

(* fetchThrough writes whatever list the network brings.                   *)
ListServed ==
  /\ "stale_list" \in Acts
  /\ list = NoList
  /\ list' = [j \in Jobs |-> RecordOf(server[j])]
  /\ UNCHANGED <<server, cached, bundle, form, kept, calls, drains, taps, troubles, applied>>

ListDone ==
  /\ list # NoList
  /\ cached' = list
  /\ list' = NoList
  /\ UNCHANGED <<server, bundle, form, kept, calls, drains, taps, troubles, applied>>

(* getJobCard, whenever a screen with the card comes into focus.           *)
CardFetched(j) ==
  /\ cached[j].state \notin {"not_started", "on_the_way"}
  /\ bundle' = [bundle EXCEPT ![j] = BundleOf(server[j])]
  /\ UNCHANGED <<server, cached, form, kept, calls, drains, list, taps, troubles, applied>>

-----------------------------------------------------------------------------
(* drainOutbox.                                                            *)

NewestFirst == Reverse([i \in DOMAIN kept |-> kept[i].write])
Snapshot == [i \in DOMAIN kept |-> kept[i].write]

ReplayStart(d) ==
  /\ drains[d] = Stop
  /\ kept # <<>>
  /\ drains' = [drains EXCEPT ![d] = [left |-> Snapshot, stuck |-> {}, reply |-> "none"]]
  /\ UNCHANGED <<server, cached, bundle, form, kept, calls, list, taps, troubles, applied>>

ReplayServed(d) ==
  LET w == Head(drains[d].left) IN
  /\ drains[d].left # <<>>
  /\ drains[d].reply = "none"
  /\ ServeWrite(w)
  /\ \E lost \in {FALSE} \cup {"lost_answer" \in Acts} :
       /\ FaultIf(lost)
       /\ drains' = [drains EXCEPT ![d].reply = IF lost THEN "lost" ELSE ReplyTo(w)]
  /\ UNCHANGED <<cached, bundle, form, kept, calls, list, taps>>

WithoutWrite(w) ==
  LET at == {i \in DOMAIN kept : kept[i].write = w} IN
  IF at = {} THEN kept ELSE RemoveAt(kept, Min(at))
Rejected(w) == [i \in DOMAIN kept |->
                  IF kept[i].write = w THEN [kept[i] EXCEPT !.rejected = TRUE] ELSE kept[i]]

(* A rejected write blocks the later ones of its own job: they are passed. *)
NeverStuck(left, stuck) == left
PastStuck(left, stuck) ==
  LET free == {i \in DOMAIN left : left[i].job \notin stuck} IN
  IF free = {} THEN <<>> ELSE SubSeq(left, Min(free), Len(left))

GoesOn(left, stuck) ==
  LET rest == PastStuck(left, stuck) IN
  IF rest = <<>> THEN Stop ELSE [left |-> rest, stuck |-> stuck, reply |-> "none"]

StopAtRefusal(d) ==
  LET w == Head(drains[d].left) IN
  /\ drains[d].left # <<>>
  /\ drains[d].reply \in {"ok", "refused"}
  /\ kept' = IF drains[d].reply = "ok" THEN WithoutWrite(w) ELSE Rejected(w)
  /\ drains' = [drains EXCEPT ![d] = IF @.reply = "ok" THEN GoesOn(Tail(@.left), {}) ELSE Stop]
  /\ UNCHANGED <<server, cached, bundle, form, calls, list, taps, troubles, applied>>
ReplayRecord(d) ==
  LET left  == drains[d].left
      stuck == drains[d].stuck
  IN
  /\ left # <<>>
  /\ \/ /\ drains[d].reply = "ok"
        /\ kept' = WithoutWrite(Head(left))
        /\ drains' = [drains EXCEPT ![d] = GoesOn(Tail(left), stuck)]
     \/ /\ drains[d].reply = "refused"
        /\ kept' = Rejected(Head(left))
        /\ drains' = [drains EXCEPT ![d] = GoesOn(Tail(left), stuck \cup {Head(left).job})]
  /\ UNCHANGED <<server, cached, bundle, form, calls, list, taps, troubles, applied>>

(* The network fails before or after the server took the write: the drain  *)
(* leaves the rest for the next one.                                       *)
KeepOutbox(w) == kept

ReplayCut(d) ==
  /\ drains[d].left # <<>>
  /\ \/ drains[d].reply = "none" /\ FaultIf(TRUE)
     \/ drains[d].reply = "lost" /\ UNCHANGED troubles
  /\ kept' = KeepOutbox(Head(drains[d].left))
  /\ drains' = [drains EXCEPT ![d] = Stop]
  /\ UNCHANGED <<server, cached, bundle, form, calls, list, taps, applied>>

-----------------------------------------------------------------------------
(* Everything in flight is gone with the app; a call is not queued.        *)
KillApp ==
  /\ "kill" \in Acts
  /\ FaultIf(TRUE)
  /\ calls' = [c \in Calls |-> NoCall]
  /\ drains' = [d \in Drains |-> Stop]
  /\ list' = NoList
  /\ UNCHANGED <<server, cached, bundle, form, kept, taps, applied>>

OutboxNext ==
  \/ \E j \in Jobs : Recall(j) \/ CardFetched(j)
  \/ \E c \in Calls :
       \/ \E j \in Jobs : Tap(c, j)
       \/ RpcServed(c) \/ RpcLost(c) \/ RpcDone(c)
  \/ ListServed \/ ListDone
  \/ \E d \in Drains :
       ReplayStart(d) \/ ReplayServed(d) \/ ReplayRecord(d) \/ ReplayCut(d)
  \/ KillApp

OutboxSpec == OutboxInit /\ [][OutboxNext]_outboxVars

(* Launch, foreground, reconnect and a 15 minute interval start drains;    *)
(* a request is answered or fails.                                         *)
OutboxFairness ==
  \A d \in Drains : /\ WF_outboxVars(ReplayStart(d))
                    /\ WF_outboxVars(ReplayServed(d))
                    /\ WF_outboxVars(ReplayRecord(d))
                    /\ WF_outboxVars(drains[d].reply = "lost" /\ ReplayCut(d))

OutboxFairSpec == OutboxSpec /\ OutboxFairness

-----------------------------------------------------------------------------
(* Properties.                                                             *)

(* Nothing of a job is under way on the device or to it.                   *)
JobAtRest(j) ==
  /\ Quiet(j)
  /\ list = NoList
  /\ \A i \in DOMAIN kept : kept[i].write.job # j
  /\ \A d \in Drains : \A i \in DOMAIN drains[d].left : drains[d].left[i].job # j

(* "A rejected lifecycle event blocks every later event for the SAME work  *)
(* order": a drain sends a write only when no earlier one of its job is    *)
(* waiting in the queue.                                                   *)
ReplayInOrder ==
  \A d \in Drains : drains[d].left # <<>> =>
    LET w == Head(drains[d].left) IN
    \A k \in DOMAIN kept : kept[k].write = w =>
      \A i \in 1 .. k - 1 : kept[i].write.job # w.job

(* "Replayed IN ORDER": the server takes the writes of a job in the order  *)
(* the technician made them, each once.                                    *)
AppliedInOrder ==
  \A j \in Jobs : \A m, n \in DOMAIN applied[j] : m < n => applied[j][m] < applied[j][n]

(* "The screen and the cached list agree with what the server will do when *)
(* the queue drains".                                                      *)
MirrorAgrees == \A j \in Jobs : JobAtRest(j) => cached[j].state = StateOf(server[j].row)

(* "A sign must not overtake the save that put the content there": a       *)
(* signature seals the card with every save made before it.                *)
SealedAsWritten ==
  \A j \in Jobs : server[j].card = "signed" => server[j].content = server[j].accepted

(* Whatever fails: a queued write is delivered, unless the server refuses  *)
(* it or an earlier one of the same job.  Other jobs are not held up.      *)
QueuedId(id) == \E i \in DOMAIN kept : kept[i].write.id = id
HeldUp(id) ==
  \E i, k \in DOMAIN kept :
    /\ kept[k].write.id = id
    /\ kept[i].rejected
    /\ i <= k
    /\ kept[i].write.job = kept[k].write.job
EveryWriteAnswered == \A id \in 1 .. MaxTaps : QueuedId(id) ~> (~QueuedId(id) \/ HeldUp(id))
===============================================================================
