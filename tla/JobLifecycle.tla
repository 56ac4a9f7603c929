----------------------------- MODULE JobLifecycle ------------------------------
(***************************************************************************)
(* The lifecycle row of a work order and the rules its events follow, as   *)
(* app_wo_transition (108) applies them: which event is allowed in which   *)
(* state, how the device's clock is clamped, and what the UPDATE writes.   *)
(***************************************************************************)
EXTENDS Integers

CONSTANTS
  Reasons,   \* pause reasons
  Blocking,  \* the reasons with blocks_resume: the job goes back to the office
  NoTime     \* a NULL timestamp

ASSUME BlockingAssumption == Blocking \subseteq Reasons
ASSUME NoTimeAssumption   == NoTime \notin Int

NoReason == "none"
CreatedAt == 1

LifeStates == {"not_started", "on_the_way", "started", "paused", "stopped", "signed_off"}
MaybeTime  == Int \cup {NoTime}

\* "absent": the row is inserted by the first transition.
Lifecycle == [state : LifeStates \cup {"absent"}, reason : Reasons \cup {NoReason},
              startedAt : MaybeTime, pausedAt : MaybeTime, stoppedAt : MaybeTime,
              paused : Nat, last : MaybeTime]
NoRow == [state |-> "absent", reason |-> NoReason, startedAt |-> NoTime,
          pausedAt |-> NoTime, stoppedAt |-> NoTime, paused |-> 0, last |-> NoTime]

Events == {"on_the_way", "start", "pause", "stop", "sign_off"}

(* The rules of the lifecycle.                                             *)

StateOf(row) == IF row.state = "absent" THEN "not_started" ELSE row.state

HandedBack(row) == row.state = "paused" /\ row.reason \in Blocking

Allowed(event, row) ==
  LET s == StateOf(row) IN
  \/ event = "on_the_way" /\ s = "not_started"
  \/ event = "start" /\ s \in {"not_started", "on_the_way", "paused"} /\ ~HandedBack(row)
  \/ event = "pause" /\ s \in {"started", "on_the_way"}
  \/ event = "stop" /\ s \in {"started", "paused"}
  \/ event = "sign_off" /\ s = "stopped"

(* The device's clock is clamped to now(), to the work order's creation    *)
(* and to the previous event.                                              *)
UnorderedClamp(at, row, start) == IF at > start \/ at < CreatedAt THEN start ELSE at
Clamp(at, row, start) ==
  IF at > start \/ at < CreatedAt THEN start
  ELSE IF row.last # NoTime /\ at < row.last THEN row.last
  ELSE at

(* greatest(0, extract(epoch FROM (occurred - paused_at))), NULL ignored   *)
Elapsed(from, to) == IF from = NoTime \/ to < from THEN 0 ELSE to - from

(* started_at = coalesce(started_at, occurred)                             *)
FirstStart(row, at) == IF row.startedAt = NoTime THEN at ELSE row.startedAt

(* The UPDATE of an event: cur is the row the transaction read, row the    *)
(* one it finds when it holds the lock.                                    *)
Apply(event, reason, cur, row, at) ==
  CASE event = "on_the_way" -> [row EXCEPT !.state = "on_the_way", !.last = at]
    [] event = "start" /\ cur.state = "paused" ->
         [row EXCEPT !.state = "started", !.paused = @ + Elapsed(row.pausedAt, at),
                     !.pausedAt = NoTime, !.reason = NoReason, !.last = at]
    [] event = "start" /\ cur.state # "paused" ->
         [row EXCEPT !.state = "started", !.startedAt = FirstStart(row, at), !.last = at]
    [] event = "pause" ->
         [row EXCEPT !.state = "paused", !.pausedAt = at, !.reason = reason, !.last = at]
    [] event = "stop" ->
         [row EXCEPT !.state = "stopped", !.stoppedAt = at,
                     !.paused = @ + (IF cur.state = "paused"
                                     THEN Elapsed(row.pausedAt, at) ELSE 0),
                     !.pausedAt = NoTime, !.last = at]
    [] event = "sign_off" -> [row EXCEPT !.state = "signed_off", !.last = at]
===============================================================================
