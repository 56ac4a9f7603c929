------------------------------ MODULE OnKeyDrain ------------------------------
(***************************************************************************)
(* The drain of a work order's outbox into OnKey, handleDrain of           *)
(* supabase/functions/onkey/index.ts over onkey_outbox_next (049), beside  *)
(* the transactions of WorkOrder that fill the queue and the read sync     *)
(* that brings OnKey's status back to the mirror.                          *)
(*                                                                         *)
(* A run takes the head of the queue, calls OnKey and writes the outcome   *)
(* on the row: three steps with an await between them.  OnKey accepts or   *)
(* refuses as it likes; a call may be lost before or after it took effect, *)
(* and the function may be killed at any await.                            *)
(***************************************************************************)
EXTENDS WorkOrder

CONSTANTS
  Drains,       \* invocations of the function that can be running at once
  Allowlist,    \* may the write allowlist hold the work order?  a set of answers
  MAX_ATTEMPTS, \* 5 in the code
  MaxFaults     \* bound: lost calls and killed functions

ASSUME AllowlistAssumption   == Allowlist \subseteq BOOLEAN
ASSUME MaxAttemptsAssumption == MAX_ATTEMPTS \in Nat \ {0}
ASSUME MaxFaultsAssumption   == MaxFaults \in Nat

VARIABLES
  run,      \* Drains -> the event the run is carrying
  onkey,    \* OnKey: [status, booked], the costings booked on the work order
  landed,   \* history: the rows that took effect at OnKey, in that order
  faults

drainVars == <<run, onkey, landed, faults>>
allVars   == <<vars, drainVars>>

NoRun == [step |-> "idle", row |-> 0, attempts |-> 0]

(* The stored count of attempts is bounded; the tries of overlapping or    *)
(* killed runs are not, which write the same count or none.                *)
DrainTypeOK ==
  /\ run \in [Drains -> [step : {"idle", "picked", "ok", "refused", "error"},
                         row : 0 .. Len(outbox), attempts : Nat]]
  /\ onkey \in [status : StatusCodes, booked : Nat]
  /\ landed \in Seq(DOMAIN outbox)
  /\ \A i \in DOMAIN outbox : outbox[i].attempts <= MAX_ATTEMPTS
  /\ faults \in 0 .. MaxFaults

DrainInit ==
  /\ Init
  /\ run = [d \in Drains |-> NoRun]
  /\ onkey = [status |-> "ALC", booked |-> 0]
  /\ landed = <<>>
  /\ faults = 0

-----------------------------------------------------------------------------
(* onkey_outbox_next: the head is chosen among all unfinished rows, and    *)
(* only then must it be out of its backoff.                                *)
EligibleFirst(q) ==
  LET ready == {i \in Unfinished(q) : ~q[i].hold} IN
  {i \in ready : \A j \in ready : ~Before(q[j], q[i])}
NextRows(q) == {i \in Heads(q) : ~q[i].hold}

Pick(d) ==
  /\ run[d] = NoRun
  /\ \E i \in NextRows(outbox) :
       run' = [run EXCEPT ![d] = [step |-> "picked", row |-> i,
                                  attempts |-> outbox[i].attempts]]
  /\ UNCHANGED <<vars, onkey, landed, faults>>

(* A work order off the allowlist is never offered to OnKey.               *)
Block(d) ==
  /\ run[d].step = "picked"
  /\ FALSE \in Allowlist
  /\ outbox' = [outbox EXCEPT ![run[d].row].state = "blocked"]
  /\ run' = [run EXCEPT ![d] = NoRun]
  /\ UNCHANGED <<now, lc, card, mirror, tx, onkey, landed, faults>>

Fault == faults < MaxFaults /\ faults' = faults + 1

TakeEffect(d) ==
  LET row == outbox[run[d].row] IN
  /\ onkey' = IF row.kind = "status_change" THEN [onkey EXCEPT !.status = row.to]
              ELSE [onkey EXCEPT !.booked = @ + 1]
  /\ landed' = Append(landed, run[d].row)

Answer(d, step) == run' = [run EXCEPT ![d].step = step]

(* execute(): OnKey takes the import, refuses it, or the call throws.      *)
Execute(d) ==
  /\ run[d].step = "picked"
  /\ TRUE \in Allowlist
  /\ \/ TakeEffect(d) /\ Answer(d, "ok") /\ UNCHANGED faults
     \/ Answer(d, "refused") /\ UNCHANGED <<onkey, landed, faults>>
     \/ TakeEffect(d) /\ Answer(d, "error") /\ Fault
     \/ Answer(d, "error") /\ Fault /\ UNCHANGED <<onkey, landed>>
  /\ UNCHANGED vars

(* retryOrGiveUp, from the attempts the run read with the event.           *)
AttemptsForgotten(row, attempts) ==
  [row EXCEPT !.state = IF attempts + 1 >= MAX_ATTEMPTS THEN "dead_letter" ELSE "failed",
              !.hold = attempts + 1 < MAX_ATTEMPTS]
RetryOrGiveUp(row, attempts) ==
  LET giveUp == attempts + 1 >= MAX_ATTEMPTS IN
  [row EXCEPT !.state = IF giveUp THEN "dead_letter" ELSE "failed",
              !.attempts = attempts + 1, !.hold = ~giveUp]

Sent(row, attempts) ==
  [row EXCEPT !.state = "sent", !.attempts = attempts + 1, !.hold = FALSE]

RecordGivesUpFirst(d) ==
  LET i == run[d].row
      n == run[d].attempts
  IN
  /\ run[d].step \in {"ok", "refused", "error"}
  /\ outbox' = [outbox EXCEPT ![i] = IF run[d].step = "ok" /\ n + 1 < MAX_ATTEMPTS
                                     THEN Sent(@, n) ELSE RetryOrGiveUp(@, n)]
  /\ run' = [run EXCEPT ![d] = NoRun]
  /\ UNCHANGED <<now, lc, card, mirror, tx, onkey, landed, faults>>
Record(d) ==
  LET i == run[d].row
      n == run[d].attempts
  IN
  /\ run[d].step \in {"ok", "refused", "error"}
  /\ outbox' = [outbox EXCEPT ![i] = IF run[d].step = "ok" THEN Sent(@, n)
                                     ELSE RetryOrGiveUp(@, n)]
  /\ run' = [run EXCEPT ![d] = NoRun]
  /\ UNCHANGED <<now, lc, card, mirror, tx, onkey, landed, faults>>

(* The function is killed: by its time limit, a deploy, a lost database.   *)
Killed(d) ==
  /\ run[d].step # "idle"
  /\ Fault
  /\ run' = [run EXCEPT ![d] = NoRun]
  /\ UNCHANGED <<vars, onkey, landed>>

BackoffOver ==
  /\ \E i \in DOMAIN outbox :
       /\ outbox[i].hold
       /\ outbox' = [outbox EXCEPT ![i].hold = FALSE]
  /\ UNCHANGED <<now, lc, card, mirror, tx, drainVars>>

(* The export and wo_seed_from_onkey bring OnKey's status to the mirror.   *)
ReadSync ==
  /\ mirror # onkey.status
  /\ mirror' = onkey.status
  /\ UNCHANGED <<now, lc, card, outbox, tx, drainVars>>

DrainNext ==
  \/ Next /\ UNCHANGED drainVars
  \/ \E d \in Drains : Pick(d) \/ Block(d) \/ Execute(d) \/ Record(d) \/ Killed(d)
  \/ BackoffOver
  \/ ReadSync

DrainSpec == DrainInit /\ [][DrainNext]_allVars

(* The drain is kicked by cron every other minute, a running function runs *)
(* on, and a backoff passes.                                               *)
DrainFairness ==
  /\ \A d \in Drains : /\ WF_allVars(Pick(d))
                       /\ WF_allVars(Execute(d) \/ Block(d))
                       /\ WF_allVars(Record(d))
  /\ WF_allVars(BackoffOver)

LiveDrainSpec == DrainSpec /\ DrainFairness

-----------------------------------------------------------------------------
(* Properties.                                                             *)

Settled(row) == row.state \in {"sent", "blocked", "dead_letter"}

(* "A head in backoff yields nothing for that work order, so successors    *)
(* cannot overtake it" (049): a row reaches OnKey only when every row      *)
(* before it has been sent or given up.                                    *)
NoOvertaking ==
  [][\A i \in DOMAIN landed' \ DOMAIN landed :
       \A j \in DOMAIN outbox : Before(outbox[j], outbox[landed'[i]]) => Settled(outbox[j])
    ]_allVars

(* A dead letter was really tried: OnKey never shows a write the queue     *)
(* calls given up, unless the answer to it was lost.                       *)
DeadNeverLanded ==
  faults = 0 => \A i \in DOMAIN landed :
    outbox[landed[i]].state \notin {"dead_letter", "blocked"}

(* Every queued write is settled in the end (MAX_ATTEMPTS): the calls of a  *)
(* work order are MaxNow at most, and once they are over nothing freezes   *)
(* its queue.                                                              *)
RowsSettle == <>[](\A i \in DOMAIN outbox : Settled(outbox[i]))

(* "They must land in that order" (046): once everything is sent, OnKey    *)
(* is where the lifecycle is.                                              *)
OnKeyAgrees ==
  (\A i \in DOMAIN outbox : outbox[i].state = "sent") => onkey.status \in StatusesFor(lc.state)

===============================================================================
