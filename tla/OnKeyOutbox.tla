----------------------------- MODULE OnKeyOutbox ------------------------------
(***************************************************************************)
(* The rows of onkey_outbox for one work order: the status changes a       *)
(* lifecycle event maps to (migrations 032, 043, 053) and the costing a    *)
(* signature queues (110), with the order in which the rows are drained    *)
(* (049).  A queue is the sequence of rows in the order the transactions   *)
(* that inserted them committed, which is the order of the lifecycle.      *)
(***************************************************************************)
EXTENDS JobLifecycle, Sequences

CONSTANT NoCode  \* a payload without a stateCode

(* wo_status_map; a code array of length two is two hops.                  *)
UnmappedCodes(event, reason) ==
  CASE event \in {"on_the_way", "sign_off"} -> <<>>
    [] event = "start" -> <<"WOR">>
    [] event = "pause" -> <<"WPA">>
    [] event = "stop"  -> <<"WST">>
Codes(event, reason) ==
  CASE event = "on_the_way" -> <<>>
    [] event = "start"      -> <<"WOR">>
    [] event = "pause"      -> IF reason \in Blocking THEN <<"WPA", "LSI">> ELSE <<"WPA">>
    [] event = "stop"       -> <<"WST">>
    [] event = "sign_off"   -> <<"WOS">>

StatusCodes == {"ALC", "WOR", "WPA", "LSI", "WST", "WOS"}

ASSUME NoCodeAssumption == NoCode \notin StatusCodes

(* created is created_at, the START of the inserting transaction; seq      *)
(* orders the hops of one event; hold: not_before lies in the future.      *)
Row == [kind : {"status_change", "work_task_spares"}, event : Events \cup {"sign"},
        from : StatusCodes \cup {NoCode}, to : StatusCodes \cup {NoCode},
        content : Nat, created : Nat, seq : {1, 2},
        state : {"pending", "failed", "sent", "blocked", "dead_letter"},
        attempts : Nat, hold : BOOLEAN]

(* onkey_transition_plan: each hop starts where the one before it ended.   *)
HopRows(event, reason, start, created) ==
  LET codes == Codes(event, reason) IN
  [i \in DOMAIN codes |->
    [kind |-> "status_change", event |-> event,
     from |-> IF i = 1 THEN start ELSE codes[i - 1], to |-> codes[i],
     content |-> 0, created |-> created, seq |-> i,
     state |-> "pending", attempts |-> 0, hold |-> FALSE]]

(* The costing of a card; blocked if its work task or van is not known.    *)
CostingRow(content, created, state) ==
  [kind |-> "work_task_spares", event |-> "sign", from |-> NoCode, to |-> NoCode,
   content |-> content, created |-> created, seq |-> 1,
   state |-> state, attempts |-> 0, hold |-> FALSE]

Unfinished(q) == {i \in DOMAIN q : q[i].state \in {"pending", "failed"}}

(* ORDER BY created_at, seq; nothing breaks a tie.                         *)
Before(a, b) == a.created < b.created \/ (a.created = b.created /\ a.seq < b.seq)

Heads(q)  == {i \in Unfinished(q) : \A j \in Unfinished(q) : ~Before(q[j], q[i])}
Latest(q) == {i \in Unfinished(q) : \A j \in Unfinished(q) : ~Before(q[i], q[j])}

(* app_wo_enqueue_onkey: coalesce(start_status, p_current_status), the     *)
(* stateCode of the latest unfinished row or else the mirror's status.     *)
StartStatuses(q, mirror) ==
  IF Unfinished(q) = {} THEN {mirror}
  ELSE {IF q[i].to = NoCode THEN mirror ELSE q[i].to : i \in Latest(q)}
===============================================================================
