---------------------------- MODULE OnKeyFunction -----------------------------
(***************************************************************************)
(* The edge function onkey (supabase/functions/onkey): one invocation per  *)
(* request, its run in onkey_sync_runs, and the session with OnKey that    *)
(* its client (soap.ts) opens when it first needs one.                     *)
(*                                                                         *)
(* Invocations overlap, a session expires when OnKey likes, an answer may  *)
(* be lost after the call took effect, a database call may fail and the    *)
(* function may be killed at any await.  OnKeyDrain has the queue's order; *)
(* here its costings are sent line by line, and the exports beside them.   *)
(***************************************************************************)
EXTENDS Integers, FiniteSets, FiniteSetsExt

CONSTANTS
  Invocations, \* requests to the function, each answered once
  Cards,       \* 1 .. n: the signed cards whose costings are queued, oldest first
  Lines,       \* the costing lines of each
  Report,      \* the rows OnKey's report holds
  Bite,        \* rows stored by one upsert: 500 in the code
  GiveUp,      \* tries of a costing before it is given up: MAX_ATTEMPTS, 5 in the code
  MaxHiccups,  \* bound: lost answers, failing database calls, killed functions
  Wsdl         \* the parked description of a service

ASSUME InvocationsAssumption == IsFiniteSet(Invocations)
ASSUME CardsAssumption       == Cards \in SUBSET Nat

VARIABLES
  fn,       \* Invocations -> the invocation's own state
  sessions, \* the sessions OnKey holds open: <<invocation, its n-th logon>>
  parked,   \* onkey_report_rows
  tasks,    \* the work task mirror the rows are folded into
  queued,   \* Cards -> [state, attempts]: their rows in onkey_outbox
  booked,   \* Cards -> Lines -> spares OnKey holds for the line
  sent,     \* history: Cards -> times a run set out to send it
  strays,   \* history: sessions a fault took from their invocation
  hiccups
functionVars == <<fn, sessions, parked, tasks, queued, booked, sent, strays, hiccups>>

Actions == {"smoke", "introspect", "export", "drain"}

(* session: the number of the logon it holds the id of, 0 for null; todo:  *)
(* the costings still to send, with the attempts read; rows: report rows   *)
(* still to store; result: what the call or the run came to.               *)
Unstarted == [step |-> "new", action |-> "none", session |-> 0, logons |-> 0, retried |-> FALSE,
         todo |-> <<>>, rows |-> {}, refresh |-> FALSE, result |-> "succeeded", run |-> "none"]

FunctionInit ==
  /\ fn = [i \in Invocations |-> Unstarted]
  /\ sessions = {} /\ strays = {} /\ parked = {} /\ tasks = {}
  /\ queued = [c \in Cards |-> [state |-> "pending", attempts |-> 0]]
  /\ booked = [c \in Cards |-> [l \in Lines |-> 0]]
  /\ sent = [c \in Cards |-> 0]
  /\ hiccups = 0

Hiccup == hiccups < MaxHiccups /\ hiccups' = hiccups + 1
Becomes(i, f) == fn' = [fn EXCEPT ![i] = f]
-----------------------------------------------------------------------------
(* The request: its run is opened, or it is answered 500 at once.          *)
Eligible == {c \in Cards : queued[c].state \in {"pending", "failed"}}
Opened(i, action) == [fn[i] EXCEPT !.action = action, !.run = "open"]

Smoke(i)      == Becomes(i, [Opened(i, "smoke") EXCEPT !.step = "logon"])
Introspect(i) == Becomes(i, [Opened(i, "introspect") EXCEPT !.step = "fetch"])
Export(i) ==
  \E refresh \in BOOLEAN :
    Becomes(i, [Opened(i, "export") EXCEPT !.step = "logon", !.refresh = refresh])

(* A dry run reports what it would send, and a drain with nothing to send  *)
(* finishes without a client.                                              *)
Drain(i) ==
  \E todo \in {[c \in Eligible |-> queued[c].attempts], <<>>} :
    Becomes(i, [Opened(i, "drain") EXCEPT !.todo = todo,
                  !.step = IF todo = <<>> THEN "finish" ELSE "logon"])

Start(i) ==
  /\ fn[i].step = "new"
  /\ \/ (Smoke(i) \/ Introspect(i) \/ Export(i) \/ Drain(i)) /\ UNCHANGED hiccups
     \/ Hiccup /\ \E run \in {"none", "open"} : \* startRun, or onkey_outbox_next, fails
          Becomes(i, [fn[i] EXCEPT !.step = "done", !.run = run])
  /\ UNCHANGED <<sessions, parked, tasks, queued, booked, sent, strays>>
-----------------------------------------------------------------------------
(* What an exception does: the drain writes it on the row and goes on, the *)
(* others finish their run as failed.                                      *)
Thrown(f) == [f EXCEPT !.step = IF f.action = "drain" THEN "record" ELSE "finish",
                       !.result = "failed"]

(* logon: nothing when an id is held.                                      *)
Current(i) == Min(DOMAIN fn[i].todo)
Sends(i)   == fn[i].action = "drain" /\ ~fn[i].retried
Count(i)   == sent' = IF Sends(i) THEN [sent EXCEPT ![Current(i)] = @ + 1] ELSE sent
OnwardsFrom(f) ==
  [f EXCEPT !.step = IF f.action = "smoke" THEN "bye" ELSE "call"]

Logon(i) ==
  LET n      == fn[i].logons + 1
      logged == [fn[i] EXCEPT !.session = n, !.logons = n]
  IN
  /\ fn[i].step = "logon"
  /\ \/ /\ fn[i].session # 0
        /\ Becomes(i, OnwardsFrom(fn[i]))
        /\ Count(i)
        /\ UNCHANGED <<sessions, strays, hiccups>>
     \/ /\ fn[i].session = 0
        /\ Becomes(i, OnwardsFrom(logged))
        /\ Count(i)
        /\ sessions' = sessions \cup {<<i, n>>}
        /\ UNCHANGED <<strays, hiccups>>
     \/ /\ fn[i].session = 0
        /\ Hiccup
        /\ \E reached \in {{}, {<<i, n>>}} : \* refused, or its answer lost
             /\ sessions' = sessions \cup reached
             /\ strays' = strays \cup reached
        /\ Becomes(i, Thrown([fn[i] EXCEPT !.logons = n]))
        /\ Count(i)
  /\ UNCHANGED <<parked, tasks, queued, booked>>

Expired(i) == <<i, fn[i].session>> \notin sessions

(* call: a SessionExpired fault means a new logon and one retry.           *)
RetryOnce(i) ==
  /\ Expired(i)
  /\ Becomes(i, IF fn[i].retried THEN Thrown(fn[i])
                ELSE [fn[i] EXCEPT !.session = 0, !.retried = TRUE, !.step = "logon"])
  /\ UNCHANGED <<booked, hiccups>>

(* Any import answers for each record: a line taken is booked although     *)
(* another is refused.                                                     *)
Book(i, taken) ==
  booked' = [booked EXCEPT ![Current(i)] =
               [l \in Lines |-> IF l \in taken THEN @[l] + 1 ELSE @[l]]]
Import(i) ==
  /\ fn[i].action = "drain"
  /\ ~Expired(i)
  /\ \E taken \in SUBSET Lines :
       /\ Book(i, taken)
       /\ Becomes(i, [fn[i] EXCEPT !.step = "record",
                        !.result = IF taken = Lines THEN "succeeded" ELSE "failed"])
  /\ UNCHANGED hiccups
ImportLostRetries(i) ==
  /\ fn[i].action = "drain"
  /\ ~Expired(i)
  /\ \E taken \in SUBSET Lines : Book(i, taken)
  /\ Becomes(i, IF fn[i].retried THEN Thrown(fn[i])
                ELSE [fn[i] EXCEPT !.session = 0, !.retried = TRUE, !.step = "logon"])
  /\ Hiccup
ImportLost(i) ==
  /\ fn[i].action = "drain"
  /\ ~Expired(i)
  /\ \E taken \in SUBSET Lines : Book(i, taken)
  /\ Becomes(i, Thrown(fn[i]))
  /\ Hiccup
ExportData(i) ==
  /\ fn[i].action = "export"
  /\ ~Expired(i)
  /\ \/ /\ Becomes(i, [fn[i] EXCEPT !.step = "store", !.rows = Report])
        /\ UNCHANGED hiccups
     \/ Becomes(i, [fn[i] EXCEPT !.step = "logoff"]) /\ UNCHANGED hiccups \* debug: rows only shown
     \/ Becomes(i, Thrown(fn[i])) /\ Hiccup
  /\ UNCHANGED booked

Call(i) ==
  /\ fn[i].step = "call"
  /\ RetryOnce(i) \/ Import(i) \/ ImportLost(i) \/ ExportData(i)
  /\ UNCHANGED <<sessions, parked, tasks, queued, sent, strays>>
-----------------------------------------------------------------------------
(* The export is stored a bite at a time, and the task mirror refreshed in *)
(* the same invocation.                                                    *)
Bites(rows) ==
  {bite \in SUBSET rows \ {{}} : Cardinality(bite) = Min({Bite, Cardinality(rows)})}

Park(i) ==
  /\ fn[i].step = "store" /\ Bites(fn[i].rows) # {}
  /\ \/ /\ \E bite \in Bites(fn[i].rows) :
             /\ parked' = parked \cup bite
             /\ Becomes(i, [fn[i] EXCEPT !.rows = @ \ bite])
        /\ UNCHANGED hiccups
     \/ Hiccup /\ Becomes(i, Thrown(fn[i])) /\ UNCHANGED parked
  /\ UNCHANGED <<sessions, tasks, queued, booked, sent, strays>>

Fold(i) ==
  /\ fn[i].step = "store" /\ Bites(fn[i].rows) = {}
  /\ \/ /\ tasks' = IF fn[i].refresh THEN tasks \cup (parked \cap Report) ELSE tasks
        /\ Becomes(i, [fn[i] EXCEPT !.step = "finish"])
        /\ UNCHANGED hiccups
     \/ /\ fn[i].refresh
        /\ Hiccup /\ Becomes(i, Thrown(fn[i])) /\ UNCHANGED tasks
  /\ UNCHANGED <<sessions, parked, queued, booked, sent, strays>>

(* introspect: the first address that answers is parked, and a failure to  *)
(* park it is not looked at.                                               *)
Fetch(i) ==
  /\ fn[i].step = "fetch"
  /\ \/ /\ parked' = parked \cup {Wsdl}
        /\ Becomes(i, [fn[i] EXCEPT !.step = "finish"])
        /\ UNCHANGED hiccups
     \/ /\ Hiccup
        /\ \E result \in {"succeeded", "failed"} :
             Becomes(i, [fn[i] EXCEPT !.step = "finish", !.result = result])
        /\ UNCHANGED parked
  /\ UNCHANGED <<sessions, tasks, queued, booked, sent, strays>>

(* The outcome of a costing is written on its row by the attempts read     *)
(* with it; a failing update is not looked at, and the drain goes on.      *)
Outcome(attempts, result) ==
  [state |-> IF result = "succeeded" THEN "sent"
             ELSE IF attempts + 1 >= GiveUp THEN "dead_letter" ELSE "failed",
   attempts |-> attempts + 1]
WriteOutcome(i) ==
  LET c    == Current(i)
      left == [d \in DOMAIN fn[i].todo \ {c} |-> fn[i].todo[d]]
  IN
  /\ fn[i].step = "record"
  /\ \/ /\ queued' = [queued EXCEPT ![c] = Outcome(fn[i].todo[c], fn[i].result)]
        /\ UNCHANGED hiccups
     \/ Hiccup /\ UNCHANGED queued
  /\ Becomes(i, [fn[i] EXCEPT !.todo = left, !.retried = FALSE, !.result = "succeeded",
                              !.step = IF DOMAIN left = {} THEN "finish" ELSE "logon"])
  /\ UNCHANGED <<sessions, parked, tasks, booked, sent, strays>>
-----------------------------------------------------------------------------
(* finishRun, whose failure is not looked at, and the finally that logs    *)
(* off whatever happened.                                                  *)
FinishRunLeavesFailed(i) ==
  /\ fn[i].step = "finish"
  /\ \/ /\ Becomes(i, [fn[i] EXCEPT !.run = fn[i].result,
                                    !.step = IF fn[i].result = "failed" THEN "done" ELSE "logoff"])
        /\ UNCHANGED hiccups
     \/ Becomes(i, [fn[i] EXCEPT !.step = "logoff"]) /\ Hiccup
  /\ UNCHANGED <<sessions, parked, tasks, queued, booked, sent, strays>>
FinishRun(i) ==
  /\ fn[i].step = "finish"
  /\ \/ Becomes(i, [fn[i] EXCEPT !.run = fn[i].result, !.step = "logoff"]) /\ UNCHANGED hiccups
     \/ Becomes(i, [fn[i] EXCEPT !.step = "logoff"]) /\ Hiccup
  /\ UNCHANGED <<sessions, parked, tasks, queued, booked, sent, strays>>

LogOff(i) ==
  LET own == {<<i, fn[i].session>>} IN
  /\ fn[i].step \in {"bye", "logoff"}
  /\ \/ sessions' = sessions \ own /\ UNCHANGED <<strays, hiccups>>
     \/ own \subseteq sessions /\ Hiccup /\ strays' = strays \cup own /\ UNCHANGED sessions
  /\ Becomes(i, [fn[i] EXCEPT !.session = 0,
                              !.step = IF fn[i].step = "bye" THEN "finish" ELSE "done"])
  /\ UNCHANGED <<parked, tasks, queued, booked, sent>>

Kill(i) ==
  /\ fn[i].step \notin {"new", "done"}
  /\ Hiccup
  /\ strays' = strays \cup ({<<i, fn[i].session>>} \cap sessions)
  /\ Becomes(i, [fn[i] EXCEPT !.step = "done"])
  /\ UNCHANGED <<sessions, parked, tasks, queued, booked, sent>>

Expire ==
  /\ \E s \in sessions : sessions' = sessions \ {s}
  /\ UNCHANGED <<fn, parked, tasks, queued, booked, sent, strays, hiccups>>

FunctionNext ==
  \/ \E i \in Invocations :
       \/ Start(i) \/ Logon(i) \/ Call(i) \/ Park(i) \/ Fold(i) \/ Fetch(i)
       \/ WriteOutcome(i) \/ FinishRun(i) \/ LogOff(i) \/ Kill(i)
  \/ Expire
FunctionSpec == FunctionInit /\ [][FunctionNext]_functionVars
-----------------------------------------------------------------------------
(* "LogOff always" (soap.ts): a session OnKey holds open is the one its    *)
(* invocation holds the id of and will log off, however calls fail and     *)
(* sessions expire; only a fault of the network or a kill leaves one.      *)
LogsOff ==
  \A s \in sessions \ strays : fn[s[1]].session = s[2] /\ fn[s[1]].step # "done"

(* "SessionExpired fault means re-Logon and retry once": a retry follows   *)
(* only a call that was turned away, so that each time a run sets out to   *)
(* send a costing, a line of it is booked once at the most.                *)
BookedOncePerTry ==
  \A c \in Cards, l \in Lines : booked[c][l] <= sent[c]
===============================================================================
