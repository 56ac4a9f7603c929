----------------------------- MODULE SessionLease -----------------------------
(***************************************************************************)
(* The OnKey session lease: one row with a holder's label and an expiry    *)
(* (063, 104, 107) that keeps the sync runs of the backend                 *)
(* (routers/onkey.py) and the outbox drain from logging on to OnKey at the *)
(* same time.                                                              *)
(*                                                                         *)
(* A kick takes the lease and queues an HTTP request that leaves when its  *)
(* transaction commits; nobody waits for the run it starts.  The run hands *)
(* the lease back under its label when it ends; a kick that never became a *)
(* run is found by the verifier, if it was logged, or by the expiry.       *)
(***************************************************************************)
EXTENDS Integers, FiniteSets

CONSTANTS
  Kicks,        \* kicks that can be under way at once
  Modes,        \* sync modes of the backend
  Drain,        \* the drain, a run of the Edge function
  Patient,      \* the modes kicked, and logged, by onkey_kick_patient
  LeaseSeconds, \* Jobs -> the time a kick takes the lease for
  Work,         \* Jobs -> the longest run
  Delay,        \* the longest a request is under way
  Timeout,      \* pg_net stops waiting for the answer (15 s)
  VerifyAfter,  \* the verifier stops waiting for it (3 min)
  NoJob, NoKick

Jobs == Modes \cup {Drain}

ASSUME ModesAssumption   == Drain \notin Modes /\ NoJob \notin Jobs /\ Patient \subseteq Modes
ASSUME KicksAssumption   == NoKick \notin Kicks /\ IsFiniteSet(Kicks)
ASSUME TimesAssumption   == /\ LeaseSeconds \in [Jobs -> Nat \ {0}]
                            /\ Work \in [Jobs -> Nat]
                            /\ {Delay, Timeout, VerifyAfter} \subseteq Nat

\* A lease is "a genuine upper bound on the work" of a mode (096) and longer
\* than "the two seconds" a drain needs (074), the way there included; these
\* are measured, not enforced.  The verifier waits longer than a request is
\* under way.
ASSUME OutlastsAssumption == /\ \A j \in Jobs : LeaseSeconds[j] > Delay + Work[j]
                             /\ VerifyAfter > Delay

VARIABLES
  lease,    \* onkey_session_lease; owner, history: the kick that took it
  running,  \* the modes whose single-flight flag is set in the backend
  kick,     \* Kicks -> the kick, its request and the run it became
  calm      \* history: requests may be lost and the backend may die, but no
            \* request was served after pg_net gave up on it, no answer was
            \* dropped, and no release was slow or failed

vars == <<lease, running, kick, calm>>

Idle == [job |-> NoJob, net |-> "none", run |-> "none", answer |-> "none",
         log |-> "none", age |-> 0, work |-> 0]

AgeCap == CHOOSE n \in {Delay, Timeout, VerifyAfter} :
            \A m \in {Delay, Timeout, VerifyAfter} : m <= n

TypeOK ==
  /\ lease \in [holder : Jobs \cup {NoJob}, left : Nat, owner : Kicks \cup {NoKick}]
  /\ running \subseteq Modes
  /\ kick \in [Kicks -> [job : Jobs \cup {NoJob}, net : {"none", "travelling", "gone"},
                         run : {"none", "working", "ended", "released"},
                         answer : {"none", "accepted", "refused", "error"},
                         log : {"none", "pending"}, age : 0 .. AgeCap, work : Nat]]
  /\ calm \in BOOLEAN

Init ==
  /\ lease = [holder |-> NoJob, left |-> 0, owner |-> NoKick]
  /\ running = {}
  /\ kick = [k \in Kicks |-> Idle]
  /\ calm = TRUE

-----------------------------------------------------------------------------
(* The lease.                                                              *)

Expired(l) == l.left = 0

(* UPDATE ... WHERE expires_at < clock_timestamp(): a lease that is held   *)
(* is not touched, not even locked (107).                                  *)
Taken(k, job) == [holder |-> job, left |-> LeaseSeconds[job], owner |-> k]

(* UPDATE ... SET expires_at = clock_timestamp() WHERE holder = p_holder   *)
ReleasedByAnyone(job) == [lease EXCEPT !.left = 0]
Released(job) == IF lease.holder = job THEN [lease EXCEPT !.left = 0] ELSE lease

-----------------------------------------------------------------------------
(* A kick.                                                                 *)

(* A slot is free again when nothing of its kick is left.                  *)
Settled(r) ==
  IF r.net # "travelling" /\ r.run = "none" /\ r.log = "none" THEN Idle ELSE r

(* A kick that finds the lease held changes nothing; a patient one tries   *)
(* again.  The logged kicks of a mode are scheduled further apart than the *)
(* verifier ever waits.                                                    *)
Take(k, job) ==
  /\ kick[k] = Idle
  /\ Expired(lease)
  /\ \A other \in Kicks : kick[other].log = "pending" => kick[other].job # job
  /\ lease' = Taken(k, job)
  /\ kick' = [kick EXCEPT ![k] = [Idle EXCEPT !.job = job, !.net = "travelling",
                                  !.log = IF job \in Patient THEN "pending" ELSE "none"]]
  /\ UNCHANGED <<running, calm>>

(* What pg_net records of an answer; a recorded timeout stays.             *)
Recorded(k, answer) ==
  IF kick[k].answer # "none" THEN {kick[k].answer} ELSE {answer, "none", "error"}

(* POST /v1/onkey/sync: one run of a mode at a time.  The Edge function    *)
(* has no such guard.                                                      *)
Begin(k, said) ==
  /\ kick' = [kick EXCEPT ![k].net = "gone", ![k].run = "working", ![k].answer = said]
  /\ running' = running \cup ({kick[k].job} \cap Modes)
TurnAway(k, said) ==
  /\ kick' = [kick EXCEPT ![k] = Settled([@ EXCEPT !.net = "gone", !.answer = said])]
  /\ UNCHANGED running

ArriveUnguarded(k) ==
  /\ kick[k].net = "travelling"
  /\ \E said \in Recorded(k, "accepted") :
       /\ Begin(k, said)
       /\ calm' = (calm /\ said = "accepted")
  /\ UNCHANGED lease
Arrive(k) ==
  LET busy   == kick[k].job \in running
      answer == IF busy THEN "refused" ELSE "accepted" IN
  /\ kick[k].net = "travelling"
  /\ \E said \in Recorded(k, answer) :
       /\ IF busy THEN TurnAway(k, said) ELSE Begin(k, said)
       /\ calm' = (calm /\ said = answer)
  /\ UNCHANGED lease

(* The request dies on its way; pg_net may or may not say so.              *)
Lost(k) ==
  /\ kick[k].net = "travelling"
  /\ \E said \in IF kick[k].answer = "none" THEN {"none", "error"} ELSE {kick[k].answer} :
       kick' = [kick EXCEPT ![k] = Settled([@ EXCEPT !.net = "gone", !.answer = said])]
  /\ UNCHANGED <<lease, running, calm>>

(* pg_net gives up; a service that was waking up may serve it all the same.*)
TimesOut(k) ==
  /\ kick[k].net = "travelling"
  /\ kick[k].answer = "none"
  /\ kick[k].age >= Timeout
  /\ \E net \in {"gone", "travelling"} :
       /\ kick' = [kick EXCEPT ![k] = Settled([@ EXCEPT !.net = net, !.answer = "error"])]
       /\ calm' = (calm /\ net = "gone")
  /\ UNCHANGED <<lease, running>>

-----------------------------------------------------------------------------
(* A run: the work, then the release, then the single-flight flag.         *)

End(k) ==
  /\ kick[k].run = "working"
  /\ kick' = [kick EXCEPT ![k] = Settled(
                [@ EXCEPT !.run = IF kick[k].job = Drain THEN "none" ELSE "ended", !.work = 0])]
  /\ UNCHANGED <<lease, running, calm>>

HandBack(k) ==
  /\ kick[k].run = "ended"
  /\ kick' = [kick EXCEPT ![k].run = "released"]
  /\ \/ lease' = Released(kick[k].job) /\ UNCHANGED calm
     \/ calm' = FALSE /\ UNCHANGED lease
  /\ UNCHANGED running

ClearFlag(k) ==
  /\ kick[k].run = "released"
  /\ kick' = [kick EXCEPT ![k] = Settled([@ EXCEPT !.run = "none"])]
  /\ running' = running \ {kick[k].job}
  /\ UNCHANGED <<lease, calm>>

(* The service restarts: its runs are gone and the lease is not released.  *)
BackendDies ==
  /\ running # {}
  /\ running' = {}
  /\ kick' = [k \in Kicks |-> IF kick[k].job \in Modes
                              THEN Settled([kick[k] EXCEPT !.run = "none", !.work = 0])
                              ELSE kick[k]]
  /\ UNCHANGED <<lease, calm>>

-----------------------------------------------------------------------------
(* onkey_kick_verify: what became of a logged kick.                        *)

Failed(r) == r.answer \in {"refused", "error"} \/ (r.answer = "none" /\ r.age >= VerifyAfter)

VerifyAnswered(k) ==
  /\ kick[k].log = "pending"
  /\ kick[k].answer # "none"
  /\ lease' = IF kick[k].answer = "accepted" THEN lease ELSE Released(kick[k].job)
  /\ kick' = [kick EXCEPT ![k] = Settled([@ EXCEPT !.log = "none"])]
  /\ UNCHANGED <<running, calm>>
Verify(k) ==
  /\ kick[k].log = "pending"
  /\ \/ kick[k].answer = "accepted" /\ UNCHANGED lease
     \/ Failed(kick[k]) /\ lease' = Released(kick[k].job)
  /\ kick' = [kick EXCEPT ![k] = Settled([@ EXCEPT !.log = "none"])]
  /\ UNCHANGED <<running, calm>>

-----------------------------------------------------------------------------
(* Time.                                                                   *)

MayPass(r) ==
  /\ r.net = "travelling" => r.age < Delay
  /\ r.run = "working" => r.work < Work[r.job]

Older(r) ==
  [r EXCEPT !.age  = IF r = Idle \/ @ = AgeCap THEN @ ELSE @ + 1,
            !.work = IF r.run = "working" THEN @ + 1 ELSE @]

TickForever(l) == l
TickUnclamped(l) == [l EXCEPT !.left = @ - 1]
TickLease(l) == [l EXCEPT !.left = IF @ = 0 THEN 0 ELSE @ - 1]

Tick ==
  /\ \A k \in Kicks : MayPass(kick[k])
  /\ lease' = TickLease(lease)
  /\ kick' = [k \in Kicks |-> Older(kick[k])]
  /\ calm' = (calm /\ \A k \in Kicks : kick[k].run # "ended")
  /\ UNCHANGED running

Next ==
  \/ \E k \in Kicks :
       \/ \E job \in Jobs : Take(k, job)
       \/ Arrive(k) \/ Lost(k) \/ TimesOut(k)
       \/ End(k) \/ HandBack(k) \/ ClearFlag(k)
       \/ Verify(k)
  \/ BackendDies
  \/ Tick

Spec == Init /\ [][Next]_vars

(* Time passes, a request arrives or is lost, a run goes on until it ends, *)
(* and the verifier runs every minute.                                     *)
Fairness ==
  /\ WF_vars(Tick)
  /\ \A k \in Kicks : /\ WF_vars(Arrive(k) \/ Lost(k))
                      /\ WF_vars(End(k))
                      /\ WF_vars(HandBack(k))
                      /\ WF_vars(ClearFlag(k))
                      /\ WF_vars(Verify(k))

LiveSpec == Spec /\ Fairness

-----------------------------------------------------------------------------
(* Properties.                                                             *)

Working == {k \in Kicks : kick[k].run = "working"}

(* "The session lease has to outlast the work it protects" (096): as long  *)
(* as all is calm, a run works only under the lease its own kick took, so  *)
(* OnKey never sees two sessions of ours.                                  *)
LeaseCoversRun == calm => \A k \in Working : lease.owner = k /\ ~Expired(lease)

(* Two runs of one mode never share the backend's process, even while the  *)
(* first is still on its way out and whatever became of the lease.         *)
SingleFlight ==
  \A m \in Modes : Cardinality({k \in Kicks : kick[k].job = m /\ kick[k].run # "none"}) <= 1

(* "A late finisher must not free a lease someone else has since taken"    *)
(* (063): before its time a lease is freed only by what its own kick       *)
(* became, as long as all is calm.  (A tick takes one unit of time.)       *)
FreedByItsOwn ==
  [][calm' /\ lease.left > 1 /\ lease'.left = 0
       => kick'[lease.owner] # kick[lease.owner]]_vars

(* "Nothing has to be released for the system to recover" (063): whoever   *)
(* dies or fails to release, the lease comes free again.                   *)
LeaseComesFree == ~Expired(lease) ~> Expired(lease)

(* Every logged kick is resolved (104), whatever became of its request.    *)
KicksResolved == \A k \in Kicks : kick[k].log = "pending" ~> kick[k].log = "none"
===============================================================================
