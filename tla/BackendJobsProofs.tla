-------------------------- MODULE BackendJobsProofs ---------------------------
(***************************************************************************)
(* What the backend's two sides against OnKey promise (MCBackendJobs runs  *)
(* them side by side): the lease that keeps sessions apart (SessionLease), *)
(* then the delta lane of the read sync that works under it (ReadSync).    *)
(*                                                                         *)
(* What keeps two OnKey sessions apart holds for any number of kicks, any  *)
(* modes and any durations that satisfy the assumptions of SessionLease.   *)
(*                                                                         *)
(* One run of a mode at a time rests on the single-flight flag alone       *)
(* (Flagged, Alone) and holds whatever is lost or late.  That a run works  *)
(* under its own lease rests on time: the lease a kick took is longer than *)
(* the request's way and the work (Covered), and a logged kick that could  *)
(* release under the label of a lease is the one that took it (LogOwns).   *)
(***************************************************************************)
EXTENDS SessionLease, ReadSync, FiniteSetTheorems, WellFoundedInduction, TLAPS

Kick == [job : Jobs \cup {NoJob}, net : {"none", "travelling", "gone"},
         run : {"none", "working", "ended", "released"},
         answer : {"none", "accepted", "refused", "error"},
         log : {"none", "pending"}, age : 0 .. AgeCap, work : Nat]

(* A run is of a job, and a backend run has set its mode's flag.           *)
FlagOf(r, flags) ==
  /\ r.net = "travelling" => r.run = "none" /\ r.job \in Jobs
  /\ r.run # "none" => r.job \in Jobs /\ (r.job \in Modes => r.job \in flags)
  /\ r.run \in {"ended", "released"} => r.job \in Modes

Flagged == \A k \in Kicks : FlagOf(kick[k], running)

Alone ==
  \A k, other \in Kicks :
    /\ kick[k].run # "none" /\ kick[other].run # "none"
    /\ kick[k].job = kick[other].job /\ kick[k].job \in Modes
    => k = other

LogOwns ==
  \A k \in Kicks :
    kick[k].log = "pending" /\ lease.holder = kick[k].job /\ ~Expired(lease) => lease.owner = k

(* The lease a kick took lasts until what became of it is over.            *)
CoverOf(k, r, l) ==
  /\ r.net = "travelling" =>
       /\ l.owner = k /\ l.holder = r.job /\ r.answer = "none" /\ r.age <= Delay
       /\ r.work = 0
       /\ l.left >= LeaseSeconds[r.job] - r.age
  /\ r.run = "working" =>
       /\ l.owner = k /\ l.holder = r.job /\ r.answer = "accepted" /\ r.work <= Work[r.job]
       /\ l.left >= LeaseSeconds[r.job] - Delay - r.work
  /\ r.run = "ended" =>
       l.owner = k /\ l.holder = r.job /\ r.answer = "accepted" /\ l.left >= 1

Covered == calm => \A k \in Kicks : CoverOf(k, kick[k], lease)

IInv == TypeOK /\ Flagged /\ Alone /\ LogOwns /\ Covered

Live(r) == r.net = "travelling" \/ r.run \in {"working", "ended"}

Lease == [holder : Jobs \cup {NoJob}, left : Nat, owner : Kicks \cup {NoKick}]

-----------------------------------------------------------------------------
LEMMA AgeCapBound == AgeCap \in Nat /\ Delay <= AgeCap
<1> DEFINE S == {Delay, Timeout, VerifyAfter}
<1>1. S \subseteq Nat
  BY TimesAssumption
<1>2. \E n \in S : \A m \in S : m <= n
  BY <1>1
<1> HIDE DEF S
<1>3. AgeCap = CHOOSE n \in S : \A m \in S : m <= n
  BY DEF AgeCap, S
<1>4. AgeCap \in S /\ \A m \in S : m <= AgeCap
  BY <1>2, <1>3
<1>5. Delay \in S
  BY DEF S
<1> QED
  BY <1>1, <1>4, <1>5

LEMMA IdleFacts ==
  /\ Idle \in Kick /\ Idle.run = "none" /\ Idle.log = "none" /\ Idle.net = "none"
  /\ Idle.job = NoJob /\ NoJob \notin Jobs
  /\ ~Live(Idle)
BY AgeCapBound, ModesAssumption DEF Idle, Kick, Live

LEMMA SettledCases ==
  ASSUME NEW r
  PROVE  \/ Settled(r) = r
         \/ Settled(r) = Idle /\ r.net # "travelling" /\ r.run = "none" /\ r.log = "none"
BY DEF Settled

LEMMA TypeFacts ==
  ASSUME IInv
  PROVE  /\ lease \in Lease /\ running \subseteq Modes /\ kick \in [Kicks -> Kick]
         /\ calm \in BOOLEAN
BY DEF IInv, TypeOK, Lease, Kick

LEMMA TypeBack ==
  ASSUME lease' \in Lease, running' \subseteq Modes, kick' \in [Kicks -> Kick], calm' \in BOOLEAN
  PROVE  TypeOK'
BY DEF TypeOK, Lease, Kick

LEMMA InitIInv == Init => IInv
<1> SUFFICES ASSUME Init
             PROVE  IInv
  OBVIOUS
<1>1. kick = [k \in Kicks |-> Idle] /\ kick \in [Kicks -> Kick]
  BY IdleFacts DEF Init
<1>2. TypeOK
  BY <1>1 DEF Init, TypeOK, Kick
<1>3. Flagged /\ Alone /\ LogOwns /\ Covered
  BY <1>1, IdleFacts DEF Flagged, FlagOf, Alone, LogOwns, Covered, CoverOf, Live
<1> QED
  BY <1>2, <1>3 DEF IInv

-----------------------------------------------------------------------------
(* What is not live needs no lease, and what is live in the calm has one   *)
(* with time left.                                                         *)

LEMMA NotLiveCovered ==
  ASSUME NEW k, NEW r, NEW l, ~Live(r)
  PROVE  CoverOf(k, r, l)
BY DEF Live, CoverOf

LEMMA LiveHolds ==
  ASSUME IInv, calm, NEW k \in Kicks, Live(kick[k])
  PROVE  lease.owner = k /\ lease.holder = kick[k].job /\ lease.left >= 1
<1>1. /\ CoverOf(k, kick[k], lease) /\ FlagOf(kick[k], running)
      /\ kick[k] \in Kick /\ lease \in Lease
  BY TypeFacts DEF IInv, Covered, Flagged
<1>2. kick[k].age \in Nat /\ kick[k].work \in Nat /\ lease.left \in Nat
  BY <1>1, AgeCapBound DEF Kick, Lease
<1>3. /\ \A j \in Jobs : LeaseSeconds[j] \in Nat /\ Work[j] \in Nat
                         /\ LeaseSeconds[j] > Delay + Work[j]
      /\ Delay \in Nat
  BY TimesAssumption, OutlastsAssumption
<1>4. CASE kick[k].net = "travelling"
  <2>1. kick[k].job \in Jobs
    BY <1>1, <1>4 DEF FlagOf
  <2> QED
    BY <1>1, <1>2, <1>3, <1>4, <2>1 DEF CoverOf
<1>5. CASE kick[k].run = "working"
  <2>1. kick[k].job \in Jobs
    BY <1>1, <1>5 DEF FlagOf
  <2> QED
    BY <1>1, <1>2, <1>3, <1>5, <2>1 DEF CoverOf
<1>6. CASE kick[k].run = "ended"
  BY <1>1, <1>6 DEF CoverOf
<1> QED
  BY <1>4, <1>5, <1>6 DEF Live

LEMMA OnlyOneLive ==
  ASSUME IInv, calm, NEW k \in Kicks, NEW other \in Kicks, Live(kick[k]), Live(kick[other])
  PROVE  k = other
BY LiveHolds

(* One kick moves on; the lease is as it was, or released.                 *)
LEMMA OneMoves ==
  ASSUME IInv, NEW k \in Kicks, NEW r \in Kick, kick' = [kick EXCEPT ![k] = Settled(r)],
         lease' = lease \/ lease' = [lease EXCEPT !.left = 0],
         running' \subseteq Modes, calm' \in BOOLEAN,
         FlagOf(r, running'),
         \A other \in Kicks \ {k} :
           kick[other].run # "none" /\ kick[other].job \in running => kick[other].job \in running',
         r.run # "none" /\ r.job \in Modes =>
           \A other \in Kicks \ {k} : kick[other].run # "none" => kick[other].job # r.job,
         r.log = "pending" => kick[k].log = "pending" /\ r.job = kick[k].job,
         calm' => /\ calm
                  /\ CoverOf(k, r, lease')
                  /\ \A other \in Kicks \ {k} : CoverOf(other, kick[other], lease')
  PROVE  IInv'
<1> DEFINE s == Settled(r)
<1>1. s = r \/ (s = Idle /\ r.run = "none")
  BY SettledCases
<1>2. s \in Kick
  BY <1>1, IdleFacts
<1> HIDE DEF s
<1>3. kick' = [kick EXCEPT ![k] = s] /\ kick \in [Kicks -> Kick] /\ lease \in Lease
  BY TypeFacts DEF s
<1>4. /\ kick' \in [Kicks -> Kick] /\ kick'[k] = s
      /\ \A other \in Kicks \ {k} : kick'[other] = kick[other]
  BY <1>2, <1>3
<1>5. lease' \in Lease
  BY <1>3 DEF Lease
<1>6. TypeOK'
  BY <1>4, <1>5, TypeBack
<1>7. Flagged'
  <2>1. FlagOf(s, running')
    BY <1>1, IdleFacts DEF FlagOf
  <2>2. ASSUME NEW other \in Kicks \ {k}
        PROVE  FlagOf(kick[other], running')
    BY <2>2 DEF IInv, Flagged, FlagOf
  <2> QED
    BY <1>4, <2>1, <2>2 DEF Flagged
<1>8. Alone'
  <2>1. s.run # "none" => s = r
    BY <1>1, IdleFacts
  <2> QED
    BY <1>4, <2>1 DEF IInv, Alone
<1>9. LogOwns'
  <2>1. s.log = "pending" => s = r
    BY <1>1, IdleFacts
  <2>2. /\ lease'.holder = lease.holder /\ lease'.owner = lease.owner
        /\ (Expired(lease) => Expired(lease'))
    BY <1>3 DEF Lease, Expired
  <2> QED
    BY <1>4, <2>1, <2>2 DEF IInv, LogOwns
<1>10. Covered'
  <2>1. ASSUME calm'
        PROVE  CoverOf(k, s, lease')
    BY <1>1, <2>1, IdleFacts, NotLiveCovered
  <2> QED
    BY <1>4, <2>1 DEF Covered
<1> QED
  BY <1>6, <1>7, <1>8, <1>9, <1>10 DEF IInv

-----------------------------------------------------------------------------
(* A kick and its request.                                                 *)

LEMMA TakeKeeps ==
  ASSUME IInv, NEW k \in Kicks, NEW job \in Jobs, Take(k, job)
  PROVE  IInv'
<1> DEFINE r == [Idle EXCEPT !.job = job, !.net = "travelling",
                             !.log = IF job \in Patient THEN "pending" ELSE "none"]
<1>1. /\ r.job = job /\ r.net = "travelling" /\ r.run = "none" /\ r.answer = "none"
      /\ r.age = 0 /\ r.work = 0
  BY DEF Idle
<1>2. r \in Kick
  <2>1. (IF job \in Patient THEN "pending" ELSE "none") \in {"none", "pending"}
    OBVIOUS
  <2> QED
    BY <2>1, IdleFacts DEF Kick
<1>3. /\ kick' = [kick EXCEPT ![k] = r] /\ lease' = Taken(k, job)
      /\ running' = running /\ calm' = calm
      /\ \A other \in Kicks : kick[other].log = "pending" => kick[other].job # job
  BY DEF Take
<1> HIDE DEF r
<1>4. /\ kick' \in [Kicks -> Kick] /\ kick'[k] = r
      /\ \A other \in Kicks \ {k} : kick'[other] = kick[other]
  BY <1>2, <1>3, TypeFacts
<1>5. /\ lease'.holder = job /\ lease'.owner = k /\ lease'.left = LeaseSeconds[job]
      /\ lease' \in Lease
  BY <1>3, TimesAssumption DEF Taken, Lease
<1>6. TypeOK'
  BY <1>3, <1>4, <1>5, TypeFacts, TypeBack
<1>7. Flagged'
  BY <1>1, <1>3, <1>4 DEF IInv, Flagged, FlagOf
<1>8. Alone'
  BY <1>1, <1>4 DEF IInv, Alone
<1>9. LogOwns'
  BY <1>3, <1>4, <1>5 DEF LogOwns
<1>10. Covered'
  <2> SUFFICES ASSUME calm'
               PROVE  \A other \in Kicks : CoverOf(other, kick'[other], lease')
    BY DEF Covered
  <2>1. CoverOf(k, r, lease')
    BY <1>1, <1>5, TimesAssumption DEF CoverOf
  <2>2. ASSUME NEW other \in Kicks \ {k}
        PROVE  CoverOf(other, kick[other], lease')
    <3>1. ~Live(kick[other])
      BY <1>3, LiveHolds DEF Take, Expired
    <3> QED
      BY <3>1, NotLiveCovered
  <2> QED
    BY <1>4, <2>1, <2>2
<1> QED
  BY <1>6, <1>7, <1>8, <1>9, <1>10 DEF IInv

(* A request that arrived or died: its record, and that nobody else is     *)
(* touched.                                                                *)
LEMMA OthersCovered ==
  ASSUME IInv, NEW k \in Kicks
  PROVE  calm => \A other \in Kicks \ {k} : CoverOf(other, kick[other], lease)
BY DEF IInv, Covered

LEMMA RecordedAnswer ==
  ASSUME IInv, NEW k \in Kicks, NEW answer \in {"accepted", "refused"},
         NEW said \in Recorded(k, answer)
  PROVE  said \in {"none", "accepted", "refused", "error"}
BY TypeFacts DEF Recorded, Kick

LEMMA ArriveKeeps ==
  ASSUME IInv, NEW k \in Kicks, Arrive(k)
  PROVE  IInv'
<1> DEFINE busy   == kick[k].job \in running
           answer == IF busy THEN "refused" ELSE "accepted"
<1>1. PICK said \in Recorded(k, answer) :
        /\ IF busy THEN TurnAway(k, said) ELSE Begin(k, said)
        /\ calm' = (calm /\ said = answer)
  BY DEF Arrive
<1>2. /\ kick[k] \in Kick /\ FlagOf(kick[k], running) /\ kick[k].net = "travelling"
      /\ lease' = lease /\ running \subseteq Modes /\ calm \in BOOLEAN
  BY TypeFacts DEF IInv, Flagged, Arrive
<1>3. kick[k].run = "none" /\ kick[k].job \in Jobs
  BY <1>2 DEF FlagOf
<1>4. said \in {"none", "accepted", "refused", "error"}
  BY RecordedAnswer
<1>5. calm' \in BOOLEAN /\ (calm' => calm /\ said = answer)
  BY <1>1, <1>2
<1>6. CASE busy
  <2> DEFINE r == [kick[k] EXCEPT !.net = "gone", !.answer = said]
  <2>1. r \in Kick /\ r.run = "none" /\ r.net = "gone" /\ r.log = kick[k].log
        /\ r.job = kick[k].job
    BY <1>2, <1>3, <1>4 DEF Kick
  <2>2. kick' = [kick EXCEPT ![k] = Settled(r)] /\ running' = running
    BY <1>1, <1>6 DEF TurnAway
  <2> HIDE DEF r
  <2>3. FlagOf(r, running') /\ ~Live(r)
    BY <2>1 DEF FlagOf, Live
  <2> QED
    BY <1>2, <1>5, <2>1, <2>2, <2>3, OneMoves, OthersCovered, NotLiveCovered
<1>7. CASE ~busy
  <2> DEFINE r == [kick[k] EXCEPT !.net = "gone", !.run = "working", !.answer = said]
  <2>1. r \in Kick /\ r.run = "working" /\ r.net = "gone" /\ r.log = kick[k].log
        /\ r.job = kick[k].job /\ r.answer = said /\ r.work = kick[k].work
    BY <1>2, <1>4 DEF Kick
  <2>2. kick' = [kick EXCEPT ![k] = r] /\ running' = running \cup ({kick[k].job} \cap Modes)
    BY <1>1, <1>7 DEF Begin
  <2> HIDE DEF r
  <2>3. Settled(r) = r
    BY <2>1 DEF Settled
  <2>4. FlagOf(r, running')
    BY <1>3, <2>1, <2>2 DEF FlagOf
  <2>5. r.job \in Modes => \A other \in Kicks \ {k} : kick[other].run # "none" => kick[other].job # r.job
    BY <1>7, <2>1 DEF IInv, Flagged, FlagOf
  <2>6. calm' => CoverOf(k, r, lease')
    <3> SUFFICES ASSUME calm'
                 PROVE  CoverOf(k, r, lease')
      OBVIOUS
    <3>1. /\ lease.owner = k /\ lease.holder = kick[k].job /\ kick[k].age <= Delay
          /\ lease.left >= LeaseSeconds[kick[k].job] - kick[k].age
          /\ kick[k].answer = "none" /\ kick[k].work = 0
      BY <1>2, <1>5 DEF IInv, Covered, CoverOf
    <3>2. said = "accepted"
      BY <1>5, <1>7
    <3>3. /\ kick[k].age \in Nat /\ Delay \in Nat /\ lease.left \in Nat
          /\ LeaseSeconds[kick[k].job] \in Nat /\ Work[kick[k].job] \in Nat
      BY <1>2, <1>3, AgeCapBound, TypeFacts, TimesAssumption DEF Kick, Lease
    <3> QED
      BY <1>2, <2>1, <3>1, <3>2, <3>3 DEF CoverOf
  <2> QED
    BY <1>2, <1>5, <2>1, <2>2, <2>3, <2>4, <2>5, <2>6, OneMoves, OthersCovered
<1> QED
  BY <1>6, <1>7

LEMMA LostKeeps ==
  ASSUME IInv, NEW k \in Kicks, Lost(k)
  PROVE  IInv'
<1>1. PICK said \in {"none", "accepted", "refused", "error"} :
        kick' = [kick EXCEPT ![k] = Settled([kick[k] EXCEPT !.net = "gone", !.answer = said])]
  BY TypeFacts DEF Lost, Kick
<1> DEFINE r == [kick[k] EXCEPT !.net = "gone", !.answer = said]
<1>2. /\ kick[k] \in Kick /\ FlagOf(kick[k], running) /\ kick[k].net = "travelling"
      /\ lease' = lease /\ running \subseteq Modes /\ calm \in BOOLEAN
      /\ running' = running /\ calm' = calm
  BY TypeFacts DEF IInv, Flagged, Lost
<1>3. kick[k].run = "none"
  BY <1>2 DEF FlagOf
<1>5. kick' = [kick EXCEPT ![k] = Settled(r)]
  BY <1>1
<1>6. r \in Kick /\ r.run = "none" /\ r.net = "gone" /\ r.log = kick[k].log /\ r.job = kick[k].job
  BY <1>2, <1>3 DEF Kick
<1> HIDE DEF r
<1>7. FlagOf(r, running') /\ ~Live(r)
  BY <1>6 DEF FlagOf, Live
<1> QED
  BY <1>2, <1>5, <1>6, <1>7, OneMoves, OthersCovered, NotLiveCovered

LEMMA TimesOutKeeps ==
  ASSUME IInv, NEW k \in Kicks, TimesOut(k)
  PROVE  IInv'
<1>1. PICK net \in {"gone", "travelling"} :
        /\ kick' = [kick EXCEPT ![k] = Settled([@ EXCEPT !.net = net, !.answer = "error"])]
        /\ calm' = (calm /\ net = "gone")
  BY DEF TimesOut
<1> DEFINE r == [kick[k] EXCEPT !.net = net, !.answer = "error"]
<1>2. /\ kick[k] \in Kick /\ FlagOf(kick[k], running) /\ kick[k].net = "travelling"
      /\ lease' = lease /\ running \subseteq Modes /\ calm \in BOOLEAN /\ running' = running
  BY TypeFacts DEF IInv, Flagged, TimesOut
<1>3. kick[k].run = "none" /\ kick[k].job \in Jobs
  BY <1>2 DEF FlagOf
<1>4. r \in Kick /\ r.run = "none" /\ r.net = net /\ r.log = kick[k].log /\ r.job = kick[k].job
  BY <1>2, <1>3 DEF Kick
<1>5. kick' = [kick EXCEPT ![k] = Settled(r)]
  BY <1>1
<1> HIDE DEF r
<1>6. FlagOf(r, running')
  BY <1>3, <1>4 DEF FlagOf
<1>7. calm' \in BOOLEAN /\ (calm' => calm /\ ~Live(r))
  BY <1>1, <1>2, <1>4 DEF Live
<1> QED
  BY <1>2, <1>4, <1>5, <1>6, <1>7, OneMoves, OthersCovered, NotLiveCovered

-----------------------------------------------------------------------------
(* A run.                                                                  *)

LEMMA EndKeeps ==
  ASSUME IInv, NEW k \in Kicks, End(k)
  PROVE  IInv'
<1> DEFINE run == IF kick[k].job = Drain THEN "none" ELSE "ended"
           r   == [kick[k] EXCEPT !.run = run, !.work = 0]
<1>1. /\ kick[k] \in Kick /\ FlagOf(kick[k], running) /\ kick[k].run = "working"
      /\ lease' = lease /\ running \subseteq Modes /\ calm \in BOOLEAN
      /\ running' = running /\ calm' = calm
      /\ kick' = [kick EXCEPT ![k] = Settled(r)]
  BY TypeFacts DEF IInv, Flagged, End
<1>2. /\ run \in {"none", "ended"} /\ (run = "ended" => kick[k].job # Drain)
  OBVIOUS
<1> HIDE DEF run
<1>3. r \in Kick /\ r.run = run /\ r.net = kick[k].net /\ r.log = kick[k].log
      /\ r.job = kick[k].job /\ r.answer = kick[k].answer
  BY <1>1, <1>2 DEF Kick
<1>4. kick' = [kick EXCEPT ![k] = Settled(r)]
  BY <1>1
<1> HIDE DEF r
<1>5. FlagOf(r, running') /\ r.net # "travelling"
  BY <1>1, <1>2, <1>3 DEF FlagOf, Jobs
<1>6. r.run # "none" /\ r.job \in Modes =>
        \A other \in Kicks \ {k} : kick[other].run # "none" => kick[other].job # r.job
  BY <1>1, <1>3 DEF IInv, Alone
<1>7. calm' => CoverOf(k, r, lease')
  <2> SUFFICES ASSUME calm
               PROVE  CoverOf(k, r, lease)
    BY <1>1
  <2>1. lease.owner = k /\ lease.holder = kick[k].job /\ lease.left >= 1
    BY <1>1, LiveHolds DEF Live
  <2>2. kick[k].answer = "accepted"
    BY <1>1 DEF IInv, Covered, CoverOf
  <2> QED
    BY <1>2, <1>3, <1>5, <2>1, <2>2 DEF CoverOf
<1> QED
  BY <1>1, <1>3, <1>4, <1>5, <1>6, <1>7, OneMoves, OthersCovered

LEMMA HandBackKeeps ==
  ASSUME IInv, NEW k \in Kicks, HandBack(k)
  PROVE  IInv'
<1> DEFINE r == [kick[k] EXCEPT !.run = "released"]
<1>1. /\ kick[k] \in Kick /\ FlagOf(kick[k], running) /\ kick[k].run = "ended"
      /\ running \subseteq Modes /\ calm \in BOOLEAN /\ running' = running
      /\ kick' = [kick EXCEPT ![k] = r]
  BY TypeFacts DEF IInv, Flagged, HandBack
<1>2. /\ lease' = lease \/ lease' = [lease EXCEPT !.left = 0]
      /\ calm' \in BOOLEAN /\ (calm' => calm)
  <2>1. CASE lease' = Released(kick[k].job) /\ UNCHANGED calm
    BY <1>1, <2>1 DEF Released
  <2>2. CASE calm' = FALSE /\ UNCHANGED lease
    BY <2>2
  <2> QED
    BY <2>1, <2>2 DEF HandBack
<1>3. r \in Kick /\ r.run = "released" /\ r.net = kick[k].net /\ r.log = kick[k].log
      /\ r.job = kick[k].job
  BY <1>1 DEF Kick
<1>4. kick' = [kick EXCEPT ![k] = r]
  BY <1>1
<1> HIDE DEF r
<1>5. FlagOf(r, running') /\ r.net # "travelling"
  BY <1>1, <1>3 DEF FlagOf
<1>6. Settled(r) = r /\ ~Live(r)
  BY <1>3, <1>5 DEF Settled, Live
<1>7. r.job \in Modes =>
        \A other \in Kicks \ {k} : kick[other].run # "none" => kick[other].job # r.job
  BY <1>1, <1>3 DEF IInv, Alone
<1>8. calm => \A other \in Kicks \ {k} : ~Live(kick[other])
  BY <1>1, OnlyOneLive DEF Live
<1> QED
  BY <1>1, <1>2, <1>3, <1>4, <1>5, <1>6, <1>7, <1>8, OneMoves, NotLiveCovered

(* The flag is cleared by the only run of its mode.                        *)
LEMMA ClearFlagKeeps ==
  ASSUME IInv, NEW k \in Kicks, ClearFlag(k)
  PROVE  IInv'
<1> DEFINE r == [kick[k] EXCEPT !.run = "none"]
<1>1. /\ kick[k] \in Kick /\ FlagOf(kick[k], running) /\ kick[k].run = "released"
      /\ running \subseteq Modes /\ calm \in BOOLEAN /\ running' = running \ {kick[k].job}
      /\ lease' = lease /\ calm' = calm
      /\ kick' = [kick EXCEPT ![k] = Settled(r)]
  BY TypeFacts DEF IInv, Flagged, ClearFlag
<1>2. r \in Kick /\ r.run = "none" /\ r.net = kick[k].net /\ r.log = kick[k].log
      /\ r.job = kick[k].job
  BY <1>1 DEF Kick
<1>3. kick' = [kick EXCEPT ![k] = Settled(r)]
  BY <1>1
<1> HIDE DEF r
<1>4. kick[k].job \in Modes /\ kick[k].net # "travelling"
  BY <1>1 DEF FlagOf
<1>5. FlagOf(r, running') /\ ~Live(r)
  BY <1>2, <1>4 DEF FlagOf, Live
<1>6. \A other \in Kicks \ {k} :
        kick[other].run # "none" /\ kick[other].job \in running => kick[other].job \in running'
  BY <1>1, <1>4 DEF IInv, Alone
<1> QED
  BY <1>1, <1>2, <1>3, <1>5, <1>6, OneMoves, OthersCovered, NotLiveCovered

LEMMA BackendDiesKeeps ==
  ASSUME IInv, BackendDies
  PROVE  IInv'
<1> DEFINE dead(k) == [kick[k] EXCEPT !.run = "none", !.work = 0]
<1>1. /\ running' = {} /\ lease' = lease /\ calm' = calm
      /\ kick' = [k \in Kicks |-> IF kick[k].job \in Modes THEN Settled(dead(k)) ELSE kick[k]]
      /\ kick \in [Kicks -> Kick]
  BY TypeFacts DEF BackendDies
<1>2. ASSUME NEW k \in Kicks
      PROVE  /\ kick'[k] \in Kick
             /\ \/ kick'[k] = kick[k] /\ kick[k].job \notin Modes
                \/ /\ kick'[k].run = "none" /\ kick[k].job \in Modes
                   /\ kick'[k].net = "travelling" =>
                        /\ kick[k].net = "travelling" /\ kick'[k].answer = kick[k].answer
                        /\ kick'[k].age = kick[k].age /\ kick'[k].work = 0
                        /\ kick'[k].job = kick[k].job
                   /\ kick'[k].log = "pending" =>
                        kick[k].log = "pending" /\ kick'[k].job = kick[k].job
  <2>1. CASE kick[k].job \notin Modes
    BY <1>1, <2>1
  <2>2. CASE kick[k].job \in Modes
    <3>1. dead(k) \in Kick /\ dead(k).run = "none" /\ dead(k).net = kick[k].net
          /\ dead(k).log = kick[k].log /\ dead(k).job = kick[k].job /\ dead(k).work = 0
          /\ dead(k).age = kick[k].age /\ dead(k).answer = kick[k].answer
      BY <1>1 DEF Kick
    <3>2. kick'[k] = Settled(dead(k))
      BY <1>1, <2>2
    <3> HIDE DEF dead
    <3> QED
      BY <2>2, <3>1, <3>2, SettledCases, IdleFacts
  <2> QED
    BY <2>1, <2>2
<1> HIDE DEF dead
<1>3. TypeOK'
  <2>1. kick' \in [Kicks -> Kick]
    BY <1>1, <1>2
  <2> QED
    BY <1>1, <2>1, TypeFacts, TypeBack
<1>4. Flagged'
  BY <1>2 DEF IInv, Flagged, FlagOf
<1>5. Alone'
  BY <1>2 DEF IInv, Alone
<1>6. LogOwns'
  BY <1>1, <1>2 DEF IInv, LogOwns
<1>7. Covered'
  <2> SUFFICES ASSUME calm, NEW k \in Kicks
               PROVE  CoverOf(k, kick'[k], lease)
    BY <1>1 DEF Covered
  <2>1. CoverOf(k, kick[k], lease)
    BY DEF IInv, Covered
  <2> QED
    BY <1>2, <2>1 DEF CoverOf
<1> QED
  BY <1>3, <1>4, <1>5, <1>6, <1>7 DEF IInv

-----------------------------------------------------------------------------
(* The verifier releases a lease only for the kick that took it.           *)
LEMMA VerifyKeeps ==
  ASSUME IInv, NEW k \in Kicks, Verify(k)
  PROVE  IInv'
<1> DEFINE r == [kick[k] EXCEPT !.log = "none"]
<1>1. /\ kick[k] \in Kick /\ FlagOf(kick[k], running) /\ kick[k].log = "pending"
      /\ running \subseteq Modes /\ calm \in BOOLEAN /\ running' = running /\ calm' = calm
      /\ kick' = [kick EXCEPT ![k] = Settled(r)] /\ lease \in Lease
  BY TypeFacts DEF IInv, Flagged, Verify
<1>2. /\ r \in Kick /\ r.log = "none" /\ r.net = kick[k].net /\ r.run = kick[k].run
      /\ r.job = kick[k].job /\ r.answer = kick[k].answer /\ r.age = kick[k].age
      /\ r.work = kick[k].work
  BY <1>1 DEF Kick
<1>3. kick' = [kick EXCEPT ![k] = Settled(r)]
  BY <1>1
<1> HIDE DEF r
<1>4. FlagOf(r, running')
  BY <1>1, <1>2 DEF FlagOf
<1>5. r.run # "none" /\ r.job \in Modes =>
        \A other \in Kicks \ {k} : kick[other].run # "none" => kick[other].job # r.job
  BY <1>1, <1>2 DEF IInv, Alone
<1>6. calm => CoverOf(k, r, lease)
  BY <1>2 DEF IInv, Covered, CoverOf
<1>7. CASE lease' = lease
  BY <1>1, <1>2, <1>3, <1>4, <1>5, <1>6, <1>7, OneMoves, OthersCovered
<1>8. CASE Failed(kick[k]) /\ lease' = [lease EXCEPT !.left = 0] /\ lease.holder = kick[k].job
  <2>1. ASSUME calm, NEW other \in Kicks, Live(kick[other])
        PROVE  FALSE
    <3>1. lease.owner = other /\ lease.left >= 1
      BY <2>1, LiveHolds
    <3>2. other = k
      BY <1>1, <1>8, <3>1 DEF IInv, LogOwns, Expired
    <3>3. CoverOf(k, kick[k], lease)
      BY <2>1 DEF IInv, Covered
    <3>4. kick[k].age \in Nat /\ Delay \in Nat /\ VerifyAfter \in Nat /\ VerifyAfter > Delay
      BY <1>1, AgeCapBound, TimesAssumption, OutlastsAssumption DEF Kick
    <3> QED
      BY <1>8, <2>1, <3>2, <3>3, <3>4 DEF Live, CoverOf, Failed
  <2>2. calm => ~Live(r)
    BY <1>2, <2>1 DEF Live
  <2> QED
    BY <1>1, <1>2, <1>3, <1>4, <1>5, <1>8, <2>1, <2>2, OneMoves, NotLiveCovered
<1> QED
  BY <1>7, <1>8 DEF Verify, Released

-----------------------------------------------------------------------------
(* Time passes no faster for the lease than for what it covers.            *)
LEMMA TickKeeps ==
  ASSUME IInv, Tick
  PROVE  IInv'
<1>1. /\ kick' = [k \in Kicks |-> Older(kick[k])] /\ lease' = TickLease(lease)
      /\ running' = running /\ calm' = (calm /\ \A k \in Kicks : kick[k].run # "ended")
      /\ \A k \in Kicks : MayPass(kick[k])
      /\ kick \in [Kicks -> Kick] /\ lease \in Lease
  BY TypeFacts DEF Tick
<1>2. /\ lease' \in Lease /\ lease'.holder = lease.holder /\ lease'.owner = lease.owner
      /\ lease.left >= 1 => lease'.left = lease.left - 1
      /\ Expired(lease) => Expired(lease')
  BY <1>1 DEF TickLease, Lease, Expired
<1>3. ASSUME NEW k \in Kicks
      PROVE  /\ kick'[k] \in Kick
             /\ kick'[k].job = kick[k].job /\ kick'[k].net = kick[k].net
             /\ kick'[k].run = kick[k].run /\ kick'[k].answer = kick[k].answer
             /\ kick'[k].log = kick[k].log
             /\ kick[k].net = "travelling" /\ kick[k].age < Delay => kick'[k].age = kick[k].age + 1
             /\ kick'[k].work = IF kick[k].run = "working" THEN kick[k].work + 1 ELSE kick[k].work
  <2> DEFINE r == kick[k]
             age == IF r = Idle \/ r.age = AgeCap THEN r.age ELSE r.age + 1
             work == IF r.run = "working" THEN r.work + 1 ELSE r.work
  <2>1. r \in Kick /\ kick'[k] = [r EXCEPT !.age = age, !.work = work]
    BY <1>1 DEF Older
  <2>2. r.age \in 0 .. AgeCap /\ r.work \in Nat
    BY <2>1 DEF Kick
  <2>3. age \in 0 .. AgeCap /\ work \in Nat
    BY <2>2, AgeCapBound
  <2>4. r.net = "travelling" /\ r.age < Delay => age = r.age + 1
    BY <2>2, AgeCapBound, IdleFacts, TimesAssumption
  <2> HIDE DEF r, age
  <2>5. /\ kick'[k] \in Kick /\ kick'[k].job = r.job /\ kick'[k].net = r.net
        /\ kick'[k].run = r.run /\ kick'[k].answer = r.answer /\ kick'[k].log = r.log
        /\ kick'[k].age = age /\ kick'[k].work = work
    BY <2>1, <2>3 DEF Kick
  <2> QED
    BY <2>4, <2>5 DEF r
<1>4. TypeOK'
  <2>1. kick' \in [Kicks -> Kick]
    BY <1>1, <1>3
  <2>2. calm' \in BOOLEAN
    BY <1>1
  <2> QED
    BY <1>1, <1>2, <2>1, <2>2, TypeFacts, TypeBack
<1>5. Flagged'
  BY <1>1, <1>3 DEF IInv, Flagged, FlagOf
<1>6. Alone'
  BY <1>3 DEF IInv, Alone
<1>7. LogOwns'
  BY <1>2, <1>3 DEF IInv, LogOwns
<1>8. Covered'
  <2> SUFFICES ASSUME calm', NEW k \in Kicks
               PROVE  CoverOf(k, kick'[k], lease')
    BY DEF Covered
  <2>1. calm /\ kick[k].run # "ended" /\ MayPass(kick[k]) /\ kick[k] \in Kick
    BY <1>1
  <2>2. CoverOf(k, kick[k], lease) /\ FlagOf(kick[k], running)
    BY <2>1 DEF IInv, Covered, Flagged
  <2>3. CASE ~Live(kick[k])
    BY <1>3, <2>3, NotLiveCovered DEF Live
  <2>4. CASE Live(kick[k])
    <3>1. lease'.left = lease.left - 1 /\ lease.left \in Nat
      BY <1>1, <1>2, <2>1, <2>4, LiveHolds DEF Lease
    <3>2. kick[k].age \in Nat /\ kick[k].work \in Nat /\ Delay \in Nat
      BY <2>1, AgeCapBound, TimesAssumption DEF Kick
    <3>3. \A j \in Jobs : LeaseSeconds[j] \in Nat /\ Work[j] \in Nat
      BY TimesAssumption
    <3>4. CASE kick[k].net = "travelling"
      <4>1. kick[k].job \in Jobs /\ kick[k].run = "none" /\ kick[k].age < Delay
        BY <2>1, <2>2, <3>4 DEF FlagOf, MayPass
      <4> QED
        BY <1>2, <1>3, <2>2, <3>1, <3>2, <3>3, <3>4, <4>1 DEF CoverOf
    <3>5. CASE kick[k].run = "working"
      <4>1. kick[k].job \in Jobs /\ kick[k].net # "travelling" /\ kick[k].work < Work[kick[k].job]
        BY <2>1, <2>2, <3>5 DEF FlagOf, MayPass
      <4> QED
        BY <1>2, <1>3, <2>2, <3>1, <3>2, <3>3, <3>5, <4>1 DEF CoverOf
    <3> QED
      BY <2>1, <2>4, <3>4, <3>5 DEF Live
  <2> QED
    BY <2>3, <2>4
<1> QED
  BY <1>4, <1>5, <1>6, <1>7, <1>8 DEF IInv

LEMMA NextIInv == IInv /\ [Next]_vars => IInv'
<1> SUFFICES ASSUME IInv, [Next]_vars
             PROVE  IInv'
  OBVIOUS
<1>1. CASE UNCHANGED vars
  BY <1>1 DEF vars, IInv, TypeOK, Flagged, Alone, LogOwns, Covered
<1>2. ASSUME NEW k \in Kicks, NEW job \in Jobs, Take(k, job)
      PROVE  IInv'
  BY <1>2, TakeKeeps
<1>3. ASSUME NEW k \in Kicks, Arrive(k)
      PROVE  IInv'
  BY <1>3, ArriveKeeps
<1>4. ASSUME NEW k \in Kicks, Lost(k)
      PROVE  IInv'
  BY <1>4, LostKeeps
<1>5. ASSUME NEW k \in Kicks, TimesOut(k)
      PROVE  IInv'
  BY <1>5, TimesOutKeeps
<1>6. ASSUME NEW k \in Kicks, End(k)
      PROVE  IInv'
  BY <1>6, EndKeeps
<1>7. ASSUME NEW k \in Kicks, HandBack(k)
      PROVE  IInv'
  BY <1>7, HandBackKeeps
<1>8. ASSUME NEW k \in Kicks, ClearFlag(k)
      PROVE  IInv'
  BY <1>8, ClearFlagKeeps
<1>9. ASSUME NEW k \in Kicks, Verify(k)
      PROVE  IInv'
  BY <1>9, VerifyKeeps
<1> QED
  BY <1>1, <1>2, <1>3, <1>4, <1>5, <1>6, <1>7, <1>8, <1>9, BackendDiesKeeps, TickKeeps DEF Next

-----------------------------------------------------------------------------
(* A lease that is freed before its time: by a tick only at its last unit, *)
(* by a release only of the kick that took it.                             *)
LEMMA FreedByOwner ==
  ASSUME IInv, [Next]_vars, calm', lease.left > 1, lease'.left = 0
  PROVE  kick'[lease.owner] # kick[lease.owner]
<1>1. lease \in Lease /\ kick \in [Kicks -> Kick] /\ ~Expired(lease)
  BY TypeFacts DEF Expired
<1>2. ASSUME NEW k \in Kicks, HandBack(k)
      PROVE  kick'[lease.owner] # kick[lease.owner]
  <2>1. kick[k].run = "ended" /\ kick' = [kick EXCEPT ![k].run = "released"] /\ calm
    BY <1>1, <1>2 DEF HandBack
  <2>2. lease.owner = k
    BY <2>1, LiveHolds DEF Live
  <2>3. kick'[k].run = "released"
    BY <1>1, <2>1 DEF Kick
  <2> QED
    BY <2>1, <2>2, <2>3
<1>3. ASSUME NEW k \in Kicks, Verify(k)
      PROVE  kick'[lease.owner] # kick[lease.owner]
  <2>1. kick[k].log = "pending" /\ lease' = Released(kick[k].job)
    BY <1>1, <1>3 DEF Verify
  <2>2. lease.holder = kick[k].job
    BY <1>1, <2>1 DEF Released
  <2>3. lease.owner = k
    BY <1>1, <2>1, <2>2 DEF IInv, LogOwns
  <2> DEFINE r == [kick[k] EXCEPT !.log = "none"]
  <2>4. kick' = [kick EXCEPT ![k] = Settled(r)] /\ r.log = "none"
    BY <1>1, <1>3 DEF Verify, Kick
  <2> HIDE DEF r
  <2>5. kick'[k].log = "none"
    BY <1>1, <2>4, SettledCases, IdleFacts
  <2> QED
    BY <2>1, <2>3, <2>5
<1>4. ~Tick
  <2> SUFFICES ASSUME Tick
               PROVE  FALSE
    OBVIOUS
  <2>1. lease.left \in Nat /\ lease.left > 1
    BY <1>1 DEF Lease
  <2>2. lease' = [lease EXCEPT !.left = lease.left - 1]
    BY <2>1 DEF Tick, TickLease
  <2>3. lease'.left = lease.left - 1
    BY <1>1, <2>2 DEF Lease
  <2> QED
    BY <2>1, <2>3
<1>5. ASSUME NEW k \in Kicks, NEW job \in Jobs
      PROVE  ~Take(k, job)
  BY <1>1 DEF Take
<1>6. lease' # lease
  OBVIOUS
<1> QED
  BY <1>2, <1>3, <1>4, <1>5, <1>6
     DEF Next, vars, Arrive, Lost, TimesOut, End, ClearFlag, BackendDies

-----------------------------------------------------------------------------
(* The lease, the flags and the kicks keep their types: no time left is    *)
(* negative and no flag is set for anything but a mode.                    *)
THEOREM LeaseTypes == Spec => []TypeOK
<1>1. IInv => TypeOK
  BY DEF IInv
<1> QED
  BY InitIInv, NextIInv, <1>1, PTL DEF Spec

(* OnKey never sees two sessions of ours as long as all is calm (096, 107):*)
(* a run works only under the unexpired lease its own kick took.           *)
THEOREM RunsAreCovered == Spec => []LeaseCoversRun
<1>1. IInv => LeaseCoversRun
  <2> SUFFICES ASSUME IInv, calm, NEW k \in Working
               PROVE  lease.owner = k /\ ~Expired(lease)
    BY DEF LeaseCoversRun
  <2>1. k \in Kicks /\ Live(kick[k])
    BY DEF Working, Live
  <2> QED
    BY <2>1, LiveHolds DEF Expired
<1> QED
  BY InitIInv, NextIInv, <1>1, PTL DEF Spec

(* The single-flight flag of routers/onkey.py: two runs of one mode never  *)
(* share the process, whatever was lost, late or not released.             *)
THEOREM OneRunPerMode == Spec => []SingleFlight
<1>1. IInv => SingleFlight
  <2> SUFFICES ASSUME IInv, NEW m \in Modes
               PROVE  Cardinality({k \in Kicks : kick[k].job = m /\ kick[k].run # "none"}) <= 1
    BY DEF SingleFlight
  <2> DEFINE S == {k \in Kicks : kick[k].job = m /\ kick[k].run # "none"}
  <2>1. \A k, other \in S : k = other
    BY DEF IInv, Alone
  <2> HIDE DEF S
  <2>2. CASE S = {}
    BY <2>2, FS_EmptySet DEF S
  <2>3. CASE S # {}
    <3>1. PICK k : S = {k}
      BY <2>1, <2>3
    <3>2. Cardinality(S) = 1
      BY <3>1, FS_Singleton
    <3> QED
      BY <3>2 DEF S
  <2> QED
    BY <2>2, <2>3
<1> QED
  BY InitIInv, NextIInv, <1>1, PTL DEF Spec

(* "A late finisher must not free a lease someone else has since taken"    *)
(* (063): in the calm only what the holder's own kick became frees it.     *)
THEOREM OwnersFree == Spec => FreedByItsOwn
<1>1. IInv /\ [Next]_vars =>
        [calm' /\ lease.left > 1 /\ lease'.left = 0
           => kick'[lease.owner] # kick[lease.owner]]_vars
  BY FreedByOwner
<1> QED
  BY InitIInv, NextIInv, <1>1, PTL DEF Spec, FreedByItsOwn

-----------------------------------------------------------------------------
(***************************************************************************)
(* The delta lane's cursor loses no edit, for any number of work orders,   *)
(* any page size, any overlap at least as long as OnKey takes to show an   *)
(* edit, and any other lanes, failures and restarts beside it.             *)
(*                                                                         *)
(* The argument is about the pages behind a run of the lane: every order   *)
(* it has passed is stored as OnKey shows it, or was stamped late enough   *)
(* for the next run to go back for it, or so early that an earlier run     *)
(* answers for it (PassedKept).  A page is a prefix of the rows that       *)
(* match, which is what makes "passed" a comparison of Ids (PageIsPrefix). *)
(* An edit that shows after its page was read is stamped no more than Lag  *)
(* before that moment, which is after the probe (Clocks).                  *)
(***************************************************************************)
Delta == lane["delta"]

OnKeyRec == [now : Nat, ver : [Orders -> Nat], stamp : [Orders -> Nat], edits : Nat,
             band : [Orders -> Bands],
             open : SUBSET [o : Orders, stamp : Nat, moved : BOOLEAN]]
RawRow   == [have : SUBSET Nat, top : Nat]
LanePcs  == {"idle", "probe", "fetch", "store", "derive", "write", "finish"}
LaneRec  == [pc : LanePcs, since : Int, mark : Int, total : Nat, next : Nat,
             held : [Orders -> Nat], more : BOOLEAN, derived : BOOLEAN,
             pick : [Orders -> Nat]]

Typed ==
  /\ onkey \in OnKeyRec
  /\ raw \in [Orders -> RawRow]
  /\ lane \in [Lanes -> LaneRec]
  /\ cursor \in [mark : Int, total : Nat]
  /\ floor \in Int

Clocks ==
  /\ \A o \in Orders : onkey.stamp[o] <= onkey.now
  /\ \A e \in onkey.open : e.stamp <= onkey.now /\ onkey.now <= e.stamp + Lag
  /\ cursor.mark <= onkey.now

Fetching == {"fetch", "store", "write", "finish"}

(* A run past its probe knows the mark it read and where it goes back to.  *)
DeltaRun ==
  /\ Delta.pc # "derive"
  /\ Delta.pc = "probe" => Delta.next = 1
  /\ Delta.pc \in Fetching =>
       /\ Delta.mark # NoMark /\ Delta.mark <= onkey.now
       /\ IF cursor.mark = NoMark THEN floor = Delta.since
                                  ELSE Delta.since = cursor.mark - Overlap
  /\ Delta.pc \in {"store", "write"} => \E p \in Orders : Delta.held[p] # 0

Passed(o) ==
  \/ Delta.pc = "finish"
  \/ o < Delta.next
  \/ /\ Delta.pc \in {"store", "write"}
     /\ ~Delta.more \/ \E p \in Orders : Delta.held[p] # 0 /\ o <= p

Kept(o) ==
  \/ ~Shown(o)
  \/ Stored(o, onkey.ver[o])
  \/ onkey.stamp[o] >= Delta.mark - Overlap
  \/ onkey.stamp[o] < Delta.since
  \/ Delta.pc = "store" /\ Delta.held[o] = onkey.ver[o]

PassedKept == Delta.pc \in Fetching => \A o \in Orders : Passed(o) => Kept(o)

SyncIInv == Typed /\ Clocks /\ DeltaRun /\ PassedKept /\ CursorKeepsEdits

-----------------------------------------------------------------------------
(* Sets of numbers have a smallest and, if bounded, a greatest element.    *)

LEMMA Smallest ==
  ASSUME NEW S \in SUBSET Nat, S # {}
  PROVE  \E x \in S : \A y \in S : x <= y
<1> DEFINE R == {ss \in Nat \X Nat : ss[1] < ss[2]}
<1>1. IsWellFoundedOn(R, Nat)
  <2>1. OpToRel(<, Nat) = R
    BY DEF OpToRel
  <2> QED
    BY <2>1, NatLessThanWellFounded
<1> HIDE DEF R
<1>2. PICK x \in S : \A y \in S : <<y, x>> \notin R
  BY <1>1, WFMin
<1>3. ASSUME NEW y \in S PROVE x <= y
  <2>1. x \in Nat /\ y \in Nat
    OBVIOUS
  <2>2. ~(y < x)
    BY <1>2, <2>1 DEF R
  <2> QED
    BY <2>1, <2>2
<1> QED
  BY <1>3

LEMMA Greatest ==
  ASSUME NEW S \in SUBSET Nat, S # {}, NEW n \in Nat, \A s \in S : s <= n
  PROVE  \E x \in S : \A y \in S : y <= x
<1> DEFINE T == {d \in Nat : \E s \in S : d = n - s}
<1>1. \A s \in S : n - s \in Nat
  OBVIOUS
<1>2. \A s \in S : n - s \in T
  BY <1>1
<1>3. T \in SUBSET Nat /\ T # {}
  BY <1>2
<1>4. PICK d \in T : \A e \in T : d <= e
  BY <1>3, Smallest
<1>5. PICK x \in S : d = n - x
  BY <1>4
<1>6. ASSUME NEW y \in S PROVE y <= x
  <2>1. d <= n - y
    BY <1>2, <1>4
  <2> QED
    BY <1>5, <2>1
<1> QED
  BY <1>6

LEMMA OrdersFinite ==
  /\ Orders \in SUBSET Nat /\ IsFiniteSet(Orders) /\ NumOrders \in Nat
  /\ \A o \in Orders : o <= NumOrders
<1>1. NumOrders \in Nat
  BY SyncBounds
<1> QED
  BY <1>1, FS_Interval DEF Orders

LEMMA TotalType == Total \in Nat
BY OrdersFinite, FS_Subset, FS_CardinalityType DEF Total

LEMMA WatermarkIs ==
  ASSUME SyncIInv, \E o \in Orders : Shown(o)
  PROVE  Watermark \in Nat /\ Watermark <= onkey.now
<1> DEFINE S == {onkey.stamp[o] : o \in {p \in Orders : Shown(p)}}
<1>1. S \in SUBSET Nat /\ S # {} /\ onkey.now \in Nat /\ \A s \in S : s <= onkey.now
  BY DEF SyncIInv, Typed, OnKeyRec, Clocks
<1>2. \E x \in S : \A y \in S : y <= x
  BY <1>1, Greatest
<1>3. \E s \in S : \A o \in Orders : Shown(o) => onkey.stamp[o] <= s
  BY <1>2
<1>4. Watermark \in S
  BY <1>3 DEF Watermark
<1> QED
  BY <1>1, <1>4

LEMMA LastHeldIs ==
  ASSUME NEW L \in LaneRec, NEW p \in Orders, L.held[p] # 0
  PROVE  /\ LastHeld(L) \in Orders /\ L.held[LastHeld(L)] # 0
         /\ \A o \in Orders : L.held[o] # 0 => o <= LastHeld(L)
<1> DEFINE S == {o \in Orders : L.held[o] # 0}
<1>1. S \in SUBSET Nat /\ S # {} /\ NumOrders \in Nat /\ \A s \in S : s <= NumOrders
  BY OrdersFinite
<1>2. \E x \in S : \A y \in S : y <= x
  BY <1>1, Greatest
<1>3. \E o \in Orders : L.held[o] # 0 /\ \A q \in Orders : L.held[q] # 0 => q <= o
  BY <1>2
<1> QED
  BY <1>3 DEF LastHeld

(* A page holds the matching rows up to its last one; one that is not full *)
(* holds them all.                                                         *)
LEMMA PageIsPrefix ==
  ASSUME NEW L, NEW o \in Orders, o >= L.next, Shown(o), onkey.stamp[o] >= L.since
  PROVE  /\ \A p \in Page(L) : o <= p => o \in Page(L)
         /\ o \in Page(L) \/ Cardinality(Page(L)) >= Cap
<1> DEFINE rows == {q \in Orders : q >= L.next /\ Shown(q) /\ onkey.stamp[q] >= L.since}
           below(q) == {p \in rows : p < q}
<1>1. Page(L) = {q \in rows : Cardinality(below(q)) < Cap}
  BY DEF Page
<1>2. o \in rows /\ rows \subseteq Orders
  OBVIOUS
<1> HIDE DEF rows
<1>3. \A q \in Orders : IsFiniteSet(below(q)) /\ Cardinality(below(q)) \in Nat
  <2>1. \A q \in Orders : below(q) \in SUBSET Orders
    BY <1>2
  <2> QED
    BY <2>1, OrdersFinite, FS_Subset, FS_CardinalityType
<1>4. Cap \in Nat
  BY SyncBounds
<1>5. ASSUME NEW p \in Page(L), o <= p
      PROVE  o \in Page(L)
  <2>0. p \in Orders /\ Cardinality(below(p)) < Cap
    BY <1>1, <1>2
  <2>1. below(o) \in SUBSET below(p)
    <3>1. \A r \in rows : r < o => r < p
      BY <1>2, <1>5, <2>0, OrdersFinite
    <3> QED
      BY <3>1
  <2>2. Cardinality(below(o)) <= Cardinality(below(p))
    BY <1>3, <2>0, <2>1, FS_Subset
  <2> HIDE DEF below
  <2>3. Cardinality(below(o)) < Cap
    BY <1>3, <1>4, <2>0, <2>2
  <2> QED
    BY <1>1, <1>2, <2>3
<1>6. ASSUME o \notin Page(L)
      PROVE  Cardinality(Page(L)) >= Cap
  <2> DEFINE S == {q \in rows : q \notin Page(L)}
  <2>1. PICK q \in S : \A p \in S : q <= p
    <3>1. S \in SUBSET Nat /\ S # {}
      BY <1>2, <1>6, OrdersFinite
    <3> QED
      BY <3>1, Smallest
  <2>2. below(q) \in SUBSET Page(L) /\ q \in Orders
    <3>1. q \in Orders /\ \A p \in rows : p < q => ~(q <= p)
      BY <1>2, <2>1, OrdersFinite
    <3>2. \A p \in rows : p < q => p \in Page(L)
      BY <2>1, <3>1
    <3> QED
      BY <3>1, <3>2
  <2>3. IsFiniteSet(Page(L)) /\ Cardinality(Page(L)) \in Nat
    <3>1. Page(L) \in SUBSET Orders
      BY <1>1, <1>2
    <3> QED
      BY <3>1, OrdersFinite, FS_Subset, FS_CardinalityType
  <2>4. Cardinality(below(q)) <= Cardinality(Page(L))
    BY <2>2, <2>3, FS_Subset
  <2>5. ~(Cardinality(below(q)) < Cap)
    BY <1>1, <2>1
  <2> HIDE DEF below
  <2> QED
    BY <1>3, <1>4, <2>2, <2>3, <2>4, <2>5
<1> QED
  BY <1>5, <1>6

LEMMA PageFits ==
  ASSUME NEW L
  PROVE  Page(L) \in SUBSET Orders /\ Cardinality(Page(L)) \in Nat /\ Cardinality(Page(L)) <= Cap
<1> DEFINE rows == {q \in Orders : q >= L.next /\ Shown(q) /\ onkey.stamp[q] >= L.since}
           below(q) == {p \in rows : p < q}
<1>1. Page(L) = {q \in rows : Cardinality(below(q)) < Cap}
  BY DEF Page
<1>2. rows \subseteq Orders /\ Cap \in Nat
  BY SyncBounds
<1> HIDE DEF rows
<1>3. Page(L) \in SUBSET Orders /\ Page(L) \in SUBSET rows
  BY <1>1, <1>2
<1>4. IsFiniteSet(Page(L)) /\ Cardinality(Page(L)) \in Nat
  BY <1>3, OrdersFinite, FS_Subset, FS_CardinalityType
<1>5. CASE Page(L) = {}
  BY <1>2, <1>3, <1>4, <1>5, FS_EmptySet
<1>6. CASE Page(L) # {}
  <2>1. PICK q \in Page(L) : \A p \in Page(L) : p <= q
    <3>1. Page(L) \in SUBSET Nat /\ NumOrders \in Nat /\ \A p \in Page(L) : p <= NumOrders
      BY <1>3, OrdersFinite
    <3> QED
      BY <1>6, <3>1, Greatest
  <2>2. Page(L) \ {q} \in SUBSET below(q)
    <3>1. ASSUME NEW p \in Page(L) \ {q}
          PROVE  p < q
      <4>1. p \in Nat /\ q \in Nat /\ p <= q
        BY <1>3, <2>1, OrdersFinite
      <4> QED
        BY <4>1
    <3> QED
      BY <1>3, <3>1
  <2>3. IsFiniteSet(below(q)) /\ Cardinality(below(q)) \in Nat /\ Cardinality(below(q)) < Cap
    <3>1. below(q) \in SUBSET Orders
      BY <1>2
    <3> QED
      BY <1>1, <3>1, OrdersFinite, FS_Subset, FS_CardinalityType
  <2> HIDE DEF below
  <2>4. Cardinality(Page(L) \ {q}) = Cardinality(Page(L)) - 1
    BY <1>4, <2>1, FS_RemoveElement
  <2>5. Cardinality(Page(L) \ {q}) <= Cardinality(below(q))
    BY <2>2, <2>3, FS_Subset
  <2> QED
    BY <1>2, <1>3, <1>4, <2>3, <2>4, <2>5
<1> QED
  BY <1>5, <1>6

-----------------------------------------------------------------------------
(* What holds of the delta lane when it, the cursor and the floor stay as  *)
(* they are, and every order that moves was stamped within the last Lag.   *)
LEMMA DeltaStays ==
  ASSUME SyncIInv, onkey' \in OnKeyRec, Delta' = Delta, cursor' = cursor, floor' = floor,
         onkey.now <= onkey'.now,
         \A o \in Orders : raw[o].have \subseteq raw'[o].have,
         \A o \in Orders : \/ onkey'.ver[o] = onkey.ver[o] /\ onkey'.stamp[o] = onkey.stamp[o]
                           \/ onkey'.stamp[o] >= onkey.now - Lag
  PROVE  DeltaRun' /\ PassedKept' /\ CursorKeepsEdits'
<1>1. /\ onkey.now \in Nat /\ onkey'.now \in Nat /\ Overlap \in Nat /\ Lag \in Nat /\ Lag <= Overlap
      /\ onkey'.stamp \in [Orders -> Nat] /\ onkey.stamp \in [Orders -> Nat]
      /\ Delta \in LaneRec /\ cursor \in [mark : Int, total : Nat] /\ cursor.mark <= onkey.now
  BY OverlapAssumption, SyncBounds DEF SyncIInv, Typed, Delta, OnKeyRec, Clocks
<1>2. Delta.mark \in Int /\ cursor.mark \in Int
  BY <1>1 DEF LaneRec
<1>3. DeltaRun'
  BY <1>1, <1>2 DEF SyncIInv, DeltaRun
<1>4. PassedKept'
  <2> SUFFICES ASSUME Delta.pc \in Fetching, NEW o \in Orders, Passed(o)'
               PROVE  Kept(o)'
    BY DEF PassedKept
  <2>1. Passed(o)
    BY DEF Passed
  <2>2. Kept(o)
    BY <2>1 DEF SyncIInv, PassedKept
  <2>3. CASE onkey'.stamp[o] >= onkey.now - Lag
    <3>1. Delta.mark <= onkey.now
      BY DEF SyncIInv, DeltaRun
    <3>2. onkey'.stamp[o] \in Nat
      BY <1>1
    <3>3. onkey'.stamp[o] >= Delta.mark - Overlap
      BY <1>1, <1>2, <2>3, <3>1, <3>2
    <3> QED
      BY <3>3 DEF Kept
  <2>4. CASE onkey'.ver[o] = onkey.ver[o] /\ onkey'.stamp[o] = onkey.stamp[o]
    BY <2>2, <2>4 DEF Kept, Shown, Stored
  <2> QED
    BY <2>3, <2>4
<1>5. CursorKeepsEdits'
  <2> SUFFICES ASSUME cursor.mark # NoMark, NEW o \in Orders
               PROVE  \/ Stored(o, onkey.ver[o])'
                      \/ onkey'.stamp[o] >= cursor.mark - Overlap
                      \/ onkey'.stamp[o] < floor
                      \/ ~Shown(o)'
    BY DEF CursorKeepsEdits
  <2>1. CASE onkey'.stamp[o] >= onkey.now - Lag
    <3>1. onkey'.stamp[o] \in Nat
      BY <1>1
    <3> QED
      BY <1>1, <1>2, <2>1, <3>1
  <2>2. CASE onkey'.ver[o] = onkey.ver[o] /\ onkey'.stamp[o] = onkey.stamp[o]
    BY <2>2 DEF SyncIInv, CursorKeepsEdits, Shown, Stored
  <2> QED
    BY <2>1, <2>2
<1> QED
  BY <1>3, <1>4, <1>5

(* A run that ends or has not read the probe promises nothing.             *)
LEMMA DeltaRests ==
  ASSUME SyncIInv, Delta'.pc = "idle" \/ (Delta'.pc = "probe" /\ Delta'.next = 1), UNCHANGED <<onkey, raw, cursor, floor>>
  PROVE  Clocks' /\ DeltaRun' /\ PassedKept' /\ CursorKeepsEdits'
BY DEF SyncIInv, Clocks, DeltaRun, PassedKept, Fetching, CursorKeepsEdits, Stored, Shown

LEMMA LaneSet ==
  ASSUME SyncIInv, NEW m \in Lanes, NEW L \in LaneRec, lane' = [lane EXCEPT ![m] = L]
  PROVE  /\ lane' \in [Lanes -> LaneRec] /\ lane'[m] = L
         /\ m # "delta" => Delta' = Delta
BY SyncBounds DEF SyncIInv, Typed, Delta

(* Another lane moves, and stores at most.                                 *)
LEMMA OtherLane ==
  ASSUME SyncIInv, NEW m \in Lanes, m # "delta", NEW L \in LaneRec,
         lane' = [lane EXCEPT ![m] = L],
         raw' \in [Orders -> RawRow], \A o \in Orders : raw[o].have \subseteq raw'[o].have,
         UNCHANGED <<onkey, cursor, floor>>
  PROVE  SyncIInv'
<1>1. Delta' = Delta /\ lane' \in [Lanes -> LaneRec]
  BY LaneSet
<1>2. Typed' /\ Clocks'
  BY <1>1 DEF SyncIInv, Typed, Clocks
<1>3. onkey' \in OnKeyRec /\ onkey.now <= onkey'.now
  BY DEF SyncIInv, Typed, OnKeyRec
<1>4. DeltaRun' /\ PassedKept' /\ CursorKeepsEdits'
  BY <1>1, <1>3, DeltaStays
<1> QED
  BY <1>2, <1>4 DEF SyncIInv

LEMMA RestType ==
  /\ AtRest \in LaneRec /\ AtRest.pc = "idle"
  /\ \A pc \in LanePcs, n \in Nat : [AtRest EXCEPT !.pc = pc, !.next = n] \in LaneRec
  /\ \A pc \in LanePcs, n \in Nat : /\ [AtRest EXCEPT !.pc = pc, !.next = n].pc = pc
                                    /\ [AtRest EXCEPT !.pc = pc, !.next = n].next = n
<1>1. NoMark \in Int /\ Nothing \in [Orders -> Nat] /\ FALSE \in BOOLEAN /\ "idle" \in LanePcs
  BY DEF NoMark, Nothing, LanePcs
<1>2. AtRest \in LaneRec /\ AtRest.pc = "idle"
  BY <1>1 DEF AtRest, LaneRec
<1>3. ASSUME NEW pc \in LanePcs, NEW n \in Nat
      PROVE  /\ [AtRest EXCEPT !.pc = pc, !.next = n] \in LaneRec
             /\ [AtRest EXCEPT !.pc = pc, !.next = n].pc = pc
             /\ [AtRest EXCEPT !.pc = pc, !.next = n].next = n
  BY <1>2 DEF LaneRec
<1> QED
  BY <1>2, <1>3

LEMMA SyncInitIInv == SyncInit => SyncIInv
<1> SUFFICES ASSUME SyncInit PROVE SyncIInv
  OBVIOUS
<1>1. PICK e \in SUBSET Orders, v \in [Orders -> {0, 1}] :
        /\ onkey = [now |-> 0, ver |-> v, stamp |-> Nothing, edits |-> 0, band |-> BandOf,
                    open |-> [o : e, stamp : {0}, moved : {TRUE}]]
        /\ raw = [o \in Orders |-> [have |-> {v[o]} \ {0}, top |-> v[o]]]
  BY DEF SyncInit
<1>2. onkey \in OnKeyRec
  <2>1. [o : e, stamp : {0}, moved : {TRUE}] \subseteq [o : Orders, stamp : Nat, moved : BOOLEAN]
    <3>1. {TRUE} \subseteq BOOLEAN /\ {0} \subseteq Nat
      OBVIOUS
    <3> QED
      BY <3>1
  <2>2. Nothing \in [Orders -> Nat] /\ v \in [Orders -> Nat] /\ BandOf \in [Orders -> Bands]
    BY SyncBounds DEF Nothing
  <2> QED
    BY <1>1, <2>1, <2>2 DEF OnKeyRec
<1>3. raw \in [Orders -> RawRow]
  BY <1>1 DEF RawRow
<1>4. Typed
  <2>1. cursor \in [mark : Int, total : Nat] /\ floor \in Int
    BY DEF SyncInit, NoMark
  <2>2. lane \in [Lanes -> LaneRec]
    BY RestType DEF SyncInit
  <2> QED
    BY <1>2, <1>3, <2>1, <2>2 DEF Typed
<1>5. Clocks
  <2>1. /\ onkey.now = 0 /\ \A o \in Orders : onkey.stamp[o] = 0
        /\ \A x \in onkey.open : x.stamp = 0
    BY <1>1 DEF Nothing
  <2>2. cursor.mark = -1
    BY DEF SyncInit, NoMark
  <2> QED
    BY <2>1, <2>2, OverlapAssumption DEF Clocks
<1>6. Delta = AtRest
  BY SyncBounds DEF SyncInit, Delta
<1> QED
  BY <1>4, <1>5, <1>6, RestType DEF SyncIInv, DeltaRun, PassedKept, Fetching, CursorKeepsEdits,
                                    SyncInit

-----------------------------------------------------------------------------
(* OnKey moves.                                                            *)

LEMMA OnKeyKeeps ==
  ASSUME SyncIInv, onkey' \in OnKeyRec, Clocks', onkey.now <= onkey'.now,
         \A o \in Orders : \/ onkey'.ver[o] = onkey.ver[o] /\ onkey'.stamp[o] = onkey.stamp[o]
                           \/ onkey'.stamp[o] >= onkey.now - Lag,
         UNCHANGED <<raw, cursor, lane, floor>>
  PROVE  SyncIInv'
<1>1. Delta' = Delta /\ \A o \in Orders : raw[o].have \subseteq raw'[o].have
  BY DEF Delta
<1>2. Typed'
  BY DEF SyncIInv, Typed
<1> QED
  BY <1>1, <1>2, DeltaStays DEF SyncIInv

LEMMA EditKeeps ==
  ASSUME SyncIInv, NEW o \in Orders, EditOrder(o)
  PROVE  SyncIInv'
<1>1. onkey \in OnKeyRec /\ onkey.now \in Nat /\ Lag \in Nat
  BY OverlapAssumption DEF SyncIInv, Typed, OnKeyRec
<1>2. PICK moved \in BOOLEAN :
        onkey' = [onkey EXCEPT !.edits = @ + 1,
                    !.open = @ \cup {[o |-> o, stamp |-> onkey.now, moved |-> moved]}]
  BY DEF EditOrder
<1> DEFINE new   == [o |-> o, stamp |-> onkey.now, moved |-> moved]
           edits == onkey.edits + 1
           open  == onkey.open \cup {new}
<1>3. /\ new \in [o : Orders, stamp : Nat, moved : BOOLEAN] /\ new.stamp = onkey.now
      /\ edits \in Nat
  BY <1>1 DEF OnKeyRec
<1> HIDE DEF new
<1>4. open \in SUBSET [o : Orders, stamp : Nat, moved : BOOLEAN]
  BY <1>1, <1>3 DEF OnKeyRec
<1>5. \A e \in open : e \in onkey.open \/ e.stamp = onkey.now
  BY <1>3
<1>6. onkey' = [onkey EXCEPT !.edits = edits, !.open = open]
  BY <1>2 DEF new
<1> HIDE DEF edits, open
<1>7. /\ onkey' \in OnKeyRec /\ onkey'.open = open
      /\ onkey'.now = onkey.now /\ onkey'.ver = onkey.ver /\ onkey'.stamp = onkey.stamp
  BY <1>1, <1>3, <1>4, <1>6 DEF OnKeyRec
<1>8. Clocks'
  BY <1>1, <1>5, <1>7 DEF SyncIInv, Clocks, EditOrder
<1> QED
  BY <1>1, <1>7, <1>8, OnKeyKeeps DEF EditOrder

LEMMA ShowKeeps ==
  ASSUME SyncIInv, NEW e \in onkey.open, ShowEdit(e)
  PROVE  SyncIInv'
<1>1. /\ onkey \in OnKeyRec /\ onkey.now \in Nat /\ Lag \in Nat
      /\ e.o \in Orders /\ e.stamp \in Nat /\ e.stamp <= onkey.now /\ onkey.now <= e.stamp + Lag
  BY OverlapAssumption DEF SyncIInv, Typed, OnKeyRec, Clocks
<1>2. /\ onkey'.now = onkey.now /\ onkey'.edits = onkey.edits
      /\ onkey'.ver = [onkey.ver EXCEPT ![e.o] = @ + 1]
      /\ onkey'.stamp = [onkey.stamp EXCEPT ![e.o] = e.stamp]
      /\ onkey'.open = onkey.open \ {e}
  BY <1>1 DEF ShowEdit, OnKeyRec
<1>3. onkey' \in OnKeyRec
  <2> DEFINE ver   == [onkey.ver EXCEPT ![e.o] = @ + 1]
             stamp == [onkey.stamp EXCEPT ![e.o] = e.stamp]
             band  == [onkey.band EXCEPT ![e.o] = IF e.moved \/ ~Shown(e.o) THEN 0 ELSE @]
             open  == onkey.open \ {e}
  <2>1. /\ ver \in [Orders -> Nat] /\ stamp \in [Orders -> Nat] /\ band \in [Orders -> Bands]
        /\ open \in SUBSET [o : Orders, stamp : Nat, moved : BOOLEAN]
    BY <1>1 DEF OnKeyRec, Bands
  <2>2. onkey' = [onkey EXCEPT !.open = open, !.ver = ver, !.stamp = stamp, !.band = band]
    BY <1>1 DEF ShowEdit, OnKeyRec
  <2> HIDE DEF ver, stamp, band, open
  <2> QED
    BY <1>1, <2>1, <2>2 DEF OnKeyRec
<1>4. \A o \in Orders : \/ onkey'.ver[o] = onkey.ver[o] /\ onkey'.stamp[o] = onkey.stamp[o]
                        \/ onkey'.stamp[o] >= onkey.now - Lag
  BY <1>1, <1>2 DEF OnKeyRec
<1>5. Clocks'
  BY <1>1, <1>2 DEF SyncIInv, Clocks, ShowEdit, OnKeyRec
<1> QED
  BY <1>1, <1>2, <1>3, <1>4, <1>5, OnKeyKeeps DEF ShowEdit

LEMMA SyncTickKeeps ==
  ASSUME SyncIInv, OnKeyTick
  PROVE  SyncIInv'
<1>1. /\ onkey \in OnKeyRec /\ onkey.now \in Nat /\ Lag \in Nat
      /\ \A e \in onkey.open : e.stamp \in Nat /\ onkey.now < e.stamp + Lag
  BY OverlapAssumption DEF SyncIInv, Typed, OnKeyRec, OnKeyTick
<1>2. /\ onkey' \in OnKeyRec /\ onkey'.now = onkey.now + 1 /\ onkey'.ver = onkey.ver
      /\ onkey'.stamp = onkey.stamp /\ onkey'.open = onkey.open
  BY <1>1 DEF OnKeyTick, OnKeyRec
<1>3. \A o \in Orders : onkey.stamp[o] \in Nat
  BY <1>1 DEF OnKeyRec
<1>4. cursor' = cursor /\ cursor.mark \in Int
  BY DEF SyncIInv, Typed, OnKeyTick
<1>5. Clocks'
  BY <1>1, <1>2, <1>3, <1>4 DEF SyncIInv, Clocks
<1> QED
  BY <1>1, <1>2, <1>5, OnKeyKeeps DEF OnKeyTick

-----------------------------------------------------------------------------
(* Lanes start, fail and die.                                              *)

LEMMA DeltaLaneRests ==
  ASSUME SyncIInv, NEW L \in LaneRec, L.pc = "idle" \/ (L.pc = "probe" /\ L.next = 1), lane' = [lane EXCEPT !["delta"] = L],
         UNCHANGED <<onkey, raw, cursor, floor>>
  PROVE  SyncIInv'
<1>1. lane' \in [Lanes -> LaneRec] /\ Delta' = L
  BY LaneSet, SyncBounds DEF Delta
<1>2. Typed'
  BY <1>1 DEF SyncIInv, Typed
<1> QED
  BY <1>1, <1>2, DeltaRests DEF SyncIInv

LEMMA RawKept ==
  ASSUME SyncIInv, raw' = raw
  PROVE  raw' \in [Orders -> RawRow] /\ \A o \in Orders : raw[o].have \subseteq raw'[o].have
BY DEF SyncIInv, Typed

LEMMA StartKeeps ==
  ASSUME SyncIInv, NEW m \in Lanes, StartLane(m)
  PROVE  SyncIInv'
<1> DEFINE next == IF m = "delta" THEN 1 ELSE 0
           L    == [AtRest EXCEPT !.pc = FirstStep(m), !.next = next]
<1>1. FirstStep(m) \in LanePcs /\ next \in Nat /\ (m = "delta" => FirstStep(m) = "probe")
  BY DEF FirstStep, LanePcs
<1>2. L \in LaneRec /\ L.pc = FirstStep(m) /\ L.next = next
  BY <1>1, RestType
<1>3. lane' = [lane EXCEPT ![m] = L] /\ UNCHANGED <<onkey, raw, cursor, floor>>
  BY DEF StartLane
<1> HIDE DEF L
<1>4. CASE m = "delta"
  BY <1>1, <1>2, <1>3, <1>4, DeltaLaneRests
<1>5. CASE m # "delta"
  BY <1>2, <1>3, <1>5, OtherLane, RawKept
<1> QED
  BY <1>4, <1>5

LEMMA LaneEndKeeps ==
  ASSUME SyncIInv, NEW m \in Lanes, LaneEnds(m), UNCHANGED <<onkey, raw, cursor, floor>>
  PROVE  SyncIInv'
<1>1. CASE m = "delta"
  BY <1>1, RestType, DeltaLaneRests DEF LaneEnds
<1>2. CASE m # "delta"
  BY <1>2, RestType, OtherLane, RawKept DEF LaneEnds
<1> QED
  BY <1>1, <1>2

LEMMA RestartKeeps ==
  ASSUME SyncIInv, BackendRestarts
  PROVE  SyncIInv'
<1>1. lane' \in [Lanes -> LaneRec] /\ Delta' = AtRest
  BY RestType, SyncBounds DEF SyncIInv, Typed, BackendRestarts, Delta
<1>2. Typed'
  BY <1>1 DEF SyncIInv, Typed, BackendRestarts
<1> QED
  BY <1>1, <1>2, RestType, DeltaRests DEF SyncIInv, BackendRestarts

-----------------------------------------------------------------------------
(* The delta lane.                                                         *)

LEMMA DeltaFacts ==
  ASSUME SyncIInv
  PROVE  /\ Delta \in LaneRec /\ "delta" \in Lanes /\ cursor.mark \in Int /\ floor \in Int
         /\ onkey \in OnKeyRec /\ Overlap \in Nat /\ FirstReach \in Nat
         /\ \A o \in Orders : onkey.ver[o] \in Nat /\ onkey.stamp[o] \in Nat
BY SyncBounds, OverlapAssumption DEF SyncIInv, Typed, Delta, OnKeyRec

(* A step of the lane that leaves OnKey, the cursor and the floor alone.   *)
LEMMA DeltaMoves ==
  ASSUME SyncIInv, NEW L \in LaneRec, lane' = [lane EXCEPT !["delta"] = L],
         UNCHANGED <<onkey, cursor, floor>>,
         raw' \in [Orders -> RawRow], DeltaRun', PassedKept',
         \A o \in Orders : raw[o].have \subseteq raw'[o].have
  PROVE  SyncIInv'
<1>1. lane' \in [Lanes -> LaneRec]
  BY LaneSet, SyncBounds
<1>2. Typed' /\ Clocks'
  BY <1>1 DEF SyncIInv, Typed, Clocks
<1>3. CursorKeepsEdits'
  BY DEF SyncIInv, CursorKeepsEdits, Stored, Shown
<1> QED
  BY <1>2, <1>3 DEF SyncIInv

LEMMA ProbeKeeps ==
  ASSUME SyncIInv, Probe
  PROVE  SyncIInv'
<1>1. CASE Unchanged
  BY <1>1, LaneEndKeeps, DeltaFacts DEF Probe
<1>2. CASE ~Unchanged
  <2> DEFINE since == Since(Watermark)
             L     == [Delta EXCEPT !.pc = "fetch", !.mark = Watermark, !.total = Total,
                                    !.since = since]
  <2>1. /\ Watermark \in Nat /\ Watermark <= onkey.now /\ Total \in Nat /\ since \in Int
        /\ cursor.mark # NoMark => since = cursor.mark - Overlap
    BY WatermarkIs, TotalType, DeltaFacts DEF Probe, Since
  <2>2. /\ lane' = [lane EXCEPT !["delta"] = L]
        /\ floor' = IF cursor.mark = NoMark THEN since ELSE floor
        /\ UNCHANGED <<onkey, raw, cursor>>
        /\ Delta.pc = "probe" /\ Delta.next = 1
    BY <1>2, DeltaFacts DEF Probe, Delta, SyncIInv, DeltaRun, Typed
  <2> HIDE DEF since
  <2>3. /\ L \in LaneRec /\ L.pc = "fetch" /\ L.mark = Watermark /\ L.since = since
        /\ L.next = 1
    <3>1. Delta \in LaneRec /\ Watermark \in Int /\ Total \in Nat /\ since \in Int
      BY <2>1, DeltaFacts
    <3>2. /\ L \in LaneRec /\ L.pc = "fetch" /\ L.mark = Watermark /\ L.since = since
          /\ L.next = Delta.next
      <4>1. PICK mark \in Int, total \in Nat :
              mark = Watermark /\ total = Total
        BY <3>1
      <4>2. L = [Delta EXCEPT !.pc = "fetch", !.mark = mark, !.total = total, !.since = since]
        BY <4>1
      <4> HIDE DEF L
      <4>3. /\ L \in LaneRec /\ L.pc = "fetch" /\ L.mark = mark /\ L.since = since
            /\ L.next = Delta.next
        <5>1. "fetch" \in LanePcs
          BY DEF LanePcs
        <5> QED
          BY <3>1, <4>2, <5>1 DEF LaneRec
      <4> QED
        BY <4>1, <4>3
    <3> QED
      BY <2>2, <3>2
  <2> HIDE DEF L
  <2>4. lane' \in [Lanes -> LaneRec] /\ Delta' = L
    BY <2>2, <2>3, LaneSet, DeltaFacts DEF Delta
  <2>5. Typed' /\ Clocks'
    BY <2>1, <2>2, <2>4 DEF SyncIInv, Typed, Clocks
  <2>6. DeltaRun'
    BY <2>1, <2>2, <2>3, <2>4 DEF DeltaRun, NoMark
  <2>7. PassedKept'
    BY <2>3, <2>4, OrdersFinite DEF PassedKept, Passed, Orders
  <2>8. CursorKeepsEdits'
    BY <2>2 DEF SyncIInv, CursorKeepsEdits, Stored, Shown
  <2> QED
    BY <2>5, <2>6, <2>7, <2>8 DEF SyncIInv
<1> QED
  BY <1>1, <1>2

LEMMA FetchPageKeeps ==
  ASSUME SyncIInv, FetchPage
  PROVE  SyncIInv'
<1> DEFINE page == Page(Delta)
           held == [o \in Orders |-> IF o \in page THEN onkey.ver[o] ELSE 0]
           more == (Cardinality(page) = Cap)
           pc   == IF page = {} THEN "finish" ELSE "store"
           L    == [Delta EXCEPT !.pc = pc, !.held = held, !.more = more]
<1>1. /\ page \in SUBSET Orders /\ Cardinality(page) \in Nat /\ Cardinality(page) <= Cap
      /\ Cap \in Nat \ {0}
  BY PageFits, SyncBounds
<1>2. held \in [Orders -> Nat] /\ more \in BOOLEAN /\ pc \in LanePcs
  BY <1>1, DeltaFacts DEF LanePcs
<1>3. /\ lane' = [lane EXCEPT !["delta"] = L] /\ Delta.pc = "fetch"
      /\ UNCHANGED <<onkey, raw, cursor, floor>>
  BY DEF FetchPage, Delta
<1>4. \A o \in page : Shown(o) /\ held[o] = onkey.ver[o] /\ held[o] # 0
  BY <1>1, DeltaFacts DEF Page, Shown
<1>5. \A p \in Orders : held[p] # 0 => p \in page
  OBVIOUS
<1>6. ASSUME NEW o \in Orders, o >= Delta.next, o \notin page
      PROVE  /\ page = {} \/ ~more => Kept(o)
             /\ \A p \in page : o <= p => Kept(o)
  <2>1. CASE ~(Shown(o) /\ onkey.stamp[o] >= Delta.since)
    <3>1. onkey.stamp[o] \in Nat /\ Delta.since \in Int
      BY DeltaFacts DEF LaneRec
    <3> QED
      BY <2>1, <3>1 DEF Kept
  <2>2. CASE Shown(o) /\ onkey.stamp[o] >= Delta.since
    <3>1. /\ \A p \in page : ~(o <= p)
          /\ Cardinality(page) >= Cap
      BY <1>6, <2>2, PageIsPrefix
    <3>2. more /\ page # {}
      BY <1>1, <3>1, FS_EmptySet
    <3> QED
      BY <3>1, <3>2
  <2> QED
    BY <2>1, <2>2
<1> HIDE DEF page, held, more, pc
<1>7. /\ L \in LaneRec /\ L.pc = pc /\ L.held = held /\ L.more = more
      /\ L.next = Delta.next /\ L.mark = Delta.mark /\ L.since = Delta.since
  BY <1>2, DeltaFacts DEF LaneRec
<1> HIDE DEF L
<1>8. Delta' = L
  BY <1>3, <1>7, LaneSet, DeltaFacts DEF Delta
<1>9. DeltaRun'
  <2>1. L.pc = "store" => \E p \in Orders : L.held[p] # 0
    BY <1>1, <1>4, <1>7 DEF pc
  <2>2. L.pc \in {"finish", "store"}
    BY <1>7 DEF pc
  <2> QED
    BY <1>3, <1>7, <1>8, <2>1, <2>2 DEF SyncIInv, DeltaRun, Fetching
<1>10. PassedKept'
  <2> SUFFICES ASSUME NEW o \in Orders, Passed(o)'
               PROVE  Kept(o)'
    BY DEF PassedKept
  <2>1. Kept(o) => Kept(o)'
    BY <1>3, <1>7, <1>8 DEF Kept, Stored, Shown
  <2>2. o \in Nat /\ Delta.next \in Nat
    BY OrdersFinite, DeltaFacts DEF LaneRec
  <2>3. CASE o < Delta.next
    BY <1>3, <2>1, <2>3 DEF SyncIInv, PassedKept, Passed, Fetching
  <2>4. CASE o \in page
    <3>1. pc = "store"
      BY <2>4 DEF pc
    <3> QED
      BY <1>3, <1>4, <1>7, <1>8, <2>4, <3>1 DEF Kept
  <2>5. CASE ~(o < Delta.next) /\ o \notin page
    <3>1. o >= Delta.next
      BY <2>2, <2>5
    <3>2. page = {} \/ ~more \/ \E p \in page : o <= p
      BY <1>5, <1>7, <1>8, <2>5 DEF Passed, pc
    <3> QED
      BY <1>6, <2>1, <2>5, <3>1, <3>2
  <2> QED
    BY <2>3, <2>4, <2>5
<1> QED
  BY <1>3, <1>7, <1>9, <1>10, DeltaMoves, RawKept
-----------------------------------------------------------------------------
(* Rows are stored and derived.                                            *)

LEMMA UpsertTypes ==
  ASSUME SyncIInv, NEW m \in Lanes, NEW aged, StoreRows(m, aged)
  PROVE  /\ raw' \in [Orders -> RawRow]
         /\ \A o \in Orders : raw[o].have \subseteq raw'[o].have
         /\ \A o \in Orders : lane[m].held[o] # 0 => lane[m].held[o] \in raw'[o].have
<1>1. raw' = [o \in Orders |-> Upsert(raw[o], lane[m].held[o], o \in aged)]
  BY DEF StoreRows
<1>2. lane[m] \in LaneRec
  BY DEF SyncIInv, Typed
<1>3. ASSUME NEW o \in Orders
      PROVE  /\ raw[o] \in RawRow /\ lane[m].held[o] \in Nat
             /\ raw'[o] = Upsert(raw[o], lane[m].held[o], o \in aged)
  BY <1>1, <1>2 DEF SyncIInv, Typed, LaneRec
<1>4. ASSUME NEW o \in Orders
      PROVE  /\ raw'[o] \in RawRow /\ raw[o].have \subseteq raw'[o].have
             /\ lane[m].held[o] # 0 => lane[m].held[o] \in raw'[o].have
  <2> DEFINE v == lane[m].held[o]
             r == raw[o]
  <2>1. r \in RawRow /\ v \in Nat /\ raw'[o] = Upsert(r, v, o \in aged)
    BY <1>3
  <2> HIDE DEF v, r
  <2>2. CASE v = 0 \/ (v \in r.have /\ ~(o \in aged))
    <3>1. raw'[o] = r
      BY <2>1, <2>2 DEF Upsert
    <3> QED
      BY <2>1, <2>2, <3>1 DEF v, r
  <2>3. CASE ~(v = 0 \/ (v \in r.have /\ ~(o \in aged)))
    <3>1. raw'[o] = [have |-> r.have \cup {v}, top |-> v]
      BY <2>1, <2>3 DEF Upsert
    <3>2. r.have \cup {v} \in SUBSET Nat
      BY <2>1 DEF RawRow
    <3> QED
      BY <2>1, <3>1, <3>2 DEF RawRow, v, r
  <2> QED
    BY <2>2, <2>3
<1>5. raw' \in [Orders -> RawRow]
  BY <1>1, <1>4
<1> QED
  BY <1>4, <1>5

LEMMA StoreKeeps ==
  ASSUME SyncIInv, NEW m \in Lanes, NEW aged, StoreRows(m, aged)
  PROVE  SyncIInv'
<1> DEFINE M    == lane[m]
           pc   == IF m \in FromHeld THEN "write" ELSE "derive"
           pick == IF m \in FromHeld THEN M.held ELSE Nothing
           L    == [M EXCEPT !.pc = pc, !.pick = pick]
<1>1. M \in LaneRec /\ pc \in LanePcs /\ pick \in [Orders -> Nat]
  BY DEF SyncIInv, Typed, LanePcs, LaneRec, Nothing
<1>2. lane' = [lane EXCEPT ![m] = L] /\ UNCHANGED <<onkey, cursor, floor>> /\ M.pc = "store"
  BY DEF StoreRows, SyncIInv, Typed
<1> HIDE DEF pc, pick, M
<1>3. /\ L \in LaneRec /\ L.pc = pc /\ L.held = M.held /\ L.more = M.more
      /\ L.next = M.next /\ L.mark = M.mark /\ L.since = M.since
  BY <1>1 DEF LaneRec
<1> HIDE DEF L
<1>4. CASE m # "delta"
  BY <1>2, <1>3, <1>4, UpsertTypes, OtherLane
<1>5. CASE m = "delta"
  <2>1. pc = "write" /\ M = Delta
    BY <1>5 DEF pc, M, FromHeld, Delta
  <2>2. Delta' = L
    BY <1>2, <1>3, <1>5, LaneSet DEF Delta
  <2>3. DeltaRun'
    BY <1>2, <1>3, <2>1, <2>2 DEF SyncIInv, DeltaRun, Fetching
  <2>4. PassedKept'
    <3> SUFFICES ASSUME NEW o \in Orders, Passed(o)'
                 PROVE  Kept(o)'
      BY DEF PassedKept
    <3>1. Passed(o)
      BY <1>2, <1>3, <2>1, <2>2 DEF Passed
    <3>2. Kept(o)
      BY <1>2, <2>1, <3>1 DEF SyncIInv, PassedKept, Fetching
    <3>3. /\ raw[o].have \subseteq raw'[o].have
          /\ Delta.held[o] # 0 => Delta.held[o] \in raw'[o].have
      BY <1>5, UpsertTypes DEF Delta
    <3>4. onkey.ver[o] \in Nat
      BY DeltaFacts
    <3>5. CASE Delta.held[o] = onkey.ver[o]
      BY <1>2, <3>3, <3>4, <3>5 DEF Kept, Shown, Stored
    <3>6. CASE Delta.held[o] # onkey.ver[o]
      BY <1>2, <1>3, <2>1, <2>2, <3>2, <3>3, <3>6 DEF Kept, Shown, Stored
    <3> QED
      BY <3>5, <3>6
  <2> QED
    BY <1>2, <1>3, <1>5, <2>3, <2>4, UpsertTypes, DeltaMoves
<1> QED
  BY <1>4, <1>5

LEMMA DeriveReadKeeps ==
  ASSUME SyncIInv, NEW m \in Lanes, DeriveRead(m)
  PROVE  SyncIInv'
<1> DEFINE M    == lane[m]
           pick == [o \in Orders |-> raw[o].top]
           L    == [M EXCEPT !.pc = "write", !.pick = pick]
<1>1. M \in LaneRec /\ "write" \in LanePcs /\ pick \in [Orders -> Nat]
  BY DEF SyncIInv, Typed, LanePcs, RawRow
<1>2. m # "delta"
  BY DEF SyncIInv, DeltaRun, DeriveRead, Delta
<1>3. lane' = [lane EXCEPT ![m] = L] /\ UNCHANGED <<onkey, raw, cursor, floor>>
  BY DEF DeriveRead, SyncIInv, Typed
<1> HIDE DEF pick, M
<1>4. L \in LaneRec
  BY <1>1 DEF LaneRec
<1> QED
  BY <1>2, <1>3, <1>4, RawKept, OtherLane

LEMMA DeltaOnward ==
  ASSUME SyncIInv, Delta.pc = "write", NEW L \in LaneRec, lane' = [lane EXCEPT !["delta"] = L],
         UNCHANGED <<onkey, raw, cursor, floor>>,
         L.mark = Delta.mark, L.since = Delta.since,
         \/ L.pc = "finish" /\ ~Delta.more
         \/ L.pc = "fetch" /\ L.next = 1 + LastHeld(Delta)
  PROVE  SyncIInv'
<1>1. Delta' = L
  BY LaneSet, DeltaFacts DEF Delta
<1>2. /\ LastHeld(Delta) \in Nat /\ LastHeld(Delta) \in Orders
      /\ Delta.held[LastHeld(Delta)] # 0
  BY LastHeldIs, DeltaFacts, OrdersFinite DEF SyncIInv, DeltaRun
<1>3. DeltaRun'
  BY <1>1 DEF SyncIInv, DeltaRun, Fetching
<1>4. PassedKept'
  <2> SUFFICES ASSUME NEW o \in Orders, Passed(o)'
               PROVE  Kept(o)'
    BY DEF PassedKept
  <2>1. Passed(o)
    <3>1. CASE ~Delta.more
      BY <3>1 DEF Passed
    <3>2. CASE L.pc = "fetch" /\ L.next = 1 + LastHeld(Delta)
      <4>1. o < 1 + LastHeld(Delta) /\ o \in Nat
        BY <1>1, <3>2, OrdersFinite DEF Passed
      <4>2. o <= LastHeld(Delta)
        BY <1>2, <4>1
      <4> QED
        BY <1>2, <4>2 DEF Passed
    <3> QED
      BY <3>1, <3>2
  <2>2. Kept(o)
    BY <2>1 DEF SyncIInv, PassedKept, Fetching
  <2> QED
    BY <1>1, <2>2 DEF Kept, Stored, Shown
<1> QED
  BY <1>3, <1>4, RawKept, DeltaMoves

LEMMA DeriveWriteKeeps ==
  ASSUME SyncIInv, NEW m \in Lanes, DeriveWrite(m)
  PROVE  SyncIInv'
<1> DEFINE M == lane[m]
           Onward(pc, next) == [M EXCEPT !.pc = pc, !.next = next, !.derived = TRUE,
                                         !.held = Nothing, !.pick = Nothing]
<1>1. /\ M \in LaneRec /\ M.next \in Nat /\ "fetch" \in LanePcs /\ "finish" \in LanePcs
      /\ Nothing \in [Orders -> Nat] /\ TRUE \in BOOLEAN
  BY DEF SyncIInv, Typed, LanePcs, LaneRec, Nothing
<1>2. UNCHANGED <<onkey, raw, cursor, floor>> /\ M.pc = "write"
  BY DEF DeriveWrite
<1>3. lane' = [lane EXCEPT ![m] =
         CASE m = "derive"   -> AtRest
           [] m \in Windowed -> Onward("fetch", M.next + 1)
           [] m = "delta"    -> IF M.more THEN Onward("fetch", 1 + LastHeld(M))
                                          ELSE Onward("finish", M.next)]
  BY DEF DeriveWrite
<1>4. m = "derive" \/ m \in Windowed \/ m = "delta"
  BY SyncBounds DEF AllLanes, Windowed
<1>5. CASE m = "derive"
  <2> DEFINE past == CASE m = "derive"   -> AtRest
                       [] m \in Windowed -> Onward("fetch", M.next + 1)
                       [] m = "delta"    -> IF M.more THEN Onward("fetch", 1 + LastHeld(M))
                                                      ELSE Onward("finish", M.next)
  <2>1. past = AtRest
    BY <1>5 DEF Windowed
  <2>2. lane' = [lane EXCEPT ![m] = past]
    BY <1>3
  <2> HIDE DEF past
  <2> QED
    BY <1>2, <1>5, <2>1, <2>2, RestType, RawKept, OtherLane
<1>6. CASE m \in Windowed
  <2> DEFINE L == Onward("fetch", M.next + 1)
  <2>1. m # "derive" /\ m # "delta"
    BY <1>6 DEF Windowed
  <2>2. lane' = [lane EXCEPT ![m] = L]
    BY <1>3, <1>6, <2>1
  <2>3. L \in LaneRec
    <3>1. PICK n \in Nat : n = M.next + 1
      BY <1>1
    <3>2. L = Onward("fetch", n)
      BY <3>1
    <3> HIDE DEF L, M
    <3> QED
      BY <1>1, <3>2 DEF LaneRec
  <2> HIDE DEF L
  <2> QED
    BY <1>2, <2>1, <2>2, <2>3, RawKept, OtherLane
<1>7. CASE m = "delta"
  <2>1. M = Delta /\ m \notin Windowed
    BY <1>7 DEF Delta, Windowed
  <2>2. LastHeld(M) \in Nat
    BY <1>2, <2>1, LastHeldIs, DeltaFacts, OrdersFinite DEF SyncIInv, DeltaRun
  <2>3. CASE M.more
    <3> DEFINE L == Onward("fetch", 1 + LastHeld(M))
    <3>1. lane' = [lane EXCEPT !["delta"] = L]
      BY <1>3, <1>7, <2>1, <2>3
    <3>2. /\ L \in LaneRec /\ L.pc = "fetch" /\ L.next = 1 + LastHeld(M)
          /\ L.mark = M.mark /\ L.since = M.since
      <4>1. PICK n \in Nat : n = 1 + LastHeld(M)
        BY <2>2
      <4>2. L = Onward("fetch", n)
        BY <4>1
      <4> HIDE DEF L, M
      <4> QED
        BY <1>1, <4>1, <4>2 DEF LaneRec
    <3> HIDE DEF L
    <3> QED
      BY <1>2, <2>1, <3>1, <3>2, DeltaOnward
  <2>4. CASE ~M.more
    <3> DEFINE L == Onward("finish", M.next)
    <3>1. lane' = [lane EXCEPT !["delta"] = L]
      BY <1>3, <1>7, <2>1, <2>4
    <3>2. L \in LaneRec /\ L.pc = "finish" /\ L.mark = M.mark /\ L.since = M.since
      <4>1. PICK n \in Nat : n = M.next
        BY <1>1
      <4>2. L = Onward("finish", n)
        BY <4>1
      <4> HIDE DEF L, M
      <4> QED
        BY <1>1, <4>2 DEF LaneRec
    <3> HIDE DEF L
    <3> QED
      BY <1>2, <2>1, <2>4, <3>1, <3>2, DeltaOnward
  <2> QED
    BY <2>3, <2>4
<1> QED
  BY <1>4, <1>5, <1>6, <1>7

-----------------------------------------------------------------------------
(* The window lanes fetch and end.                                         *)

LEMMA FetchChunkKeeps ==
  ASSUME SyncIInv, NEW m \in Lanes, FetchChunk(m)
  PROVE  SyncIInv'
<1> DEFINE M    == lane[m]
           rows == {o \in Orders : Shown(o) /\ onkey.band[o] = M.next}
           pc   == IF rows = {} THEN "fetch" ELSE "store"
           next == IF rows = {} THEN M.next + 1 ELSE M.next
           held == [o \in Orders |-> IF o \in rows THEN onkey.ver[o] ELSE 0]
           L    == [M EXCEPT !.pc = pc, !.next = next, !.held = held]
<1>1. M \in LaneRec /\ M.next \in Nat
  BY DEF SyncIInv, Typed, LaneRec
<1>2. pc \in LanePcs /\ next \in Nat /\ held \in [Orders -> Nat]
  BY <1>1, DeltaFacts DEF LanePcs
<1>3. m # "delta"
  BY DEF FetchChunk, Windowed
<1>4. lane' = [lane EXCEPT ![m] = L] /\ UNCHANGED <<onkey, raw, cursor, floor>>
  BY DEF FetchChunk, SyncIInv, Typed
<1> HIDE DEF pc, next, held, M
<1>5. L \in LaneRec
  BY <1>1, <1>2 DEF LaneRec
<1> QED
  BY <1>3, <1>4, <1>5, RawKept, OtherLane

LEMMA EndWindowKeeps ==
  ASSUME SyncIInv, NEW m \in Lanes, EndWindow(m)
  PROVE  SyncIInv'
<1>1. m # "delta" /\ UNCHANGED <<onkey, raw, cursor, floor>>
  BY DEF EndWindow, Windowed
<1>2. CASE LaneEnds(m)
  BY <1>1, <1>2, LaneEndKeeps
<1>3. CASE lane' = [lane EXCEPT ![m].pc = "derive"]
  <2> DEFINE L == [lane[m] EXCEPT !.pc = "derive"]
  <2>1. L \in LaneRec
    <3>1. lane[m] \in LaneRec /\ "derive" \in LanePcs
      BY DEF SyncIInv, Typed, LanePcs
    <3> QED
      BY <3>1 DEF LaneRec
  <2>2. lane' = [lane EXCEPT ![m] = L]
    BY <1>3 DEF SyncIInv, Typed
  <2> HIDE DEF L
  <2> QED
    BY <1>1, <2>1, <2>2, RawKept, OtherLane
<1> QED
  BY <1>2, <1>3 DEF EndWindow

-----------------------------------------------------------------------------
(* The cursor moves.                                                       *)

LEMMA FinishKeeps ==
  ASSUME SyncIInv, Finish
  PROVE  SyncIInv'
<1>1. /\ Delta.pc = "finish" /\ cursor' = [mark |-> Delta.mark, total |-> Delta.total]
      /\ lane' = [lane EXCEPT !["delta"] = AtRest] /\ UNCHANGED <<onkey, raw, floor>>
  BY DEF Finish, LaneEnds, Delta
<1>2. Delta' = AtRest /\ lane' \in [Lanes -> LaneRec]
  BY <1>1, LaneSet, RestType, DeltaFacts DEF Delta
<1>3. Delta.mark \in Int /\ Delta.total \in Nat /\ Delta.since \in Int
  BY DeltaFacts DEF LaneRec
<1>4. Typed'
  BY <1>1, <1>2, <1>3 DEF SyncIInv, Typed
<1>5. /\ Delta.mark # NoMark /\ Delta.mark <= onkey.now
      /\ IF cursor.mark = NoMark THEN floor = Delta.since
                                 ELSE Delta.since = cursor.mark - Overlap
  BY <1>1 DEF SyncIInv, DeltaRun, Fetching
<1>6. cursor'.mark = Delta.mark
  BY <1>1
<1>7. Clocks'
  BY <1>1, <1>5, <1>6 DEF SyncIInv, Clocks
<1>8. DeltaRun' /\ PassedKept'
  BY <1>2, RestType DEF DeltaRun, PassedKept, Fetching
<1>9. CursorKeepsEdits'
  <2> SUFFICES ASSUME NEW o \in Orders
               PROVE  \/ Stored(o, onkey.ver[o])
                      \/ onkey.stamp[o] >= Delta.mark - Overlap
                      \/ onkey.stamp[o] < floor
                      \/ ~Shown(o)
    BY <1>1, <1>6 DEF CursorKeepsEdits, Stored, Shown
  <2>1. Kept(o)
    BY <1>1 DEF SyncIInv, PassedKept, Passed, Fetching
  <2>2. CASE onkey.stamp[o] < Delta.since
    <3>1. CASE cursor.mark = NoMark
      BY <1>5, <2>2, <3>1
    <3>2. CASE cursor.mark # NoMark
      <4>1. Delta.since = cursor.mark - Overlap
        BY <1>5, <3>2
      <4>2. ~(onkey.stamp[o] >= cursor.mark - Overlap)
        BY <1>3, <2>2, <4>1, DeltaFacts
      <4> QED
        BY <3>2, <4>2 DEF SyncIInv, CursorKeepsEdits
    <3> QED
      BY <3>1, <3>2
  <2>3. CASE ~(onkey.stamp[o] < Delta.since)
    BY <1>1, <2>1, <2>3 DEF Kept
  <2> QED
    BY <2>2, <2>3
<1> QED
  BY <1>4, <1>7, <1>8, <1>9 DEF SyncIInv

-----------------------------------------------------------------------------

LEMMA NextKeeps ==
  ASSUME SyncIInv, [SyncNext]_syncVars
  PROVE  SyncIInv'
<1>1. CASE UNCHANGED syncVars
  <2>1. Delta' = Delta
    BY <1>1 DEF syncVars, Delta
  <2> QED
    BY <1>1, <2>1, RawKept, DeltaStays, DeltaFacts
       DEF syncVars, SyncIInv, Typed, Clocks, DeltaRun, PassedKept, Passed, Kept, CursorKeepsEdits,
           Stored, Shown
<1>2. ASSUME NEW o \in Orders, EditOrder(o) PROVE SyncIInv'
  BY <1>2, EditKeeps
<1>3. ASSUME NEW e \in onkey.open, ShowEdit(e) PROVE SyncIInv'
  BY <1>3, ShowKeeps
<1>4. CASE OnKeyTick
  BY <1>4, SyncTickKeeps
<1>5. ASSUME NEW m \in Lanes, StartLane(m) PROVE SyncIInv'
  BY <1>5, StartKeeps
<1>6. ASSUME NEW m \in Lanes, LaneFails(m) PROVE SyncIInv'
  BY <1>6, LaneEndKeeps DEF LaneFails
<1>7. ASSUME NEW m \in Lanes, LaneStep(m) PROVE SyncIInv'
  BY <1>7, StoreKeeps, DeriveReadKeeps, DeriveWriteKeeps, FetchChunkKeeps, EndWindowKeeps
     DEF LaneStep, Store
<1>8. CASE Probe
  BY <1>8, ProbeKeeps
<1>9. CASE FetchPage
  BY <1>9, FetchPageKeeps
<1>10. CASE Finish
  BY <1>10, FinishKeeps
<1>11. CASE BackendRestarts
  BY <1>11, RestartKeeps
<1> QED
  BY <1>1, <1>2, <1>3, <1>4, <1>5, <1>6, <1>7, <1>8, <1>9, <1>10, <1>11 DEF SyncNext, DeltaStep

(* The delta lane's cursor loses no edit (workorders/onkey_sync.py): with  *)
(* any number of work orders and any page size, whatever other lanes run,  *)
(* fail or die, what the next run will not go back for is stored as OnKey  *)
(* shows it, or older than the first run reached.  It needs the overlap to *)
(* be as long as OnKey takes to show an edit, and nothing else.            *)
THEOREM CursorLosesNoEdit == SyncSpec => []CursorKeepsEdits
<1>1. SyncInit => SyncIInv
  BY SyncInitIInv
<1>2. SyncIInv /\ [SyncNext]_syncVars => SyncIInv'
  BY NextKeeps
<1>3. SyncIInv => CursorKeepsEdits
  BY DEF SyncIInv
<1> QED
  BY <1>1, <1>2, <1>3, PTL DEF SyncSpec
===============================================================================
