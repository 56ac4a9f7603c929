------------------------------ MODULE PhoneProofs ------------------------------
(***************************************************************************)
(* Four sides of the phone: the capture of a verification up to what the   *)
(* service makes of it (Verification), the device's enrolment under the    *)
(* accounts that sign in on it (DeviceEnrolment), the work list on its     *)
(* tabs (WorkList), and the register of a site with the outbox that keeps  *)
(* its writes (SiteRegister).                                              *)
(*                                                                         *)
(* The capture rests on one invariant, CapIInv: every copy of the form,    *)
(* stored, on the results screen, on the sign screen or sealed, has the    *)
(* plan's measures and points from the start, and no screen's edit takes   *)
(* them away.  What is queued passed the phone's own rules on some day,    *)
(* and those differ from the service's in the day alone.  It holds for any *)
(* hoses, points, readings, measures and number of days.                   *)
(*                                                                         *)
(* Trust on first use, and a certificate that stays with its officer, rest *)
(* on one invariant over the service's rows for the device, the calls it   *)
(* is at work on and the phone's certificates, EnrolIInv, for any number   *)
(* of accounts, sign-ins and calls: what a call has read is still so, or   *)
(* the call is one the history names.  The session is not part of it:      *)
(* whoever is restored, refreshed or signed out, the service looks at the  *)
(* token the upload came with.                                             *)
(*                                                                         *)
(* The list's invariant, ListIInv, says what a gate under way is owed: its *)
(* one request is made with its own officer's token and reads a list as    *)
(* new as the gate's beginning; from its answer to the gate's settling the *)
(* copy is as new, or an older answer has come and nothing is owed         *)
(* (RunsFit, GateOwes); and what Home holds in front (HomeHolds).          *)
(*                                                                         *)
(* The register's invariant, RegisterIInv, reckons record by record what   *)
(* the service will have once the kept writes are delivered (Matches),     *)
(* from the youngest of them alone and not by replaying the queue.         *)
(***************************************************************************)
EXTENDS Verification, DeviceEnrolment, WorkList, SiteRegister, FiniteSetTheorems, SequenceTheorems,
        TLAPS

(***************************************************************************)
(* The capture of a verification.                                          *)
(***************************************************************************)
Delivered == [vfd : Int, vref : Int, efd : Int, pass : BOOLEAN]
IsHose(h) ==
  /\ h \in [filled : BOOLEAN, checks : {"unset", "pass", "fail"}, burst : BOOLEAN,
            del : {h.del}, outcome : {"certified", "rejected"}]
  /\ DOMAIN h.del \subseteq Points /\ h.del \in [DOMAIN h.del -> Delivered]
IsForm(f) ==
  /\ f \in [plan : Plans \cup {"none"}, hoses : {f.hoses},
            measures : SUBSET [size : Sizes, expiry : Nat], verified : Nat,
            pliers : BOOLEAN, client : BOOLEAN, declared : BOOLEAN, rejNo : BOOLEAN]
  /\ DOMAIN f.hoses \subseteq Hoses /\ f.hoses = [x \in DOMAIN f.hoses |-> f.hoses[x]]
  /\ \A x \in DOMAIN f.hoses : IsHose(f.hoses[x])

\* A form that names its plan was started with the plan's measures and has its points.
OnPlan(plan, h) ==
  /\ DOMAIN h.del = PointsOf(plan)
  /\ \A p \in PointsOf(plan) : h.del[p].vfd = Nominal(plan, p)
Founded(f) ==
  f.plan \in Plans =>
    /\ {m.size : m \in f.measures} = RequiredMeasures[f.plan]
    /\ \A x \in DOMAIN f.hoses : OnPlan(f.plan, f.hoses[x])
Good(f, day) == IsForm(f) /\ f.verified <= day /\ Founded(f)

\* Records in fields nobody else writes; what is left open is said by FormsGood.
ScreensTyped ==
  /\ today \in Nat
  /\ profile \in [measures : [Sizes -> Nat], pliers : BOOLEAN]
  /\ row = [state |-> row.state, form |-> row.form]
  /\ row.state \in {"none", "DRAFT", "QUEUED", "SIGNED"}
  /\ register # None =>
       /\ register = [plan |-> register.plan, qMax |-> register.qMax, asking |-> register.asking]
       /\ register.plan \in Plans
  /\ results # None =>
       results = [form |-> results.form, saving |-> results.saving]
  /\ sign \notin {None, Opening} =>
       sign \in [form : {sign.form}, declared : BOOLEAN, client : BOOLEAN]
FormsGood ==
  /\ row.state # "none" => Good(row.form, today)
  /\ results # None => row.state = "DRAFT" /\ Good(results.form, today)
  /\ sign # None => row.state = "DRAFT"
  /\ sign \notin {None, Opening} => Good(sign.form, today)
\* The gate is not read again after the question, and need not be: measures do not go away.
AskedWithMeasures ==
  register # None /\ register.asking =>
    \A s \in RequiredMeasures[register.plan] : profile.measures[s] # 0
\* Days may have passed since.
QueuedWasReady ==
  row.state = "QUEUED" => \E day \in Nat : day <= today /\ ValidateReadyToSign(row.form, day)
SealedIsFinal ==
  /\ row.state = "SIGNED" => issued.form = row.form
  /\ issued # None => row.state = "SIGNED"
  /\ rejection # None => row.state = "SIGNED"
CapIInv ==
  /\ ScreensTyped /\ FormsGood /\ AskedWithMeasures /\ QueuedWasReady /\ SealedIsFinal
  /\ SealedIsComplete /\ RejectionHasReasons

-----------------------------------------------------------------------------
(* Deliveries, hoses and forms.                                            *)
LEMMA EfdInt ==
  ASSUME NEW vfd \in Int, NEW vref \in Int, vref > 0
  PROVE  Efd(vfd, vref) \in Int
<1>1. \A a, b \in Int : b > 0 => a \div b \in Int
  OBVIOUS
<1>2. /\ 2 * ((vfd - vref) * 10000) + vref \in Int
      /\ 2 * vref \in Int /\ 2 * vref > 0
  OBVIOUS
<1> QED
  BY <1>1, <1>2 DEF Efd, RoundHalfUp

LEMMA DeliveryRead ==
  ASSUME NEW vfd \in Int, NEW vref \in Int
  PROVE  Delivery(vfd, vref) \in Delivered /\ Delivery(vfd, vref).vfd = vfd
<1>1. (IF vref > 0 THEN Efd(vfd, vref) ELSE 0) \in Int
  BY EfdInt
<1>2. (vref > 0 /\ Within(Efd(vfd, vref))) \in BOOLEAN
  BY DEF Within
<1> QED
  BY <1>1, <1>2 DEF Delivery, Delivered

LEMMA ReadingInt ==
  ASSUME NEW vfd \in Int, NEW slip \in Int
  PROVE  Reading(vfd, slip) \in Int
<1>1. \A a \in Int : a \div 20000 \in Int
  OBVIOUS
<1>2. vfd * slip \in Int
  OBVIOUS
<1> QED
  BY <1>1, <1>2 DEF Reading

LEMMA NominalInt == ASSUME NEW plan, NEW p PROVE Nominal(plan, p) \in Int
BY DEF Nominal

LEMMA BlankHose ==
  ASSUME NEW plan
  PROVE  IsHose(Blank(plan)) /\ OnPlan(plan, Blank(plan))
<1> DEFINE d == [p \in PointsOf(plan) |-> Delivery(Nominal(plan, p), 0)]
<1>1. \A p \in PointsOf(plan) :
        Delivery(Nominal(plan, p), 0) \in Delivered /\ Delivery(Nominal(plan, p), 0).vfd = Nominal(plan, p)
  BY NominalInt, DeliveryRead
<1>2. /\ DOMAIN d = PointsOf(plan) /\ d \in [DOMAIN d -> Delivered]
      /\ \A p \in PointsOf(plan) : d[p].vfd = Nominal(plan, p)
  BY <1>1
<1>3. Blank(plan) = [filled |-> FALSE, checks |-> "unset", burst |-> FALSE, del |-> d,
                     outcome |-> "certified"]
  BY DEF Blank
<1>4. PointsOf(plan) \subseteq Points
  BY DEF PointsOf
<1> HIDE DEF d
<1> QED
  BY <1>2, <1>3, <1>4 DEF IsHose, OnPlan

LEMMA LegacyHose == IsHose(Legacy)
<1> DEFINE d == [p \in PointsOf("std") |-> Delivery(20000, 0)]
<1>1. DOMAIN d = PointsOf("std") /\ d \in [DOMAIN d -> Delivered]
  BY DeliveryRead
<1>2. /\ [Blank("std") EXCEPT !.del = d].del = d
      /\ [Blank("std") EXCEPT !.del = d] \in
           [filled : BOOLEAN, checks : {"unset", "pass", "fail"}, burst : BOOLEAN, del : {d},
            outcome : {"certified", "rejected"}]
  <2>1. /\ Blank("std") \in
             [filled : BOOLEAN, checks : {"unset", "pass", "fail"}, burst : BOOLEAN,
              del : {Blank("std").del}, outcome : {"certified", "rejected"}]
    BY DEF Blank
  <2> HIDE DEF d
  <2> QED
    BY <2>1
<1>3. PointsOf("std") \subseteq Points
  BY DEF PointsOf
<1>4. Legacy = [Blank("std") EXCEPT !.del = d]
  BY DEF Legacy
<1> HIDE DEF d
<1> QED
  BY <1>1, <1>2, <1>3, <1>4 DEF IsHose

(* A table of hoses changed hose by hose stays good.                       *)
LEMMA HosesChanged ==
  ASSUME NEW f, NEW day, Good(f, day), NEW t,
         DOMAIN t \subseteq DOMAIN f.hoses, t = [x \in DOMAIN t |-> t[x]],
         \A x \in DOMAIN t : IsHose(t[x]) /\ (f.plan \in Plans => OnPlan(f.plan, t[x]))
  PROVE  Good([f EXCEPT !.hoses = t], day)
<1> DEFINE g == [f EXCEPT !.hoses = t]
<1>1. /\ g.plan = f.plan /\ g.hoses = t /\ g.measures = f.measures /\ g.verified = f.verified
      /\ g \in [plan : Plans \cup {"none"}, hoses : {t},
                measures : SUBSET [size : Sizes, expiry : Nat], verified : Nat,
                pliers : BOOLEAN, client : BOOLEAN, declared : BOOLEAN, rejNo : BOOLEAN]
  BY DEF Good, IsForm
<1> HIDE DEF g
<1>2. IsForm(g)
  BY <1>1 DEF Good, IsForm
<1>3. Founded(g)
  BY <1>1 DEF Good, Founded
<1> QED
  BY <1>1, <1>2, <1>3 DEF Good, g

LEMMA GoodHose ==
  ASSUME NEW f, NEW day, Good(f, day), NEW x \in DOMAIN f.hoses
  PROVE  IsHose(f.hoses[x]) /\ (f.plan \in Plans => OnPlan(f.plan, f.hoses[x]))
BY DEF Good, IsForm, Founded

LEMMA OutcomesGood ==
  ASSUME NEW f, NEW day, Good(f, day)
  PROVE  Good(WithOutcomes(f), day)
<1> DEFINE outcome(h) == IF AnyFail(h) THEN "rejected" ELSE "certified"
           t == [x \in DOMAIN f.hoses |-> [f.hoses[x] EXCEPT !.outcome = outcome(f.hoses[x])]]
<1>1. ASSUME NEW h, IsHose(h), NEW o \in {"certified", "rejected"}
      PROVE  IsHose([h EXCEPT !.outcome = o]) /\ [h EXCEPT !.outcome = o].del = h.del
  BY <1>1 DEF IsHose
<1>2. \A x \in DOMAIN f.hoses : t[x] = [f.hoses[x] EXCEPT !.outcome = outcome(f.hoses[x])]
  OBVIOUS
<1>3. \A h : outcome(h) \in {"certified", "rejected"}
  OBVIOUS
<1>4. DOMAIN t = DOMAIN f.hoses /\ t = [x \in DOMAIN t |-> t[x]]
  OBVIOUS
<1>5. WithOutcomes(f) = [f EXCEPT !.hoses = t]
  BY DEF WithOutcomes
<1> HIDE DEF t, outcome
<1>6. \A x \in DOMAIN t : IsHose(t[x]) /\ (f.plan \in Plans => OnPlan(f.plan, t[x]))
  <2> TAKE x \in DOMAIN t
  <2>1. IsHose(f.hoses[x]) /\ (f.plan \in Plans => OnPlan(f.plan, f.hoses[x]))
    BY <1>4, GoodHose
  <2>2. IsHose(t[x]) /\ t[x].del = f.hoses[x].del
    <3>1. PICK o \in {"certified", "rejected"} : t[x] = [f.hoses[x] EXCEPT !.outcome = o]
      BY <1>2, <1>3, <1>4
    <3>2. /\ IsHose([f.hoses[x] EXCEPT !.outcome = o])
          /\ [f.hoses[x] EXCEPT !.outcome = o].del = f.hoses[x].del
      BY <1>1, <2>1
    <3> QED
      BY <3>1, <3>2
  <2> QED
    BY <2>1, <2>2 DEF OnPlan
<1> QED
  BY <1>4, <1>5, <1>6, HosesChanged

LEMMA NormaliseGood ==
  ASSUME NEW f, NEW day, Good(f, day)
  PROVE  Good(Normalise(f), day)
<1> DEFINE plan == TestPlanFor(f)
           fix(p, d) == IF p \in PointsOf(plan) /\ d.vfd # Nominal(plan, p)
                        THEN Delivery(Nominal(plan, p), d.vref) ELSE d
           del(h) == [p \in DOMAIN h.del |-> fix(p, h.del[p])]
           t == [x \in DOMAIN f.hoses |-> [f.hoses[x] EXCEPT !.del = del(f.hoses[x])]]
<1>1. ASSUME NEW h, IsHose(h)
      PROVE  /\ IsHose([h EXCEPT !.del = del(h)])
             /\ (f.plan \in Plans /\ OnPlan(f.plan, h)) => OnPlan(f.plan, [h EXCEPT !.del = del(h)])
  <2>1. \A p \in DOMAIN h.del : h.del[p] \in Delivered
    BY <1>1 DEF IsHose
  <2>2. \A p \in DOMAIN h.del : fix(p, h.del[p]) \in Delivered
    BY <2>1, NominalInt, DeliveryRead DEF Delivered
  <2>3. DOMAIN del(h) = DOMAIN h.del /\ del(h) \in [DOMAIN h.del -> Delivered]
    BY <2>2
  <2>4. f.plan \in Plans /\ OnPlan(f.plan, h) =>
          \A p \in PointsOf(f.plan) : del(h)[p].vfd = Nominal(f.plan, p)
    BY DEF OnPlan, TestPlanFor
  <2>5. \A e : LET g == [h EXCEPT !.del = e] IN
          /\ g.del = e
          /\ g \in [filled : BOOLEAN, checks : {"unset", "pass", "fail"}, burst : BOOLEAN,
                    del : {e}, outcome : {"certified", "rejected"}]
    BY <1>1 DEF IsHose
  <2> HIDE DEF del
  <2> QED
    BY <1>1, <2>3, <2>4, <2>5 DEF IsHose, OnPlan
<1>2. \A x \in DOMAIN f.hoses : t[x] = [f.hoses[x] EXCEPT !.del = del(f.hoses[x])]
  OBVIOUS
<1>3. DOMAIN t = DOMAIN f.hoses /\ t = [x \in DOMAIN t |-> t[x]]
  OBVIOUS
<1>4. Normalise(f) = [f EXCEPT !.hoses = t]
  BY DEF Normalise
<1> HIDE DEF t, del
<1>5. \A x \in DOMAIN t : IsHose(t[x]) /\ (f.plan \in Plans => OnPlan(f.plan, t[x]))
  BY <1>1, <1>2, <1>3, GoodHose
<1> QED
  BY <1>3, <1>4, <1>5, HosesChanged

LEMMA SignedFormGood ==
  ASSUME NEW f, NEW day, Good(f, day), NEW pliers \in BOOLEAN, NEW client \in BOOLEAN,
         NEW declared \in BOOLEAN, NEW rejNo \in BOOLEAN
  PROVE  Good([f EXCEPT !.pliers = pliers, !.client = client, !.declared = declared,
                        !.rejNo = rejNo], day)
<1> DEFINE g == [f EXCEPT !.pliers = pliers, !.client = client, !.declared = declared,
                          !.rejNo = rejNo]
<1>1. /\ g.plan = f.plan /\ g.hoses = f.hoses /\ g.measures = f.measures
      /\ g.verified = f.verified
      /\ g \in [plan : Plans \cup {"none"}, hoses : {f.hoses},
                measures : SUBSET [size : Sizes, expiry : Nat], verified : Nat,
                pliers : BOOLEAN, client : BOOLEAN, declared : BOOLEAN, rejNo : BOOLEAN]
  BY DEF Good, IsForm
<1> HIDE DEF g
<1>2. IsForm(g)
  BY <1>1 DEF Good, IsForm
<1> QED
  BY <1>1, <1>2 DEF Good, Founded, g

LEMMA GoodLater ==
  ASSUME NEW f, NEW day \in Nat, NEW later \in Nat, day <= later, Good(f, day)
  PROVE  Good(f, later)
BY DEF Good, IsForm

-----------------------------------------------------------------------------
LEMMA MeasuresComplete ==
  ASSUME ScreensTyped, NEW plan \in Plans,
         \A s \in RequiredMeasures[plan] : profile.measures[s] # 0
  PROVE  {m.size : m \in MeasuresFor(plan)} = RequiredMeasures[plan]
<1>1. MeasuresFor(plan) =
        {[size |-> s, expiry |-> profile.measures[s]] : s \in RequiredMeasures[plan]}
  BY DEF MeasuresFor
<1>2. ASSUME NEW s \in RequiredMeasures[plan]
      PROVE  s \in {m.size : m \in MeasuresFor(plan)}
  <2>1. [size |-> s, expiry |-> profile.measures[s]] \in MeasuresFor(plan)
    BY <1>1
  <2> QED
    BY <2>1
<1> QED
  BY <1>1, <1>2

LEMMA MeasuresTyped ==
  ASSUME ScreensTyped, NEW plan \in Plans
  PROVE  MeasuresFor(plan) \subseteq [size : Sizes, expiry : Nat]
<1>1. RequiredMeasures[plan] \subseteq Sizes
  BY DEF RequiredMeasures, Sizes, Plans
<1> QED
  BY <1>1 DEF MeasuresFor, ScreensTyped

(* A new draft, from the app before the registry or from the register.     *)
LEMMA NewFormIs ==
  ASSUME ScreensTyped, NEW plan \in Plans \cup {"none"}, NEW t,
         DOMAIN t \subseteq Hoses, t = [x \in DOMAIN t |-> t[x]],
         \A x \in DOMAIN t : IsHose(t[x]),
         NEW measures \in SUBSET [size : Sizes, expiry : Nat]
  PROVE  /\ IsForm(NewForm(plan, t, measures))
         /\ NewForm(plan, t, measures).plan = plan
         /\ NewForm(plan, t, measures).hoses = t
         /\ NewForm(plan, t, measures).measures = measures
         /\ NewForm(plan, t, measures).verified = today
BY DEF IsForm, NewForm, ScreensTyped

LEMMA NewFormGood ==
  ASSUME ScreensTyped, NEW plan \in Plans, NEW chosen \in SUBSET Hoses,
         \A s \in RequiredMeasures[plan] : profile.measures[s] # 0
  PROVE  Good(NewForm(plan, [x \in chosen |-> Blank(plan)], MeasuresFor(plan)), today)
<1> DEFINE t == [x \in chosen |-> Blank(plan)]
           f == NewForm(plan, t, MeasuresFor(plan))
<1>1. /\ DOMAIN t = chosen /\ t = [x \in DOMAIN t |-> t[x]]
      /\ \A x \in DOMAIN t : IsHose(t[x]) /\ OnPlan(plan, t[x])
  BY BlankHose
<1>2. MeasuresFor(plan) \in SUBSET [size : Sizes, expiry : Nat]
  BY MeasuresTyped
<1> HIDE DEF t
<1>3. /\ IsForm(f) /\ f.plan = plan /\ f.hoses = t /\ f.measures = MeasuresFor(plan)
      /\ f.verified = today
  BY <1>1, <1>2, NewFormIs
<1>4. {m.size : m \in f.measures} = RequiredMeasures[f.plan]
  BY <1>3, MeasuresComplete
<1> HIDE DEF f
<1>5. Good(f, today)
  BY <1>1, <1>3, <1>4 DEF Good, Founded, ScreensTyped
<1> QED
  BY <1>5 DEF f, t

LEMMA InitCap == CaptureInit => CapIInv
<1> SUFFICES ASSUME CaptureInit PROVE CapIInv
  OBVIOUS
<1>1. ScreensTyped
  BY CaptureAssumption DEF CaptureInit, ScreensTyped, Sizes
<1>2. row.state # "none" => Good(row.form, today)
  <2> SUFFICES ASSUME row.state # "none" PROVE Good(row.form, today)
    OBVIOUS
  <2> DEFINE t == [x \in Hoses |-> Legacy]
  <2>1. row.form = NewForm("none", t, MeasuresFor("std"))
    BY DEF CaptureInit
  <2>2. DOMAIN t = Hoses /\ t = [x \in DOMAIN t |-> t[x]] /\ \A x \in DOMAIN t : IsHose(t[x])
    BY LegacyHose
  <2> HIDE DEF t
  <2>3. MeasuresFor("std") \in SUBSET [size : Sizes, expiry : Nat]
    BY <1>1, MeasuresTyped DEF Plans
  <2>4. /\ IsForm(row.form) /\ row.form.plan = "none" /\ row.form.verified = today
    BY <1>1, <2>1, <2>2, <2>3, NewFormIs
  <2> QED
    BY <1>1, <2>4 DEF Good, Founded, Plans, ScreensTyped
<1> QED
  BY <1>1, <1>2 DEF CaptureInit, CapIInv, FormsGood, AskedWithMeasures, QueuedWasReady,
     SealedIsFinal, SealedIsComplete, RejectionHasReasons

-----------------------------------------------------------------------------
(* What the later steps look at is left alone by the earlier ones.         *)
LEMMA Untouched ==
  ASSUME CapIInv, row' = row, issued' = issued, rejection' = rejection,
         today' \in Nat, today <= today'
  PROVE  /\ QueuedWasReady' /\ SealedIsFinal' /\ SealedIsComplete' /\ RejectionHasReasons'
         /\ row.state # "none" => Good(row'.form, today')
<1>1. today \in Nat
  BY DEF CapIInv, ScreensTyped
<1>2. QueuedWasReady'
  BY <1>1 DEF CapIInv, QueuedWasReady
<1>3. SealedIsFinal'
  BY DEF CapIInv, SealedIsFinal
<1>4. SealedIsComplete' /\ RejectionHasReasons'
  BY DEF CapIInv, SealedIsComplete, RejectionHasReasons
<1>5. row.state # "none" => Good(row'.form, today')
  BY <1>1, GoodLater DEF CapIInv, FormsGood
<1> QED
  BY <1>2, <1>3, <1>4, <1>5

(* A draft being edited: nothing is sealed yet.                            *)
LEMMA Drafting ==
  ASSUME CapIInv, row'.state = "DRAFT", row.state \in {"none", "DRAFT"},
         issued' = issued, rejection' = rejection
  PROVE  QueuedWasReady' /\ SealedIsFinal' /\ SealedIsComplete' /\ RejectionHasReasons'
BY DEF CapIInv, QueuedWasReady, SealedIsFinal, SealedIsComplete, RejectionHasReasons

LEMMA CapParts ==
  CapIInv' <=> /\ ScreensTyped' /\ FormsGood' /\ AskedWithMeasures' /\ QueuedWasReady'
               /\ SealedIsFinal' /\ SealedIsComplete' /\ RejectionHasReasons'
BY DEF CapIInv

(* Days and the profile.                                                   *)
LEMMA DayKeeps == ASSUME CapIInv, DayPasses PROVE CapIInv'
<1>1. /\ today \in Nat /\ today' = today + 1 /\ MaxDay \in Nat
      /\ UNCHANGED <<profile, register, row, results, sign, issued, rejection>>
  BY CaptureAssumption DEF CapIInv, ScreensTyped, DayPasses
<1>2. /\ today' \in Nat /\ today <= today'
  BY <1>1
<1>3. ScreensTyped' /\ AskedWithMeasures'
  BY <1>1, <1>2 DEF CapIInv, ScreensTyped, AskedWithMeasures
<1>4. FormsGood'
  BY <1>1, <1>2, Untouched, GoodLater DEF CapIInv, FormsGood
<1> QED
  BY <1>1, <1>2, <1>3, <1>4, Untouched, CapParts

LEMMA ProfileKeeps == ASSUME CapIInv, AddMeasure \/ AddPliers PROVE CapIInv'
<1>1. /\ profile' \in [measures : [Sizes -> Nat], pliers : BOOLEAN]
      /\ \A s \in Sizes : profile.measures[s] # 0 => profile'.measures[s] # 0
  <2>1. CASE AddMeasure
    BY <2>1, CaptureAssumption DEF AddMeasure, CapIInv, ScreensTyped
  <2>2. CASE AddPliers
    BY <2>2 DEF AddPliers, CapIInv, ScreensTyped
  <2> QED
    BY <2>1, <2>2
<1>2. UNCHANGED <<today, register, row, results, sign, issued, rejection>>
  BY DEF AddMeasure, AddPliers
<1>3. ScreensTyped'
  BY <1>1, <1>2 DEF CapIInv, ScreensTyped
<1>4. \A plan \in Plans : RequiredMeasures[plan] \subseteq Sizes
  BY DEF RequiredMeasures, Plans, Sizes
<1>5. AskedWithMeasures'
  BY <1>1, <1>2, <1>4 DEF CapIInv, ScreensTyped, AskedWithMeasures
<1>6. FormsGood'
  BY <1>2 DEF CapIInv, FormsGood
<1> QED
  BY <1>2, <1>3, <1>5, <1>6, Untouched, CapParts DEF ScreensTyped

(* The detail and the register screen.                                     *)
LEMMA PlanForPlans == ASSUME NEW d PROVE PlanFor(d) \in Plans
BY DEF PlanFor, Plans

LEMMA OpeningKeeps ==
  ASSUME CapIInv, SaveIdentity \/ OpenRegisterDirectly \/ RefreshDetail \/ LeaveRegister
  PROVE  CapIInv'
<1>1. UNCHANGED <<today, profile, row, results, sign, issued, rejection>>
  BY DEF SaveIdentity, OpenRegisterDirectly, RefreshDetail, LeaveRegister
<1>2. \/ register' = register
      \/ register' = None
      \/ \E d, q : register' = [plan |-> PlanFor(d), qMax |-> q, asking |-> FALSE]
  BY DEF SaveIdentity, OpenRegisterDirectly, RefreshDetail, LeaveRegister, OpenRegister
<1>3. ScreensTyped'
  BY <1>1, <1>2, PlanForPlans DEF CapIInv, ScreensTyped
<1>4. AskedWithMeasures'
  BY <1>1, <1>2 DEF CapIInv, AskedWithMeasures
<1>5. FormsGood'
  BY <1>1 DEF CapIInv, FormsGood
<1> QED
  BY <1>1, <1>3, <1>4, <1>5, Untouched, CapParts DEF ScreensTyped

LEMMA StartKeeps ==
  ASSUME CapIInv, register # None, row.state = "none", ReallyStart,
         \A s \in RequiredMeasures[register.plan] : profile.measures[s] # 0,
         UNCHANGED <<today, profile, sign, issued, rejection>>
  PROVE  CapIInv'
<1> DEFINE plan == register.plan
<1>1. /\ plan \in Plans /\ today \in Nat /\ ScreensTyped
  BY DEF CapIInv, ScreensTyped
<1>2. PICK chosen \in SUBSET Hoses :
        LET f == NewForm(plan, [x \in chosen |-> Blank(plan)], MeasuresFor(plan)) IN
        /\ row' = [state |-> "DRAFT", form |-> f]
        /\ results' = [form |-> Normalise(row'.form), saving |-> TRUE]
        /\ register' = None
  BY DEF ReallyStart, Selections
<1> DEFINE f == NewForm(plan, [x \in chosen |-> Blank(plan)], MeasuresFor(plan))
<1>3. Good(f, today)
  BY <1>1, NewFormGood
<1> HIDE DEF f
<1>4. /\ row' = [state |-> "DRAFT", form |-> f]
      /\ results' = [form |-> Normalise(f), saving |-> TRUE]
      /\ register' = None
  BY <1>2 DEF f
<1>5. Good(Normalise(f), today)
  BY <1>3, NormaliseGood
<1>6. sign = None
  BY DEF CapIInv, FormsGood
<1>7. ScreensTyped'
  BY <1>4, <1>6 DEF CapIInv, ScreensTyped
<1>8. FormsGood'
  BY <1>3, <1>4, <1>5, <1>6 DEF FormsGood
<1>9. AskedWithMeasures'
  BY <1>4 DEF AskedWithMeasures
<1> QED
  BY <1>4, <1>7, <1>8, <1>9, Drafting, CapParts

LEMMA RegisterKeeps == ASSUME CapIInv, SaveAndStart \/ StartAnyway PROVE CapIInv'
<1>1. CASE SaveAndStart
  <2>1. /\ register # None /\ row.state = "none"
        /\ \A s \in RequiredMeasures[register.plan] : profile.measures[s] # 0
        /\ UNCHANGED <<today, profile, sign, issued, rejection>>
    BY <1>1 DEF SaveAndStart, GateOpen
  <2>2. CASE ReallyStart
    BY <2>1, <2>2, StartKeeps
  <2>3. CASE register' = [register EXCEPT !.asking = TRUE] /\ UNCHANGED <<row, results>>
    <3>1. register' = [plan |-> register.plan, qMax |-> register.qMax, asking |-> TRUE]
      BY <2>1, <2>3 DEF CapIInv, ScreensTyped
    <3>2. ScreensTyped' /\ AskedWithMeasures'
      BY <2>1, <2>3, <3>1 DEF CapIInv, ScreensTyped, AskedWithMeasures
    <3>3. FormsGood'
      BY <2>1, <2>3 DEF CapIInv, FormsGood
    <3> QED
      BY <2>1, <2>3, <3>2, <3>3, Untouched, CapParts DEF CapIInv, ScreensTyped
  <2> QED
    BY <1>1, <2>2, <2>3 DEF SaveAndStart
<1>2. CASE StartAnyway
  BY <1>2, StartKeeps DEF StartAnyway, CapIInv, AskedWithMeasures
<1> QED
  BY <1>1, <1>2

(* The results screen.                                                     *)
LEMMA HoseChanged ==
  ASSUME NEW f, NEW day, Good(f, day), NEW x \in DOMAIN f.hoses, NEW h,
         IsHose(h), h.del = f.hoses[x].del
  PROVE  Good([f EXCEPT !.hoses = [f.hoses EXCEPT ![x] = h]], day)
<1> DEFINE t == [f.hoses EXCEPT ![x] = h]
<1>1. \A y \in DOMAIN f.hoses :
        IsHose(f.hoses[y]) /\ (f.plan \in Plans => OnPlan(f.plan, f.hoses[y]))
  BY GoodHose
<1>2. f.hoses = [y \in DOMAIN f.hoses |-> f.hoses[y]]
  BY DEF Good, IsForm
<1>3. /\ DOMAIN t = DOMAIN f.hoses /\ t = [y \in DOMAIN t |-> t[y]]
      /\ t[x] = h /\ \A y \in DOMAIN t : y # x => t[y] = f.hoses[y]
  BY <1>2
<1> HIDE DEF t
<1>4. \A y \in DOMAIN t : IsHose(t[y]) /\ (f.plan \in Plans => OnPlan(f.plan, t[y]))
  BY <1>1, <1>3 DEF OnPlan
<1>5. Good([f EXCEPT !.hoses = t], day)
  BY <1>3, <1>4, HosesChanged
<1> QED
  BY <1>5 DEF t

LEMMA HoseEntered ==
  ASSUME NEW f, NEW day, Good(f, day), NEW x \in DOMAIN f.hoses,
         NEW c \in {"pass", "fail"}, NEW b \in BOOLEAN
  PROVE  Good([f EXCEPT !.hoses[x].filled = TRUE, !.hoses[x].checks = c, !.hoses[x].burst = b],
              day)
<1> DEFINE g1 == [f EXCEPT !.hoses[x].filled = TRUE]
           g2 == [g1 EXCEPT !.hoses[x].checks = c]
           g3 == [g2 EXCEPT !.hoses[x].burst = b]
<1>1. /\ g1 = [f EXCEPT !.hoses = [f.hoses EXCEPT ![x] = [f.hoses[x] EXCEPT !.filled = TRUE]]]
      /\ g2 = [g1 EXCEPT !.hoses = [g1.hoses EXCEPT ![x] = [g1.hoses[x] EXCEPT !.checks = c]]]
      /\ g3 = [g2 EXCEPT !.hoses = [g2.hoses EXCEPT ![x] = [g2.hoses[x] EXCEPT !.burst = b]]]
  OBVIOUS
<1>2. g3 = [f EXCEPT !.hoses[x].filled = TRUE, !.hoses[x].checks = c, !.hoses[x].burst = b]
  OBVIOUS
<1>3. ASSUME NEW h, IsHose(h)
      PROVE  /\ IsHose([h EXCEPT !.filled = TRUE]) /\ [h EXCEPT !.filled = TRUE].del = h.del
             /\ IsHose([h EXCEPT !.checks = c]) /\ [h EXCEPT !.checks = c].del = h.del
             /\ IsHose([h EXCEPT !.burst = b]) /\ [h EXCEPT !.burst = b].del = h.del
  BY <1>3 DEF IsHose
<1>4. ASSUME NEW g, Good(g, day), NEW t, DOMAIN t = DOMAIN g.hoses
      PROVE  DOMAIN [g EXCEPT !.hoses = t].hoses = DOMAIN g.hoses
  BY <1>4 DEF Good, IsForm
<1> HIDE DEF g1, g2, g3
<1>5. Good(g1, day) /\ x \in DOMAIN g1.hoses
  <2>1. IsHose(f.hoses[x])
    BY GoodHose
  <2>2. /\ IsHose([f.hoses[x] EXCEPT !.filled = TRUE])
        /\ [f.hoses[x] EXCEPT !.filled = TRUE].del = f.hoses[x].del
    BY <1>3, <2>1
  <2>3. Good(g1, day)
    BY <1>1, <2>2, HoseChanged
  <2> QED
    BY <1>1, <1>4, <2>3
<1>6. Good(g2, day) /\ x \in DOMAIN g2.hoses
  <2>1. IsHose(g1.hoses[x])
    BY <1>5, GoodHose
  <2>2. /\ IsHose([g1.hoses[x] EXCEPT !.checks = c])
        /\ [g1.hoses[x] EXCEPT !.checks = c].del = g1.hoses[x].del
    BY <1>3, <2>1
  <2>3. Good(g2, day)
    BY <1>1, <1>5, <2>2, HoseChanged
  <2> QED
    BY <1>1, <1>4, <1>5, <2>3
<1>7. Good(g3, day)
  <2>1. IsHose(g2.hoses[x])
    BY <1>6, GoodHose
  <2>2. /\ IsHose([g2.hoses[x] EXCEPT !.burst = b])
        /\ [g2.hoses[x] EXCEPT !.burst = b].del = g2.hoses[x].del
    BY <1>3, <2>1
  <2> QED
    BY <1>1, <1>6, <2>2, HoseChanged
<1> QED
  BY <1>2, <1>7

LEMMA DeliveryEntered ==
  ASSUME NEW f, NEW day, Good(f, day), NEW x \in DOMAIN f.hoses,
         NEW p \in DOMAIN f.hoses[x].del, NEW s \in Slips
  PROVE  LET vfd == f.hoses[x].del[p].vfd IN
         Good([f EXCEPT !.hoses[x].del[p] = Delivery(vfd, Reading(vfd, s))], day)
<1> DEFINE h   == f.hoses[x]
           vfd == h.del[p].vfd
           d   == Delivery(vfd, Reading(vfd, s))
           k   == [h EXCEPT !.del = [h.del EXCEPT ![p] = d]]
           t   == [f.hoses EXCEPT ![x] = k]
<1>1. IsHose(h) /\ (f.plan \in Plans => OnPlan(f.plan, h))
  BY GoodHose
<1>2. vfd \in Int /\ s \in Int
  BY <1>1, CaptureAssumption DEF IsHose, Delivered
<1>3. d \in Delivered /\ d.vfd = vfd
  BY <1>2, ReadingInt, DeliveryRead
<1>4. [f EXCEPT !.hoses[x].del[p] = d] = [f EXCEPT !.hoses = t]
  OBVIOUS
<1> HIDE DEF d
<1>5. /\ IsHose(k) /\ DOMAIN k.del = DOMAIN h.del
      /\ \A q \in DOMAIN h.del : k.del[q].vfd = h.del[q].vfd
  <2> DEFINE e == [h.del EXCEPT ![p] = d]
  <2>1. /\ DOMAIN e = DOMAIN h.del /\ e \in [DOMAIN h.del -> Delivered]
        /\ \A q \in DOMAIN h.del : e[q].vfd = h.del[q].vfd
    BY <1>1, <1>3 DEF IsHose
  <2> HIDE DEF e, h
  <2>2. k = [h EXCEPT !.del = e]
    BY DEF e
  <2> HIDE DEF k
  <2>3. /\ k.del = e
        /\ k \in [filled : BOOLEAN, checks : {"unset", "pass", "fail"}, burst : BOOLEAN,
                  del : {e}, outcome : {"certified", "rejected"}]
    BY <1>1, <2>2 DEF IsHose
  <2> QED
    BY <1>1, <2>1, <2>3 DEF IsHose
<1> HIDE DEF k
<1>6. f.plan \in Plans => OnPlan(f.plan, k)
  BY <1>1, <1>5 DEF OnPlan
<1>7. f.hoses = [y \in DOMAIN f.hoses |-> f.hoses[y]]
  BY DEF Good, IsForm
<1>8. /\ DOMAIN t = DOMAIN f.hoses /\ t = [y \in DOMAIN t |-> t[y]]
      /\ t[x] = k /\ \A y \in DOMAIN t : y # x => t[y] = f.hoses[y]
  BY <1>7
<1> HIDE DEF t, h
<1>9. \A y \in DOMAIN t : IsHose(t[y]) /\ (f.plan \in Plans => OnPlan(f.plan, t[y]))
  BY <1>5, <1>6, <1>8, GoodHose
<1>10. Good([f EXCEPT !.hoses = t], day)
  BY <1>8, <1>9, HosesChanged
<1> QED
  BY <1>4, <1>10 DEF h, d

(* A screen of the draft's that takes a good form.                         *)
LEMMA EditKeeps ==
  ASSUME CapIInv, row.state = "DRAFT", NEW f, NEW saving, Good(f, today),
         results' = [form |-> f, saving |-> saving],
         UNCHANGED <<today, profile, register, row, sign, issued, rejection>>
  PROVE  CapIInv'
<1>1. ScreensTyped' /\ AskedWithMeasures'
  BY DEF CapIInv, ScreensTyped, AskedWithMeasures
<1>2. FormsGood'
  BY DEF CapIInv, FormsGood
<1> QED
  BY <1>1, <1>2, Untouched, CapParts DEF CapIInv, ScreensTyped

LEMMA ResultsKeeps ==
  ASSUME CapIInv, ShowResults \/ EnterHose \/ EnterDelivery \/ LeaveResults
  PROVE  CapIInv'
<1>1. CASE ShowResults
  <2>1. row.state = "DRAFT" /\ Good(Normalise(row.form), today)
    BY <1>1, NormaliseGood DEF ShowResults, CapIInv, ScreensTyped, FormsGood
  <2> QED
    BY <1>1, <2>1, EditKeeps DEF ShowResults
<1>2. CASE EnterHose
  <2>1. row.state = "DRAFT" /\ Good(results.form, today)
    BY <1>2 DEF EnterHose, OnResults, CapIInv, FormsGood
  <2>2. PICK x \in DOMAIN results.form.hoses, c \in {"pass", "fail"}, b \in BOOLEAN :
          results' = [form |-> [results.form EXCEPT !.hoses[x].filled = TRUE,
                                                 !.hoses[x].checks = c, !.hoses[x].burst = b],
                      saving |-> TRUE]
    BY <1>2 DEF EnterHose
  <2>3. Good([results.form EXCEPT !.hoses[x].filled = TRUE, !.hoses[x].checks = c,
                                  !.hoses[x].burst = b], today)
    BY <2>1, HoseEntered
  <2> QED
    BY <1>2, <2>1, <2>2, <2>3, EditKeeps DEF EnterHose
<1>3. CASE EnterDelivery
  <2>1. row.state = "DRAFT" /\ Good(results.form, today)
    BY <1>3 DEF EnterDelivery, OnResults, CapIInv, FormsGood
  <2>2. PICK f : Good(f, today) /\ results' = [form |-> f, saving |-> TRUE]
    BY <1>3, <2>1, DeliveryEntered DEF EnterDelivery
  <2> QED
    BY <1>3, <2>1, <2>2, EditKeeps DEF EnterDelivery
<1>4. CASE LeaveResults
  <2>1. ScreensTyped' /\ AskedWithMeasures' /\ FormsGood'
    BY <1>4 DEF LeaveResults, CapIInv, ScreensTyped, AskedWithMeasures, FormsGood
  <2> QED
    BY <1>4, <2>1, Untouched, CapParts DEF LeaveResults, CapIInv, ScreensTyped
<1> QED
  BY <1>1, <1>2, <1>3, <1>4

LEMMA AutosaveKeeps == ASSUME CapIInv, Autosave PROVE CapIInv'
<1>1. /\ results # None /\ row.state = "DRAFT" /\ Good(results.form, today)
      /\ row' = [state |-> "DRAFT", form |-> results.form]
      /\ results' = [form |-> results.form, saving |-> FALSE]
      /\ UNCHANGED <<today, profile, register, sign, issued, rejection>>
  BY DEF Autosave, CapIInv, FormsGood, ScreensTyped
<1>2. ScreensTyped' /\ AskedWithMeasures'
  BY <1>1 DEF CapIInv, ScreensTyped, AskedWithMeasures
<1>3. FormsGood'
  BY <1>1 DEF CapIInv, FormsGood
<1> QED
  BY <1>1, <1>2, <1>3, Drafting, CapParts

LEMMA ContinueKeeps == ASSUME CapIInv, ContinueToSign PROVE CapIInv'
<1>1. /\ results # None /\ row.state = "DRAFT" /\ Good(WithOutcomes(results.form), today)
      /\ row' = [state |-> "DRAFT", form |-> WithOutcomes(results.form)]
      /\ sign' = Opening
      /\ UNCHANGED <<today, profile, register, results, issued, rejection>>
  BY OutcomesGood DEF ContinueToSign, OnResults, CapIInv, FormsGood
<1>2. ScreensTyped' /\ AskedWithMeasures'
  BY <1>1 DEF CapIInv, ScreensTyped, AskedWithMeasures
<1>3. FormsGood'
  BY <1>1 DEF CapIInv, FormsGood
<1> QED
  BY <1>1, <1>2, <1>3, Drafting, CapParts

(* The sign screen.                                                        *)
LEMMA SignScreenKeeps ==
  ASSUME CapIInv, SignOpens \/ EnterSignOff \/ BackToResults
  PROVE  CapIInv'
<1>1. UNCHANGED <<today, profile, register, row, results, issued, rejection>>
  BY DEF SignOpens, EnterSignOff, BackToResults
<1>2. \/ sign' = None
      \/ /\ row.state = "DRAFT" /\ Good(sign'.form, today)
         /\ sign' \in [form : {sign'.form}, declared : BOOLEAN, client : BOOLEAN]
  <2>1. CASE SignOpens
    <3>1. row.state = "DRAFT" /\ Good(row.form, today)
      BY <2>1, CaptureAssumption DEF SignOpens, CapIInv, FormsGood
    <3>2. row.form.client \in BOOLEAN
      BY <3>1 DEF Good, IsForm
    <3> QED
      BY <2>1, <3>1, <3>2 DEF SignOpens
  <2>2. CASE EnterSignOff
    <3>1. /\ row.state = "DRAFT" /\ Good(sign.form, today)
          /\ sign \in [form : {sign.form}, declared : BOOLEAN, client : BOOLEAN]
      BY <2>2 DEF EnterSignOff, OnSign, CapIInv, FormsGood, ScreensTyped
    <3>2. PICK d \in BOOLEAN : sign' = [sign EXCEPT !.declared = d, !.client = TRUE]
      BY <2>2 DEF EnterSignOff
    <3>3. /\ sign'.form = sign.form
          /\ sign' \in [form : {sign.form}, declared : BOOLEAN, client : BOOLEAN]
      BY <3>1, <3>2
    <3> QED
      BY <3>1, <3>3
  <2> QED
    BY <2>1, <2>2 DEF BackToResults
<1>3. ScreensTyped' /\ AskedWithMeasures'
  BY <1>1, <1>2 DEF CapIInv, ScreensTyped, AskedWithMeasures
<1>4. FormsGood'
  BY <1>1, <1>2 DEF CapIInv, FormsGood
<1> QED
  BY <1>1, <1>3, <1>4, Untouched, CapParts DEF CapIInv, ScreensTyped

LEMMA DoSignKeeps == ASSUME CapIInv, DoSign PROVE CapIInv'
<1> DEFINE f == BuildVerification
<1>1. /\ row.state = "DRAFT" /\ Good(sign.form, today) /\ today \in Nat
      /\ sign \in [form : {sign.form}, declared : BOOLEAN, client : BOOLEAN]
      /\ profile.pliers \in BOOLEAN /\ sign.form.pliers \in BOOLEAN
  BY DEF DoSign, OnSign, CapIInv, FormsGood, ScreensTyped, Good, IsForm
<1>2. Good(f, today)
  <2>1. /\ sign.declared \in BOOLEAN /\ sign.client \in BOOLEAN
        /\ (profile.pliers \/ sign.form.pliers) \in BOOLEAN
        /\ (RejectedHoses(sign.form) # {}) \in BOOLEAN
    BY <1>1
  <2> QED
    BY <1>1, <2>1, SignedFormGood DEF BuildVerification
<1> HIDE DEF f
<1>3. /\ row' = [state |-> "QUEUED", form |-> f] /\ sign' = None /\ results' = None
      /\ ValidateReadyToSign(f, today)
      /\ UNCHANGED <<today, profile, register, issued, rejection>>
  BY DEF DoSign, f
<1>4. ScreensTyped' /\ AskedWithMeasures'
  BY <1>3 DEF CapIInv, ScreensTyped, AskedWithMeasures
<1>5. FormsGood'
  BY <1>2, <1>3 DEF FormsGood
<1>6. QueuedWasReady'
  <2>1. today <= today /\ today' = today
    BY <1>1, <1>3
  <2>2. row'.form = f
    BY <1>3
  <2> QED
    BY <1>1, <1>3, <2>1, <2>2 DEF QueuedWasReady
<1>7. SealedIsFinal' /\ SealedIsComplete' /\ RejectionHasReasons'
  BY <1>1, <1>3 DEF CapIInv, SealedIsFinal, SealedIsComplete, RejectionHasReasons
<1> QED
  BY <1>4, <1>5, <1>6, <1>7, CapParts

-----------------------------------------------------------------------------
(* The service's reading of the rules.                                     *)
LEMMA PlanConsistent ==
  ASSUME NEW f, NEW day, Good(f, day)
  PROVE  ValidatePlanConsistency(f)
BY DEF Good, Founded, OnPlan, ValidatePlanConsistency, PointsOf

(* The two readings of the rules differ in the day alone.                  *)
LEMMA ReadyIsAccepted ==
  ASSUME NEW f, NEW day \in Nat, NEW later \in Nat, day <= later, Good(f, day),
         ValidateReadyToSign(f, day), ServerRefuses(f, later)
  PROVE  \E m \in f.measures : m.expiry < later
<1>1. SchemaValid(f) /\ f.declared /\ f.pliers
  BY DEF ValidateReadyToSign
<1>2. ValidatePlanConsistency(f)
  BY PlanConsistent
<1>3. f.verified \in Nat /\ \A m \in f.measures : m.expiry \in Nat
  BY DEF Good, IsForm
<1>4. ~(f.verified > later) /\ \A m \in f.measures : ~(m.expiry < f.verified)
  BY <1>3 DEF ValidateReadyToSign, InDate
<1>5. ~(~f.rejNo /\ \E x \in DOMAIN f.hoses : f.hoses[x].outcome = "rejected")
  BY DEF ValidateReadyToSign
<1>6. ASSUME NEW x \in DOMAIN f.hoses
      PROVE  /\ \A p \in DOMAIN f.hoses[x].del : DeliveryAgrees(f.hoses[x].del[p])
             /\ ~(f.hoses[x].outcome = "certified" /\ AnyFail(f.hoses[x]))
             /\ ~(f.hoses[x].outcome = "rejected" /\ ~AnyFail(f.hoses[x]))
  BY DEF ValidateReadyToSign, OutcomeAgrees
<1> QED
  BY <1>1, <1>2, <1>4, <1>5, <1>6 DEF ServerRefuses

(* What the service accepts is complete, and what it rejects has reasons.  *)
LEMMA AcceptedIsComplete ==
  ASSUME NEW f, NEW day \in Nat, Good(f, day), ~ServerRefuses(f, day)
  PROVE  /\ \A x \in RejectedHoses(f) : DeriveReasons(f.hoses[x]) # {}
         /\ f.plan \in Plans =>
              /\ {m.size : m \in f.measures} = RequiredMeasures[f.plan]
              /\ \A m \in f.measures : m.expiry >= day
              /\ DOMAIN f.hoses # {}
              /\ \A x \in DOMAIN f.hoses :
                   /\ DOMAIN f.hoses[x].del = PointsOf(f.plan)
                   /\ \A p \in PointsOf(f.plan) : f.hoses[x].del[p].vref > 0
<1>1. SchemaValid(f)
  BY DEF ServerRefuses
<1>2. \A x \in DOMAIN f.hoses : \A p \in DOMAIN f.hoses[x].del : f.hoses[x].del[p].vref > 0
  BY <1>1 DEF SchemaValid, ResultsComplete
<1>3. \A m \in f.measures : m.expiry >= day
  <2>1. \A m \in f.measures : m.expiry \in Nat /\ ~(m.expiry < day)
    BY DEF ServerRefuses, Good, IsForm
  <2> QED
    BY <2>1
<1>4. ASSUME NEW x \in RejectedHoses(f)
      PROVE  DeriveReasons(f.hoses[x]) # {}
  <2>1. x \in DOMAIN f.hoses /\ AnyFail(f.hoses[x])
    BY <1>4 DEF RejectedHoses, ServerRefuses
  <2>2. CASE f.hoses[x].checks = "fail"
    BY <2>2 DEF DeriveReasons
  <2>3. CASE \E p \in DOMAIN f.hoses[x].del : ~f.hoses[x].del[p].pass
    BY <1>2, <2>1, <2>3 DEF DeriveReasons
  <2> QED
    BY <2>1, <2>2, <2>3 DEF AnyFail
<1>5. f.plan \in Plans =>
        /\ {m.size : m \in f.measures} = RequiredMeasures[f.plan]
        /\ \A x \in DOMAIN f.hoses : DOMAIN f.hoses[x].del = PointsOf(f.plan)
  BY DEF Good, Founded, OnPlan
<1>6. DOMAIN f.hoses # {}
  BY <1>1 DEF SchemaValid
<1> QED
  BY <1>2, <1>3, <1>4, <1>5, <1>6

LEMMA JudgesKeeps == ASSUME CapIInv, ServiceJudges PROVE CapIInv'
<1>1. /\ row.state = "QUEUED" /\ Good(row.form, today) /\ today \in Nat
      /\ UNCHANGED <<today, profile, register, results, sign, rejection>>
  BY DEF ServiceJudges, CapIInv, FormsGood, ScreensTyped
<1>2. CASE UNCHANGED <<row, issued>>
  <2>1. ScreensTyped' /\ AskedWithMeasures' /\ FormsGood'
    BY <1>1, <1>2 DEF CapIInv, ScreensTyped, AskedWithMeasures, FormsGood
  <2> QED
    BY <1>1, <1>2, <2>1, Untouched, CapParts
<1>3. CASE /\ ~ServerRefuses(row.form, today)
           /\ row' = [row EXCEPT !.state = "SIGNED"]
           /\ issued' = [form |-> row.form, day |-> today]
  <2>1. row' = [state |-> "SIGNED", form |-> row.form]
    BY <1>3 DEF CapIInv, ScreensTyped
  <2>2. ScreensTyped' /\ AskedWithMeasures'
    BY <1>1, <2>1 DEF CapIInv, ScreensTyped, AskedWithMeasures
  <2>3. FormsGood'
    BY <1>1, <2>1 DEF CapIInv, FormsGood
  <2>4. QueuedWasReady' /\ SealedIsFinal'
    BY <1>1, <1>3, <2>1 DEF CapIInv, SealedIsFinal, QueuedWasReady
  <2>5. issued'.form = row.form /\ issued'.day = today
    BY <1>3
  <2>6. SealedIsComplete'
    BY <1>1, <1>3, <2>5, AcceptedIsComplete DEF SealedIsComplete
  <2>7. RejectionHasReasons'
    <3>1. rejection' = None
      BY <1>1 DEF CapIInv, SealedIsFinal
    <3>2. \A x \in RejectedHoses(issued'.form) : DeriveReasons(issued'.form.hoses[x]) # {}
      BY <1>1, <1>3, <2>5, AcceptedIsComplete
    <3> QED
      BY <3>1, <3>2 DEF RejectionHasReasons
  <2> QED
    BY <2>2, <2>3, <2>4, <2>6, <2>7, CapParts
<1> QED
  BY <1>2, <1>3 DEF ServiceJudges

LEMMA RejectionKeeps == ASSUME CapIInv, SealRejection PROVE CapIInv'
<1>1. /\ row.state = "SIGNED" /\ issued.form = row.form
      /\ UNCHANGED <<today, profile, register, row, results, sign, issued>>
      /\ DOMAIN rejection' = RejectedHoses(row.form)
  BY DEF SealRejection, CapIInv, SealedIsFinal
<1>2. ScreensTyped' /\ AskedWithMeasures' /\ FormsGood' /\ QueuedWasReady'
  BY <1>1 DEF CapIInv, ScreensTyped, AskedWithMeasures, FormsGood, QueuedWasReady
<1>3. SealedIsFinal' /\ SealedIsComplete'
  BY <1>1 DEF CapIInv, SealedIsFinal, SealedIsComplete
<1>4. RejectionHasReasons'
  BY <1>1 DEF CapIInv, RejectionHasReasons
<1> QED
  BY <1>2, <1>3, <1>4, CapParts

-----------------------------------------------------------------------------
LEMMA CaptureStep == CapIInv /\ [CaptureNext]_captureVars => CapIInv'
<1> SUFFICES ASSUME CapIInv, [CaptureNext]_captureVars PROVE CapIInv'
  OBVIOUS
<1>1. CASE UNCHANGED captureVars
  <2>1. ScreensTyped' /\ AskedWithMeasures' /\ FormsGood'
    BY <1>1 DEF captureVars, CapIInv, ScreensTyped, AskedWithMeasures, FormsGood
  <2> QED
    BY <1>1, <2>1, Untouched, CapParts DEF captureVars, CapIInv, ScreensTyped
<1> QED
  BY <1>1, DayKeeps, ProfileKeeps, OpeningKeeps, RegisterKeeps, ResultsKeeps, AutosaveKeeps,
     ContinueKeeps, SignScreenKeeps, DoSignKeeps, JudgesKeeps, RejectionKeeps DEF CaptureNext

(* Whatever screens were opened, left or saved late, a sealed certificate  *)
(* has every point of its plan read with the plan's measures in date, and  *)
(* every hose it rejects has a reason reject.tsx derives.                  *)
THEOREM SealedIsUsable == CaptureSpec => []SealedCanBeActedOn
<1>1. CapIInv => SealedCanBeActedOn
  BY DEF CapIInv, SealedCanBeActedOn
<1> QED
  BY <1>1, InitCap, CaptureStep, PTL DEF CaptureSpec

(* What validateReadyToSign lets through the service refuses only because  *)
(* a measure expired between the two.                                      *)
THEOREM ReadyMeansAccepted == CaptureSpec => RefusedOnlyForTime
<1>1. ASSUME CapIInv, [CaptureNext]_captureVars
      PROVE  verdict' = "refused" =>
               verdict = "refused" \/ \E m \in row.form.measures : m.expiry < today
  <2>1. CASE ServiceJudges
    <3> SUFFICES ASSUME verdict' = "refused"
                 PROVE  \E m \in row.form.measures : m.expiry < today
      OBVIOUS
    <3>1. row.state = "QUEUED" /\ ServerRefuses(row.form, today)
      BY <2>1 DEF ServiceJudges
    <3>2. PICK day \in Nat : day <= today /\ ValidateReadyToSign(row.form, day)
      BY <1>1, <3>1 DEF CapIInv, QueuedWasReady
    <3>3. Good(row.form, today) /\ today \in Nat
      BY <1>1, <3>1 DEF CapIInv, FormsGood, ScreensTyped
    <3>4. Good(row.form, day)
      BY <3>2, <3>3 DEF ValidateReadyToSign, Good
    <3> QED
      BY <3>1, <3>2, <3>3, <3>4, ReadyIsAccepted
  <2>2. CASE ~ServiceJudges
    <3>1. verdict' = verdict
      BY <1>1, <2>2 DEF CaptureNext, captureVars, DayPasses, AddMeasure, AddPliers, SaveIdentity,
         OpenRegisterDirectly, RefreshDetail, SaveAndStart, StartAnyway, LeaveRegister,
         ShowResults, EnterHose, EnterDelivery, Autosave, LeaveResults, ContinueToSign,
         SignOpens, EnterSignOff, BackToResults, DoSign, SealRejection
    <3> QED
      BY <3>1
  <2> QED
    BY <2>1, <2>2
<1> QED
  BY <1>1, InitCap, CaptureStep, PTL DEF CaptureSpec, RefusedOnlyForTime

-----------------------------------------------------------------------------
(***************************************************************************)
(* The device's enrolment.                                                 *)
(***************************************************************************)
Statuses  == {"none", "pending", "active", "revoked"}
DeviceRow == [status : Statuses, approved : BOOLEAN]

RowsTyped ==
  /\ device \in [Officers -> DeviceRow]
  /\ cert \in [Officers -> Certificate \cup {Nobody}]
  /\ calls \in [Calls -> Call \cup {Nobody}]
  /\ sending \in Drain
  /\ early \in [Officers -> SUBSET Calls]
  /\ session \in Officers \cup {Nobody}
  /\ secure \in Officers \cup {Nobody}
  /\ restoring \in Officers \cup {Nobody}

\* Holds the device for its account without an admin's word.
FirstUse(o) == device[o].status = "active" /\ ~device[o].approved

\* A first enrolment that was decided; one that is to claim the device; a checked upload.
Decided(c)  == calls[c] # Nobody /\ calls[c].op = "enroll" /\ calls[c].seen # "nothing"
Claims(c)   == Decided(c) /\ calls[c].seen = "active"
Checked(c)  == calls[c] # Nobody /\ calls[c].op = "sign" /\ calls[c].seen = "accepted"

CallsFit ==
  \A c \in Calls :
    /\ Decided(c) => calls[c].seen \in {"active", "pending"}
    /\ Checked(c) => calls[c].by = calls[c].on

\* Two accounts that hold the device, or are about to claim it, enrolled together.
Overlapped(o, p) == o = p \/ {o, p} \in together
OneFirstUse ==
  /\ \A o, p \in Officers : FirstUse(o) /\ FirstUse(p) => Overlapped(o, p)
  /\ \A o \in Officers, c \in Calls : FirstUse(o) /\ Claims(c) => Overlapped(o, calls[c].by)
  /\ \A c, d \in Calls : Claims(c) /\ Claims(d) => Overlapped(calls[c].by, calls[d].by)

ByItsOfficer == \A o \in Officers : cert[o] # Nobody => cert[o].by \in {Nobody, o}

\* What was checked is still good, or was revoked since.
StillGood ==
  \A c \in Calls : Checked(c) /\ Enforce =>
    device[calls[c].on].status = "active" \/ c \in early[calls[c].on]

EnrolIInv == RowsTyped /\ CallsFit /\ OneFirstUse /\ ByItsOfficer /\ StillGood

-----------------------------------------------------------------------------
LEMMA CallFields ==
  ASSUME RowsTyped, NEW c \in Calls, calls[c] # Nobody
  PROVE  /\ calls[c] \in Call /\ calls[c].by \in Officers /\ calls[c].on \in Officers
         /\ calls[c].op \in {"enroll", "sign"}
         /\ calls[c].seen \in {"nothing", "active", "pending", "accepted"}
BY DEF RowsTyped, Call

LEMMA EnrolInitKeeps == SessionInit /\ EnrolInit => EnrolIInv
BY NobodyAssumption
   DEF SessionInit, EnrolInit, NoDrain, EnrolIInv, RowsTyped, CallsFit, OneFirstUse, FirstUse, Claims,
       Decided, Checked, ByItsOfficer, StillGood, DeviceRow, Statuses, Drain

(* The phone's own steps leave certificates and the service alone.         *)
LEMMA SessionKeeps ==
  ASSUME EnrolIInv, SessionStep \/ Kill
  PROVE  /\ session' \in Officers \cup {Nobody}
         /\ secure' \in Officers \cup {Nobody}
         /\ restoring' \in Officers \cup {Nobody}
BY DEF EnrolIInv, RowsTyped, SessionStep, Kill, SignIn, SignOut, AskRefresh, Refreshed, Launch,
       Restored, Persist

(* A call of the phone's starts with nothing read.                         *)
LEMMA SendsKeeps ==
  ASSUME EnrolIInv, NEW c \in Calls, NEW op \in {"enroll", "sign"}, NEW by \in Officers,
         NEW on \in Officers, Sends(c, op, by, on), UNCHANGED <<cert, device, early, together>>
  PROVE  /\ calls' \in [Calls -> Call \cup {Nobody}]
         /\ CallsFit' /\ OneFirstUse' /\ ByItsOfficer' /\ StillGood'
<1> DEFINE made == [op |-> op, by |-> by, on |-> on, seen |-> "nothing"]
<1>1. made \in Call /\ made.seen = "nothing" /\ calls' = [calls EXCEPT ![c] = made]
  BY DEF Sends, Call
<1> HIDE DEF made
<1>2. calls' \in [Calls -> Call \cup {Nobody}]
  BY <1>1 DEF EnrolIInv, RowsTyped
<1>3. \A d \in Calls : d # c => calls'[d] = calls[d]
  BY <1>1 DEF EnrolIInv, RowsTyped
<1>4. calls'[c].seen = "nothing"
  BY <1>1 DEF EnrolIInv, RowsTyped
<1>5. \A d \in Calls : (Decided(d)' => Decided(d) /\ d # c) /\ (Claims(d)' => Claims(d) /\ d # c)
                        /\ (Checked(d)' => Checked(d) /\ d # c)
  BY <1>3, <1>4 DEF Decided, Claims, Checked
<1> QED
  BY <1>2, <1>3, <1>5 DEF EnrolIInv, CallsFit, OneFirstUse, FirstUse, Overlapped, ByItsOfficer, StillGood

(* A call that ends leaves the others as they were.                        *)
LEMMA EndsCalls ==
  ASSUME EnrolIInv, NEW c \in Calls, NEW good \in BOOLEAN, Ends(c, good)
  PROVE  /\ calls' \in [Calls -> Call \cup {Nobody}] /\ sending' \in Drain
         /\ early' \in [Officers -> SUBSET Calls]
         /\ calls'[c] = Nobody
         /\ \A d \in Calls : d # c => calls'[d] = calls[d]
         /\ \A o \in Officers, d \in Calls : d # c => (d \in early'[o] <=> d \in early[o])
         /\ \A d \in Calls : (Decided(d)' => Decided(d) /\ d # c)
                              /\ (Claims(d)' => Claims(d) /\ d # c)
                              /\ (Checked(d)' => Checked(d) /\ d # c)
<1>1. calls' = [calls EXCEPT ![c] = Nobody] /\ early' = [o \in Officers |-> early[o] \ {c}]
  BY DEF Ends
<1>2. calls' \in [Calls -> Call \cup {Nobody}] /\ early' \in [Officers -> SUBSET Calls]
  BY <1>1 DEF EnrolIInv, RowsTyped
<1>3. sending' \in Drain
  BY DEF Ends, EnrolIInv, RowsTyped, Drain
<1>4. calls'[c] = Nobody /\ \A d \in Calls : d # c => calls'[d] = calls[d]
  BY <1>1 DEF EnrolIInv, RowsTyped
<1>5. \A o \in Officers, d \in Calls : d # c => (d \in early'[o] <=> d \in early[o])
  BY <1>1
<1>6. \A d \in Calls : (Decided(d)' => Decided(d) /\ d # c) /\ (Claims(d)' => Claims(d) /\ d # c)
                        /\ (Checked(d)' => Checked(d) /\ d # c)
  BY <1>4 DEF Decided, Claims, Checked
<1> QED
  BY <1>2, <1>3, <1>4, <1>5, <1>6

LEMMA EndsKeeps ==
  ASSUME EnrolIInv, NEW c \in Calls, NEW good \in BOOLEAN, Ends(c, good),
         UNCHANGED <<device, together>>
  PROVE  CallsFit' /\ OneFirstUse' /\ StillGood'
<1>1. CallsFit' /\ OneFirstUse'
  BY EndsCalls DEF EnrolIInv, CallsFit, OneFirstUse, FirstUse, Overlapped
<1>2. StillGood'
  <2> SUFFICES ASSUME NEW d \in Calls, Checked(d)', Enforce
               PROVE  device[calls[d].on].status = "active" \/ d \in early'[calls[d].on]
    BY EndsCalls DEF StillGood
  <2>1. Checked(d) /\ d # c
    BY EndsCalls
  <2>2. calls[d].on \in Officers
    BY <2>1, CallFields DEF Checked, EnrolIInv
  <2> QED
    BY <2>1, <2>2, EndsCalls DEF EnrolIInv, StillGood
<1> QED
  BY <1>1, <1>2

(* The decision: who enrols is together with whoever has still to insert.  *)
LEMMA EnrollReadsKeeps ==
  ASSUME EnrolIInv, NEW c \in Calls, calls[c] # Nobody, EnrollReads(c)
  PROVE  EnrolIInv' /\ device' = device /\ cert' = cert
<1> DEFINE o == calls[c].by
<1>0. /\ o \in Officers /\ calls[c].op = "enroll" /\ calls[c].seen = "nothing"
      /\ UNCHANGED <<sessionVars, cert, device>>
  BY CallFields DEF EnrollReads, EnrolIInv
<1>1. CASE Ends(c, device[o].status # "revoked") /\ UNCHANGED together
  BY <1>0, <1>1, EndsCalls, EndsKeeps DEF sessionVars, EnrolIInv, RowsTyped, ByItsOfficer
<1>2. CASE /\ device[o].status = "none"
           /\ calls' = [calls EXCEPT ![c].seen = ResolveStatus]
           /\ together' = together \cup {{o, p} : p \in Deciding}
           /\ UNCHANGED <<sending, enrolled, early>>
  <2> DEFINE made == [calls[c] EXCEPT !.seen = ResolveStatus]
  <2>1. ResolveStatus \in {"active", "pending"}
    BY DEF ResolveStatus
  <2>2. /\ made \in Call /\ made.by = o /\ made.op = "enroll" /\ made.seen = ResolveStatus
        /\ calls' = [calls EXCEPT ![c] = made]
    BY <1>0, <1>2, <2>1, CallFields DEF EnrolIInv, Call
  <2> HIDE DEF made
  <2>3. /\ calls' \in [Calls -> Call \cup {Nobody}] /\ calls'[c] = made
        /\ \A d \in Calls : d # c => calls'[d] = calls[d]
    BY <2>2 DEF EnrolIInv, RowsTyped
  <2>4. RowsTyped'
    BY <1>0, <1>2, <2>3 DEF sessionVars, EnrolIInv, RowsTyped
  <2>5. CallsFit'
    BY <2>1, <2>2, <2>3 DEF EnrolIInv, CallsFit, Decided, Checked
  <2>6. \A d \in Calls : d # c /\ Claims(d) => {o, calls[d].by} \in together'
    BY <1>2 DEF Claims, Decided, Deciding
  <2>7. Claims(c)' => \A p \in Officers : device[p].status # "active"
    BY <2>2, <2>3 DEF Claims, ResolveStatus
  <2>8. \A d \in Calls : d # c /\ Claims(d)' => Claims(d)
    BY <2>3 DEF Claims, Decided
  <2>9. together \subseteq together'
    BY <1>2
  <2>10. OneFirstUse'
    <3>1. \A p, q \in Officers : FirstUse(p)' /\ FirstUse(q)' => Overlapped(p, q)'
      BY <1>0, <2>9 DEF EnrolIInv, OneFirstUse, FirstUse, Overlapped
    <3>2. ASSUME NEW p \in Officers, NEW d \in Calls, FirstUse(p)', Claims(d)'
          PROVE  Overlapped(p, calls[d].by)'
      <4>1. d # c
        BY <1>0, <2>7, <3>2 DEF FirstUse
      <4> QED
        BY <1>0, <2>3, <2>8, <2>9, <3>2, <4>1 DEF EnrolIInv, OneFirstUse, FirstUse, Overlapped
    <3>3. ASSUME NEW d \in Calls, NEW e \in Calls, Claims(d)', Claims(e)'
          PROVE  Overlapped(calls[d].by, calls[e].by)'
      <4>1. CASE d = c /\ e = c
        BY <4>1 DEF Overlapped
      <4>2. CASE d = c /\ e # c
        BY <2>2, <2>3, <2>6, <2>8, <3>3, <4>2 DEF Overlapped
      <4>3. CASE d # c /\ e = c
        <5>1. {o, calls[d].by} = {calls[d].by, o}
          OBVIOUS
        <5> QED
          BY <2>2, <2>3, <2>6, <2>8, <3>3, <4>3, <5>1 DEF Overlapped
      <4>4. CASE d # c /\ e # c
        BY <2>3, <2>8, <2>9, <3>3, <4>4 DEF EnrolIInv, OneFirstUse, Overlapped
      <4> QED
        BY <4>1, <4>2, <4>3, <4>4
    <3> QED
      BY <3>1, <3>2, <3>3 DEF OneFirstUse
  <2>11. StillGood'
    BY <1>0, <1>2, <2>2, <2>3 DEF EnrolIInv, StillGood, Checked
  <2> QED
    BY <1>0, <2>4, <2>5, <2>10, <2>11 DEF EnrolIInv, ByItsOfficer
<1> QED
  BY <1>0, <1>1, <1>2 DEF EnrollReads

LEMMA EnrollInsertsKeeps ==
  ASSUME EnrolIInv, NEW c \in Calls, calls[c] # Nobody, EnrollInserts(c)
  PROVE  /\ EnrolIInv' /\ cert' = cert
         /\ \A p \in Officers : device[p].status = "revoked" => device'[p] = device[p]
<1> DEFINE o == calls[c].by
<1>0. /\ o \in Officers /\ Decided(c) /\ calls[c].seen \in {"active", "pending"}
      /\ UNCHANGED <<sessionVars, cert, together>>
  BY CallFields DEF EnrollInserts, EnrolIInv, CallsFit, Decided
<1>1. CASE device[o].status # "none" /\ Ends(c, FALSE) /\ UNCHANGED device
  BY <1>0, <1>1, EndsCalls, EndsKeeps DEF sessionVars, EnrolIInv, RowsTyped, ByItsOfficer
<1>2. CASE /\ device[o].status = "none" /\ Ends(c, TRUE)
           /\ device' = [device EXCEPT ![o].status = calls[c].seen]
  <2> DEFINE r == [device[o] EXCEPT !.status = calls[c].seen]
  <2>1. /\ r \in DeviceRow /\ r.status = calls[c].seen
        /\ device' = [device EXCEPT ![o] = r]
    BY <1>0, <1>2 DEF EnrolIInv, RowsTyped, DeviceRow, Statuses
  <2> HIDE DEF r
  <2>2. /\ device' \in [Officers -> DeviceRow] /\ device'[o] = r
        /\ \A p \in Officers : p # o => device'[p] = device[p]
    BY <1>0, <2>1 DEF EnrolIInv, RowsTyped
  <2>3. RowsTyped'
    BY <1>0, <1>2, <2>2, EndsCalls DEF sessionVars, EnrolIInv, RowsTyped
  <2>4. CallsFit'
    BY <1>2, EndsCalls DEF EnrolIInv, CallsFit
  <2>5. \A p \in Officers : FirstUse(p)' => FirstUse(p) \/ (p = o /\ Claims(c))
    BY <1>0, <2>1, <2>2 DEF FirstUse, Claims
  <2>6. OneFirstUse'
    <3>1. \A d \in Calls : Claims(d)' => Claims(d) /\ calls'[d] = calls[d]
      BY <1>2, EndsCalls
    <3>2. \A p, q : Overlapped(p, q)' <=> Overlapped(q, p)
      <4>1. \A p, q : {p, q} = {q, p}
        OBVIOUS
      <4> QED
        BY <1>0, <4>1 DEF Overlapped
    <3>3. \A p, q \in Officers : FirstUse(p)' /\ FirstUse(q)' => Overlapped(q, p)
      BY <1>0, <2>5, <3>2 DEF EnrolIInv, OneFirstUse, Overlapped
    <3>4. \A p \in Officers, d \in Calls : FirstUse(p)' /\ Claims(d)' =>
            Overlapped(p, calls[d].by)
      BY <1>0, <2>5, <3>1 DEF EnrolIInv, OneFirstUse
    <3> QED
      BY <1>0, <3>1, <3>2, <3>3, <3>4 DEF EnrolIInv, OneFirstUse, Overlapped
  <2>7. StillGood'
    <3> SUFFICES ASSUME NEW d \in Calls, Checked(d)', Enforce
                 PROVE  device'[calls'[d].on].status = "active" \/ d \in early'[calls'[d].on]
      BY DEF StillGood
    <3>1. Checked(d) /\ d # c /\ calls'[d] = calls[d]
      BY <1>2, EndsCalls
    <3>2. calls[d].on \in Officers
      BY <3>1, CallFields DEF Checked, EnrolIInv
    <3>3. device[calls[d].on].status = "active" \/ d \in early[calls[d].on]
      BY <3>1 DEF EnrolIInv, StillGood
    <3>4. d \in early'[calls[d].on] <=> d \in early[calls[d].on]
      BY <1>2, <3>1, <3>2, EndsCalls
    <3> QED
      BY <1>2, <2>2, <3>1, <3>2, <3>3, <3>4
  <2> QED
    BY <1>0, <1>2, <2>2, <2>3, <2>4, <2>6, <2>7 DEF EnrolIInv, ByItsOfficer
<1> QED
  BY <1>0, <1>1, <1>2 DEF EnrollInserts

LEMMA SignChecksKeeps ==
  ASSUME EnrolIInv, NEW c \in Calls, calls[c] # Nobody, SignChecks(c)
  PROVE  EnrolIInv' /\ device' = device /\ cert' = cert
<1> DEFINE made == [calls[c] EXCEPT !.seen = "accepted"]
<1>1. /\ calls[c].op = "sign" /\ Accepts(calls[c])
      /\ UNCHANGED <<sessionVars, cert, sending, enrolled, device, early, together>>
  BY DEF SignChecks
<1>2. /\ made \in Call /\ made.op = "sign" /\ made.by = calls[c].by /\ made.on = calls[c].on
      /\ calls' = [calls EXCEPT ![c] = made]
  BY <1>1, CallFields DEF SignChecks, EnrolIInv, Call
<1> HIDE DEF made
<1>3. /\ calls' \in [Calls -> Call \cup {Nobody}] /\ calls'[c] = made
      /\ \A d \in Calls : d # c => calls'[d] = calls[d]
  BY <1>2 DEF EnrolIInv, RowsTyped
<1>4. made.by = made.on /\ (Enforce => device[made.on].status = "active")
  BY <1>1, <1>2 DEF Accepts
<1>5. RowsTyped' /\ ByItsOfficer'
  BY <1>1, <1>3 DEF sessionVars, EnrolIInv, RowsTyped, ByItsOfficer
<1>6. CallsFit' /\ StillGood'
  BY <1>1, <1>2, <1>3, <1>4 DEF EnrolIInv, CallsFit, StillGood, Decided, Checked
<1>7. OneFirstUse'
  BY <1>1, <1>2, <1>3 DEF EnrolIInv, OneFirstUse, FirstUse, Claims, Decided, Overlapped
<1> QED
  BY <1>1, <1>5, <1>6, <1>7 DEF EnrolIInv

LEMMA SignCommitsKeeps ==
  ASSUME EnrolIInv, NEW c \in Calls, calls[c] # Nobody, SignCommits(c)
  PROVE  /\ EnrolIInv' /\ device' = device
         /\ \A p \in Officers : cert[p] # Nobody => cert'[p] # Nobody
         /\ \A p \in Officers : Enforce /\ cert'[p] # cert[p] =>
              device[p].status = "active" \/ \E d \in early[p] : calls'[d] # calls[d]
<1> DEFINE o == calls[c].on
<1>1. /\ Checked(c) /\ o \in Officers /\ calls[c].by = o /\ Ends(c, FALSE)
      /\ UNCHANGED <<sessionVars, device, together>>
      /\ cert' = [cert EXCEPT ![o] = [state |-> "issued", by |-> o]]
  <2>1. Checked(c) /\ o \in Officers
    BY CallFields DEF SignCommits, Checked, EnrolIInv
  <2>2. calls[c].by = o
    BY <2>1 DEF EnrolIInv, CallsFit
  <2> QED
    BY <2>1, <2>2 DEF SignCommits
<1>2. [state |-> "issued", by |-> o] \in Certificate /\ [state |-> "issued", by |-> o] # Nobody
  BY <1>1, NobodyAssumption DEF Certificate
<1>3. /\ cert' \in [Officers -> Certificate \cup {Nobody}]
      /\ \A p \in Officers : cert'[p] = IF p = o THEN [state |-> "issued", by |-> o] ELSE cert[p]
  BY <1>1, <1>2 DEF EnrolIInv, RowsTyped
<1>4. RowsTyped' /\ ByItsOfficer'
  BY <1>1, <1>3, EndsCalls DEF sessionVars, EnrolIInv, RowsTyped, ByItsOfficer
<1>5. CallsFit' /\ OneFirstUse' /\ StillGood'
  BY <1>1, EndsKeeps
<1>6. Enforce => device[o].status = "active" \/ (c \in early[o] /\ calls'[c] # calls[c])
  BY <1>1, EndsCalls DEF EnrolIInv, StillGood
<1> QED
  BY <1>1, <1>2, <1>3, <1>4, <1>5, <1>6 DEF EnrolIInv

(* What the admin does to one account's row.                               *)
LEMMA AdminKeeps ==
  ASSUME EnrolIInv, NEW o \in Officers, ApproveDevice(o) \/ RevokeDevice(o)
  PROVE  /\ EnrolIInv' /\ cert' = cert
         /\ \A p \in Officers :
              device[p].status = "revoked" /\ device'[p].status = "active" => device'[p].approved
<1>1. /\ UNCHANGED <<sessionVars, cert, sending, enrolled, calls, together>>
      /\ \E r \in DeviceRow : device' = [device EXCEPT ![o] = r] /\ (r.status = "active" => r.approved)
      /\ \E s \in SUBSET Calls : early' = [early EXCEPT ![o] = s]
  <2>1. CASE ApproveDevice(o)
    <3>1. [status |-> "active", approved |-> TRUE] \in DeviceRow
      BY DEF DeviceRow, Statuses
    <3> QED
      BY <2>1, <3>1 DEF ApproveDevice
  <2>2. CASE RevokeDevice(o)
    <3> DEFINE r == [device[o] EXCEPT !.status = "revoked"]
    <3>1. r \in DeviceRow /\ r.status # "active" /\ device' = [device EXCEPT ![o] = r]
      BY <2>2 DEF EnrolIInv, RowsTyped, DeviceRow, Statuses, RevokeDevice
    <3> HIDE DEF r
    <3> QED
      BY <2>2, <3>1 DEF RevokeDevice
  <2> QED
    BY <2>1, <2>2
<1>2. PICK r \in DeviceRow :
        device' = [device EXCEPT ![o] = r] /\ (r.status = "active" => r.approved)
  BY <1>1
<1>3. /\ device' \in [Officers -> DeviceRow] /\ device'[o] = r
      /\ \A p \in Officers : p # o => device'[p] = device[p]
  BY <1>2 DEF EnrolIInv, RowsTyped
<1>4. /\ early' \in [Officers -> SUBSET Calls]
      /\ \A p \in Officers : p # o => early'[p] = early[p]
  BY <1>1 DEF EnrolIInv, RowsTyped
<1>5. RowsTyped' /\ CallsFit' /\ ByItsOfficer'
  BY <1>1, <1>3, <1>4 DEF sessionVars, EnrolIInv, RowsTyped, CallsFit, Decided, Checked, ByItsOfficer
<1>6. \A p \in Officers : FirstUse(p)' => FirstUse(p)
  BY <1>2, <1>3 DEF FirstUse
<1>7. OneFirstUse'
  BY <1>1, <1>6 DEF EnrolIInv, OneFirstUse, Claims, Decided, Overlapped
<1>8. StillGood'
  <2> SUFFICES ASSUME NEW c \in Calls, Checked(c), Enforce
               PROVE  device'[calls[c].on].status = "active" \/ c \in early'[calls[c].on]
    BY <1>1 DEF StillGood, Checked
  <2>1. calls[c].on \in Officers /\ calls[c].op = "sign" /\ calls[c].by = calls[c].on
    BY CallFields DEF Checked, EnrolIInv, CallsFit
  <2>2. device[calls[c].on].status = "active" \/ c \in early[calls[c].on]
    BY DEF EnrolIInv, StillGood
  <2>3. CASE calls[c].on # o
    BY <1>3, <1>4, <2>1, <2>2, <2>3
  <2>4. CASE calls[c].on = o /\ ApproveDevice(o)
    BY <2>4 DEF ApproveDevice, EnrolIInv, RowsTyped
  <2>5. CASE calls[c].on = o /\ RevokeDevice(o)
    BY <2>1, <2>5 DEF RevokeDevice, EnrolIInv, RowsTyped, Checked
  <2> QED
    BY <2>3, <2>4, <2>5
<1> QED
  BY <1>1, <1>2, <1>3, <1>5, <1>7, <1>8 DEF EnrolIInv

-----------------------------------------------------------------------------
(* One step: the invariant is kept, a revoked row returns only approved,   *)
(* and certificates are neither lost nor issued for a revoked account but  *)
(* by an upload that was under way.                                        *)
Returns == \A o \in Officers :
             device[o].status = "revoked" /\ device'[o].status = "active" => device'[o].approved
Stays   == \A o \in Officers : cert[o] # Nobody =>
             /\ cert'[o] # Nobody
             /\ (Enforce /\ cert'[o] # cert[o]) =>
                  device[o].status = "active" \/ \E c \in early[o] : calls'[c] # calls[c]

LEMMA RestKeeps ==
  ASSUME EnrolIInv, UNCHANGED <<cert, calls, device, early, together>>,
         sending' \in Drain,
         session' \in Officers \cup {Nobody}, secure' \in Officers \cup {Nobody},
         restoring' \in Officers \cup {Nobody}
  PROVE  EnrolIInv' /\ Returns /\ Stays
BY DEF EnrolIInv, Returns, Stays, RowsTyped, CallsFit, OneFirstUse, FirstUse, Claims, Decided,
       Checked, Overlapped, ByItsOfficer, StillGood

LEMMA PhoneKeeps ==
  ASSUME EnrolIInv, SignCertificate \/ DrainBegins \/ CallDropped \/ DrainEnds
                    \/ \E o \in Officers : UploadQueued(o)
  PROVE  EnrolIInv' /\ Returns /\ Stays
<1>0. Nobody \notin Officers /\ Nobody \notin Calls
  BY NobodyAssumption
<1>1. CASE SignCertificate
  <2>1. [state |-> "queued", by |-> Nobody] \in Certificate
    BY DEF Certificate
  <2> DEFINE signed == [state |-> "queued", by |-> Nobody]
  <2>2. /\ session \in Officers /\ cert[session] = Nobody
        /\ cert' = [cert EXCEPT ![session] = signed]
        /\ UNCHANGED <<sessionVars, sending, enrolled, calls, device, early, together>>
    BY <1>1 DEF SignCertificate, EnrolIInv, RowsTyped
  <2>3. /\ cert' \in [Officers -> Certificate \cup {Nobody}] /\ ByItsOfficer'
        /\ \A o \in Officers : cert[o] # Nobody => cert'[o] = cert[o]
    BY <2>1, <2>2 DEF EnrolIInv, RowsTyped, ByItsOfficer
  <2>4. RowsTyped' /\ CallsFit' /\ OneFirstUse' /\ StillGood'
    BY <2>2, <2>3 DEF sessionVars, EnrolIInv, RowsTyped, CallsFit, OneFirstUse, FirstUse, Claims,
       Decided, Checked, Overlapped, StillGood
  <2> QED
    BY <2>2, <2>3, <2>4 DEF EnrolIInv, Returns, Stays
<1>2. CASE DrainBegins
  <2> DEFINE todo == {o \in Officers : Queued(o)}
  <2>1. /\ session \in Officers
        /\ UNCHANGED <<sessionVars, cert, enrolled, device, early, together>>
        /\ \/ sending' = [who |-> session, todo |-> todo, call |-> Nobody] /\ UNCHANGED calls
           \/ \E c \in Calls : /\ sending' = [who |-> session, todo |-> todo, call |-> c]
                                /\ Sends(c, "enroll", session, session)
    BY <1>2 DEF DrainBegins, EnrolIInv, RowsTyped
  <2>2. todo \in SUBSET Officers
    OBVIOUS
  <2> HIDE DEF todo
  <2>3. sending' \in Drain
    BY <2>1, <2>2 DEF Drain
  <2>4. CASE UNCHANGED calls
    BY <2>1, <2>3, <2>4, RestKeeps DEF sessionVars, EnrolIInv, RowsTyped
  <2>5. ASSUME NEW c \in Calls, Sends(c, "enroll", session, session)
        PROVE  EnrolIInv' /\ Returns /\ Stays
    BY <2>1, <2>3, <2>5, SendsKeeps DEF sessionVars, EnrolIInv, RowsTyped, Returns, Stays
  <2> QED
    BY <2>1, <2>4, <2>5
<1>3. CASE CallDropped \/ DrainEnds
  <2>1. sending' \in Drain
    BY <1>3 DEF CallDropped, DrainEnds, NoDrain, EnrolIInv, RowsTyped, Drain
  <2> QED
    BY <1>3, <2>1, RestKeeps DEF CallDropped, DrainEnds, sessionVars, EnrolIInv, RowsTyped
<1>4. ASSUME NEW o \in Officers, UploadQueued(o)
      PROVE  EnrolIInv' /\ Returns /\ Stays
  <2>1. PICK c \in Calls : /\ sending' = [sending EXCEPT !.todo = @ \ {o}, !.call = c]
                           /\ Sends(c, "sign", sending.who, o)
    BY <1>4 DEF UploadQueued
  <2>2. sending.who \in Officers /\ sending' \in Drain
    BY <1>4, <2>1 DEF UploadQueued, EnrolIInv, RowsTyped, Drain
  <2>3. UNCHANGED <<sessionVars, cert, device, early, together>>
    BY <1>4 DEF UploadQueued
  <2> QED
    BY <2>1, <2>2, <2>3, SendsKeeps DEF sessionVars, EnrolIInv, RowsTyped, Returns, Stays
<1> QED
  BY <1>1, <1>2, <1>3, <1>4

LEMMA CallServedKeeps ==
  ASSUME EnrolIInv, NEW c \in Calls, calls[c] # Nobody, Served(c)
  PROVE  EnrolIInv' /\ Returns /\ Stays
<1>1. CASE EnrollReads(c)
  BY <1>1, EnrollReadsKeeps DEF Returns, Stays
<1>2. CASE EnrollInserts(c)
  BY <1>2, EnrollInsertsKeeps DEF Returns, Stays
<1>3. CASE SignChecks(c)
  BY <1>3, SignChecksKeeps DEF Returns, Stays
<1>4. CASE SignCommits(c)
  BY <1>4, SignCommitsKeeps DEF Returns, Stays
<1>5. CASE CallFails(c)
  <2>1. Ends(c, FALSE) /\ UNCHANGED <<sessionVars, cert, device, together>>
    BY <1>5 DEF CallFails
  <2> QED
    BY <2>1, EndsCalls, EndsKeeps DEF sessionVars, EnrolIInv, RowsTyped, ByItsOfficer, Returns, Stays
<1> QED
  BY <1>1, <1>2, <1>3, <1>4, <1>5 DEF Served

LEMMA EnrolStep ==
  ASSUME EnrolIInv, [EnrolNext]_<<sessionVars, enrolVars>>
  PROVE  EnrolIInv' /\ Returns /\ Stays
<1>1. CASE UNCHANGED <<sessionVars, enrolVars>>
  BY <1>1, RestKeeps DEF sessionVars, enrolVars, EnrolIInv, RowsTyped
<1>2. CASE SessionStep /\ UNCHANGED enrolVars
  BY <1>2, SessionKeeps, RestKeeps DEF enrolVars, EnrolIInv, RowsTyped
<1>3. CASE QueueKilled
  <2>1. NoDrain \in Drain
    BY DEF NoDrain, Drain
  <2> QED
    BY <1>3, <2>1, SessionKeeps, RestKeeps DEF QueueKilled
<1>4. CASE \E o \in Officers : ApproveDevice(o) \/ RevokeDevice(o)
  BY <1>4, AdminKeeps DEF Returns, Stays
<1>5. CASE \E c \in Calls : calls[c] # Nobody /\ Served(c)
  BY <1>5, CallServedKeeps
<1>6. CASE SignCertificate \/ DrainBegins \/ CallDropped \/ DrainEnds
           \/ \E o \in Officers : UploadQueued(o)
  BY <1>6, PhoneKeeps
<1> QED
  BY <1>1, <1>2, <1>3, <1>4, <1>5, <1>6 DEF EnrolNext

(* However the accounts' enrolments, an admin's approvals and revocations  *)
(* interleave, and whatever calls are cut off, two accounts hold the       *)
(* device unapproved only if their first enrolments overlapped, and a      *)
(* revoked one comes back only by an approval (devices.py).                *)
THEOREM FirstUseIsTrustedOnce == EnrolSpec => TrustOnFirstUse
<1>1. ASSUME EnrolIInv, [EnrolNext]_<<sessionVars, enrolVars>>
      PROVE  /\ \A o, p \in {q \in Officers : device'[q].status = "active"
                                              /\ ~device'[q].approved} :
                  o # p => {o, p} \in together'
             /\ \A o \in Officers :
                  device[o].status = "revoked" /\ device'[o].status = "active"
                    => device'[o].approved
  <2>1. OneFirstUse' /\ Returns
    BY <1>1, EnrolStep DEF EnrolIInv
  <2> QED
    BY <2>1 DEF OneFirstUse, FirstUse, Overlapped, Returns
<1> QED
  BY <1>1, EnrolInitKeeps, EnrolStep, PTL DEF EnrolSpec, TrustOnFirstUse

(* Whoever the phone belongs to between the signature and the upload, the  *)
(* certificate is kept and issued by the officer it names; and for an      *)
(* account revoked by then, only on an upload that was under way when it   *)
(* was revoked (certificates.py).                                          *)
THEOREM CertificatesStayWithTheirOfficer == EnrolSpec => SignedByItsOfficer
<1>1. ASSUME EnrolIInv, [EnrolNext]_<<sessionVars, enrolVars>>
      PROVE  \A o \in Officers : cert[o] # Nobody =>
               /\ cert'[o] # Nobody /\ cert'[o].by \in {Nobody, o}
               /\ (Enforce /\ cert'[o] # cert[o]) =>
                    device[o].status = "active" \/ \E c \in early[o] : calls'[c] # calls[c]
  BY <1>1, EnrolStep DEF EnrolIInv, ByItsOfficer, Stays
<1> QED
  BY <1>1, EnrolInitKeeps, EnrolStep, PTL DEF EnrolSpec, SignedByItsOfficer
-----------------------------------------------------------------------------
(***************************************************************************)
(* The work list.                                                          *)
(***************************************************************************)
CertStates == {"none", "draft", "queued", "signed", "synced", "archived"}
Gates == [phase : {"idle", "gating", "overrun"}, step : {"off", "net", "race"}, gated : BOOLEAN,
          run : Nat, who : Persons \cup {Nothing}, visit : Nat]
IsFlight(f) ==
  /\ f \in [by : Tabs \cup {"gate"}, forced : BOOLEAN, who : Persons, visit : Nat,
            before : Lists \cup {Nothing}, run : Nat, ver : Nat]
  /\ f.ver # 0 => f.ver \in DOMAIN Book[f.who]
ListTyped ==
  /\ user \in Persons \cup {Nothing} /\ visit \in Nat
  /\ lists \in [Persons -> Nat] /\ \A p \in Persons : lists[p] \in DOMAIN Book[p]
  /\ copy \in Lists \cup {Nothing} /\ shown \in [Tabs -> Lists \cup {Nothing}]
  /\ \A f \in flights : IsFlight(f)
  /\ settling \in SUBSET Nat
  /\ gate \in Gates
  /\ gate.step # "off" => gate.who \in Persons
  /\ owed \in Lists \cup {Nothing}
  /\ certs \in [Certificates -> CertStates]

\* Home in front holds what is still to be delivered; nothing is captured behind it.
HomeHolds == user # Nothing /\ focus = "home" => InProgress(certs) \subseteq inProgress

\* A run of the gate has requests of its own, and waits for the rest, once it has begun to.
RunsFit ==
  /\ \A f \in flights : f.by = "gate" =>
       /\ f.run <= gate.run /\ (gate.step = "net" => f.run < gate.run)
       /\ gate.step = "race" /\ f.run = gate.run => f.who = gate.who
  /\ \A r \in settling : r <= gate.run /\ (gate.step = "net" => r < gate.run)
Reaches(list) == list # Nothing /\ list.who = owed.who /\ list.ver >= owed.ver
\* What a running gate is to bring its request will find, or has found; from then on and until
\* an older answer comes the copy holds it, and once the gate has settled Home does.
GateOwes ==
  owed # Nothing =>
    /\ user # Nothing
    /\ gate.step # "off" => gate.who = owed.who /\ owed.ver <= lists[owed.who]
    /\ \A f \in flights : f.by = "gate" /\ gate.step = "race" /\ f.run = gate.run /\ f.ver # 0 =>
                            f.ver >= owed.ver
    /\ ListIsIn => Reaches(copy)
    /\ gate.step = "off" => Reaches(shown["home"])
GateForUser == user = Nothing => ~gate.gated
ListIInv == ListTyped /\ HomeHolds /\ RunsFit /\ GateOwes /\ GateForUser

LEMMA ListFacts ==
  ASSUME NEW l \in Lists
  PROVE  /\ l.who \in Persons /\ l.ver \in Nat /\ l.ver # 0 /\ l # Nothing
         /\ l.ver \in DOMAIN Book[l.who]
BY BookAssumption DEF Lists

LEMMA ListIs ==
  ASSUME NEW p \in Persons, NEW n \in DOMAIN Book[p]
  PROVE  [who |-> p, ver |-> n] \in Lists
<1>1. n \in Nat
  BY BookAssumption
<1> QED
  BY <1>1 DEF Lists

LEMMA AskFits ==
  ASSUME ListTyped, NEW tab \in Tabs, NEW forced \in BOOLEAN, NEW p \in Persons, NEW n \in Nat
  PROVE  IsFlight(Ask(tab, forced, p, n)) /\ Ask(tab, forced, p, n).by # "gate"
<1>1. gate.run \in Nat /\ copy \in Lists \cup {Nothing}
  BY DEF Gates, ListTyped
<1> QED
  BY <1>1 DEF Ask, IsFlight, Tabs

LEMMA PaintFits ==
  ASSUME ListTyped, NEW tab \in Tabs
  PROVE  /\ Painted(tab) \in [Tabs -> Lists \cup {Nothing}]
         /\ \/ Painted(tab)["home"] = shown["home"]
            \/ copy # Nothing /\ Painted(tab)["home"] = copy
BY DEF ListTyped, Painted, Tabs

\* What the screens do leaves the gate alone, and what they show comes from the copy.
LEMMA GateAlone ==
  ASSUME ListIInv, user' = user, lists' = lists, gate' = gate, owed' = owed, copy' = copy,
         settling' = settling, \A f \in flights' : f.by = "gate" => f \in flights,
         shown'["home"] = shown["home"] \/ (copy # Nothing /\ shown'["home"] = copy)
  PROVE  RunsFit' /\ GateOwes' /\ GateForUser'
<1>1. RunsFit'
  BY DEF ListIInv, RunsFit
<1>2. GateOwes'
  BY DEF ListIInv, GateOwes, ListIsIn, Reaches
<1> QED
  BY <1>1, <1>2 DEF ListIInv, GateForUser

-----------------------------------------------------------------------------
LEMMA InitList == ListInit => ListIInv
<1> SUFFICES ASSUME ListInit PROVE ListIInv
  OBVIOUS
<1>1. \A p \in Persons : 1 \in DOMAIN Book[p]
  BY BookAssumption
<1>2. ListTyped
  BY <1>1, BookAssumption DEF Gates, ListInit, ListTyped, CertStates
<1> QED
  BY <1>2 DEF ListInit, ListIInv, HomeHolds, RunsFit, GateOwes, GateForUser

LEMMA HeldAfter ==
  ASSUME ListTyped, ArchiveDrafts
  PROVE  certs' \in [Certificates -> CertStates]
BY DEF ArchiveDrafts, ListTyped, CertStates

LEMMA RanGate ==
  ASSUME NEW g \in Gates, g.step = "off", NEW p \in Persons, NEW n \in Nat
  PROVE  /\ Ran(g, p, n) \in Gates /\ Ran(g, p, n).step = "net" /\ Ran(g, p, n).who = p
         /\ Ran(g, p, n).run = g.run + 1
<1> DEFINE next == g.run + 1
           h == Ran(g, p, n)
<1>1. next \in Nat
  BY DEF Gates
<1>2. h = [g EXCEPT !.step = "net", !.run = next, !.who = p, !.visit = n]
  BY DEF Ran
<1> HIDE DEF next, h
<1>3. h \in Gates /\ h.step = "net" /\ h.who = p /\ h.run = next
  BY <1>1, <1>2 DEF Gates
<1> QED
  BY <1>3 DEF next, h

LEMMA SignedInKeeps == ASSUME ListIInv, NEW p \in Persons, SignedIn(p) PROVE ListIInv'
<1>1. /\ user = Nothing /\ user' = p /\ visit' = visit + 1 /\ ~gate.gated
      /\ gate' = GatedFor(gate, p, visit + 1) /\ owed' = Owed(p)
      /\ shown' = Painted("home") /\ copy' = copy /\ lists' = lists /\ settling' = settling
      /\ flights' = flights \cup {Ask("home", FALSE, p, visit + 1)}
      /\ ArchiveDrafts /\ inProgress' = InProgress(certs')
  BY DEF SignedIn, LoadHome, Fetch, ListIInv, GateForUser
<1>2. /\ visit \in Nat /\ lists[p] \in DOMAIN Book[p] /\ gate.run \in Nat
      /\ \A f \in flights : IsFlight(f)
      /\ gate \in Gates
      /\ gate.step # "off" => gate.who \in Persons
  BY DEF Gates, ListIInv, ListTyped
<1>3. /\ gate' \in Gates
      /\ gate.step = "off" => gate'.step = "net" /\ gate'.run = gate.run + 1 /\ gate'.who = p
      /\ gate.step # "off" => gate'.step = gate.step /\ gate'.run = gate.run
                              /\ gate'.who = gate.who
  <2>1. CASE gate.step = "off"
    <3> DEFINE gated == [gate EXCEPT !.gated = TRUE]
    <3>1. gated \in Gates /\ gated.step = "off" /\ gated.run = gate.run
      BY <1>2, <2>1 DEF Gates
    <3> HIDE DEF gated
    <3>2. gate' = Ran(gated, p, visit + 1)
      BY <1>1 DEF GatedFor, gated
    <3>3. visit + 1 \in Nat
      BY <1>2
    <3> QED
      BY <2>1, <3>1, <3>2, <3>3, RanGate
  <2>2. CASE gate.step # "off"
    <3>1. gate' = [gate EXCEPT !.gated = TRUE]
      BY <1>1, <1>2, <2>2 DEF GatedFor, Ran, Gates
    <3> QED
      BY <1>2, <2>2, <3>1 DEF Gates
  <2> QED
    BY <2>1, <2>2
<1>4. IsFlight(Ask("home", FALSE, p, visit + 1)) /\ Ask("home", FALSE, p, visit + 1).by # "gate"
  <2>1. "home" \in Tabs /\ visit + 1 \in Nat
    BY <1>2 DEF Tabs
  <2> QED
    BY <2>1, AskFits DEF ListIInv
<1>5. owed' \in Lists \cup {Nothing}
  BY <1>1, <1>2, ListIs DEF Owed
<1>6. user' = p /\ visit' \in Nat /\ copy' = copy /\ lists' = lists /\ settling' = settling
  BY <1>1, <1>2
<1>7. \A f \in flights' : IsFlight(f) /\ (f.by = "gate" => f \in flights)
  BY <1>1, <1>2, <1>4
<1>8. ListTyped'
  <2>1. shown' \in [Tabs -> Lists \cup {Nothing}]
    BY <1>1, PaintFits DEF ListIInv, Tabs
  <2>2. certs' \in [Certificates -> CertStates]
    BY <1>1, HeldAfter DEF ListIInv
  <2>3. gate'.step # "off" => gate'.who \in Persons
    BY <1>2, <1>3
  <2> QED
    BY <1>3, <1>5, <1>6, <1>7, <2>1, <2>2, <2>3 DEF ListIInv, ListTyped, IsFlight
<1>9. RunsFit'
  <2>1. (\A f \in flights : f.run \in Nat) /\ settling' = settling /\ settling \in SUBSET Nat
    BY <1>2, <1>6 DEF IsFlight, ListIInv, ListTyped
  <2> QED
    BY <1>2, <1>3, <1>7, <2>1 DEF ListIInv, RunsFit
<1>10. GateOwes'
  <2>1. CASE gate.step = "off"
    <3>1. owed'.who = p /\ owed'.ver = lists[p] /\ gate'.step = "net" /\ gate'.who = p
      BY <1>1, <1>3, <2>1 DEF Owed
    <3>2. lists[p] \in Nat /\ user' # Nothing
      BY <1>6, BookAssumption DEF ListIInv, ListTyped
    <3> QED
      BY <1>6, <3>1, <3>2 DEF GateOwes, ListIsIn
  <2>2. CASE gate.step # "off"
    BY <1>1, <2>2 DEF Owed, GateOwes
  <2> QED
    BY <2>1, <2>2
<1>11. HomeHolds' /\ GateForUser'
  BY <1>1, BookAssumption DEF HomeHolds, GateForUser
<1> QED
  BY <1>8, <1>9, <1>10, <1>11 DEF ListIInv

LEMMA SignedOutKeeps == ASSUME ListIInv, SignedOut PROVE ListIInv'
<1>1. /\ user' = Nothing /\ gate' = [gate EXCEPT !.gated = FALSE] /\ owed' = Nothing
      /\ shown' = [t \in Tabs |-> Nothing]
      /\ UNCHANGED <<visit, lists, settling, copy, flights, certs>>
  BY DEF SignedOut, Ungated
<1>2. /\ gate' \in Gates
      /\ gate'.step = gate.step /\ gate'.run = gate.run /\ gate'.who = gate.who /\ ~gate'.gated
  BY <1>1 DEF Gates, ListIInv, ListTyped
<1>3. ListTyped'
  BY <1>1, <1>2 DEF ListIInv, ListTyped, IsFlight
<1>4. RunsFit'
  BY <1>1, <1>2 DEF ListIInv, RunsFit
<1> QED
  BY <1>1, <1>2, <1>3, <1>4 DEF ListIInv, HomeHolds, GateOwes, GateForUser

LEMMA ForegroundKeeps == ASSUME ListIInv, Foreground PROVE ListIInv'
<1>1. /\ user # Nothing /\ gate.step = "off" /\ user' = user
      /\ gate' = Ran(gate, user, visit)
      /\ owed' = [who |-> user, ver |-> lists[user]]
      /\ UNCHANGED <<visit, lists, settling, copy, flights, focus, shown, certs, inProgress>>
  BY DEF Foreground, Owed
<1>2. /\ user \in Persons /\ visit \in Nat /\ gate.run \in Nat /\ lists[user] \in DOMAIN Book[user]
      /\ lists[user] \in Nat /\ settling \in SUBSET Nat /\ \A f \in flights : IsFlight(f)
  BY <1>1 DEF Gates, ListIInv, ListTyped
<1>3. /\ gate' \in Gates
      /\ gate'.step = "net" /\ gate'.run = gate.run + 1 /\ gate'.who = user
  <2>1. gate \in Gates
    BY DEF ListIInv, ListTyped
  <2> QED
    BY <1>1, <1>2, <2>1, RanGate
<1>4. ListTyped'
  BY <1>1, <1>2, <1>3, ListIs DEF ListIInv, ListTyped, IsFlight
<1>5. RunsFit'
  <2>1. (\A f \in flights : f.run \in Nat) /\ settling \in SUBSET Nat
    BY <1>2 DEF IsFlight
  <2>2. flights' = flights /\ settling' = settling
    BY <1>1
  <2>3. gate.run \in Nat /\ gate'.step = "net" /\ gate'.run = gate.run + 1
    BY <1>2, <1>3
  <2>4. /\ \A f \in flights : f.by = "gate" => f.run <= gate.run
        /\ \A r \in settling : r <= gate.run
    BY DEF ListIInv, RunsFit
  <2>5. \A f \in flights : f.by = "gate" => f.run < gate.run + 1
    BY <2>1, <2>3, <2>4
  <2>6. \A r \in settling : r < gate.run + 1
    BY <2>1, <2>3, <2>4
  <2>7. (\A f \in flights : f.by = "gate" => f.run <= gate.run + 1 /\ f.run # gate.run + 1)
        /\ \A r \in settling : r <= gate.run + 1
    BY <2>1, <2>3, <2>5, <2>6
  <2> QED
    BY <2>2, <2>3, <2>5, <2>6, <2>7 DEF RunsFit
<1>6. GateOwes'
  BY <1>1, <1>2, <1>3 DEF GateOwes, ListIsIn
<1> QED
  BY <1>1, <1>4, <1>5, <1>6 DEF ListIInv, HomeHolds, GateForUser

LEMMA GateKeeps == ASSUME ListIInv, CheckNet \/ Overrun PROVE ListIInv'
<1>1. /\ UNCHANGED <<user, visit, lists, settling, copy, focus, shown, certs, inProgress>>
      /\ owed' = owed \/ owed' = Nothing
  BY DEF CheckNet, Overrun
<1>2. /\ gate' \in Gates
      /\ gate'.run = gate.run /\ gate'.who = gate.who /\ gate'.gated = gate.gated
      /\ gate.step # "off"
  BY DEF Gates, ListIInv, ListTyped, CheckNet, Overrun
<1>3. \/ owed' = Nothing /\ gate'.step = "off" /\ flights' = flights
      \/ /\ gate.step = "net" /\ gate'.step = "race" /\ owed' = owed
         /\ flights' = flights \cup {Ask("gate", TRUE, gate.who, gate.visit)}
  BY DEF Gates, ListIInv, ListTyped, CheckNet, Overrun, Fetch
<1>4. LET f == Ask("gate", TRUE, gate.who, gate.visit) IN
      IsFlight(f) /\ f.by = "gate" /\ f.run = gate.run /\ f.who = gate.who /\ f.ver = 0
  BY <1>2 DEF Gates, Ask, IsFlight, ListIInv, ListTyped
<1>5. ListTyped'
  BY <1>1, <1>2, <1>3, <1>4 DEF ListIInv, ListTyped, IsFlight
<1>6. RunsFit'
  <2> DEFINE g == Ask("gate", TRUE, gate.who, gate.visit)
  <2>1. g.by = "gate" /\ g.run = gate.run /\ g.who = gate.who
    BY <1>4
  <2>2. \A f \in flights : f.run \in Nat
    BY DEF ListIInv, ListTyped, IsFlight
  <2>3. gate.run \in Nat
    BY DEF ListIInv, ListTyped, Gates
  <2> HIDE DEF g
  <2>4. CASE gate'.step = "off" /\ flights' = flights
    BY <1>1, <1>2, <2>4 DEF ListIInv, RunsFit
  <2>5. CASE gate.step = "net" /\ gate'.step = "race" /\ flights' = flights \cup {g}
    BY <1>1, <1>2, <2>1, <2>2, <2>3, <2>5 DEF ListIInv, RunsFit
  <2> QED
    BY <1>3, <2>4, <2>5 DEF g
<1>7. GateOwes'
  <2>1. CASE gate'.step = "race"
    <3> DEFINE g == Ask("gate", TRUE, gate.who, gate.visit)
    <3>1. owed' = owed /\ flights' = flights \cup {g} /\ gate.step = "net"
      BY <1>3, <2>1
    <3>2. /\ \A f \in flights : f.by = "gate" => f.run # gate.run
          /\ gate.run \notin settling
      <4>1. gate.run \in Nat /\ settling \in SUBSET Nat /\ \A f \in flights : f.run \in Nat
        BY DEF Gates, ListIInv, ListTyped, IsFlight
      <4> QED
        BY <3>1, <4>1 DEF ListIInv, RunsFit
    <3>3. g.run = gate.run /\ g.who = gate.who /\ g.ver = 0
      BY <1>4
    <3>4. ~ListIsIn' /\ gate'.run = gate.run /\ gate'.who = gate.who
      BY <1>1, <1>2, <2>1, <3>2 DEF ListIsIn
    <3> HIDE DEF g
    <3>5. owed' # Nothing => /\ user' # Nothing /\ gate'.who = owed'.who
                             /\ owed'.ver <= lists'[owed'.who]
      BY <1>1, <3>1, <3>4 DEF ListIInv, GateOwes
    <3>6. \A f \in flights' : f.by = "gate" /\ f.run = gate'.run => f.ver = 0
      BY <3>1, <3>2, <3>3, <3>4
    <3> QED
      BY <2>1, <3>4, <3>5, <3>6 DEF GateOwes
  <2>2. CASE gate'.step # "race"
    BY <1>3, <2>2 DEF GateOwes
  <2> QED
    BY <2>1, <2>2
<1> QED
  BY <1>1, <1>2, <1>5, <1>6, <1>7 DEF ListIInv, HomeHolds, GateForUser

LEMMA ScreensKeep ==
  ASSUME ListIInv, GoHome \/ GoSites \/ GoAway \/ PullHome \/ PullSites \/ Type
  PROVE  ListIInv'
<1>1. UNCHANGED <<user, visit, lists, settling, copy, gate, owed>>
  BY DEF GoHome, GoSites, GoAway, PullHome, PullSites, Type
<1>2. \/ UNCHANGED flights
      \/ user # Nothing /\ flights' = flights \cup {Ask("home", FALSE, user, visit)}
      \/ user # Nothing /\ flights' = flights \cup {Ask("sites", FALSE, user, visit)}
      \/ /\ user # Nothing
         /\ flights' = flights \cup {Ask("home", forced, user, visit) : forced \in BOOLEAN}
  BY DEF GoHome, GoSites, GoAway, PullHome, PullSites, Type, LoadHome, LoadSites, Fetch,
     Uncovered
<1>3. \A f \in flights' : f \in flights \/ (IsFlight(f) /\ f.by # "gate")
  <2>1. user # Nothing => user \in Persons /\ visit \in Nat
    BY DEF ListIInv, ListTyped
  <2>2. user # Nothing =>
          \A tab \in Tabs, forced \in BOOLEAN :
            IsFlight(Ask(tab, forced, user, visit)) /\ Ask(tab, forced, user, visit).by # "gate"
    BY <2>1, AskFits DEF ListIInv
  <2>3. "home" \in Tabs /\ "sites" \in Tabs
    BY DEF Tabs
  <2> QED
    BY <1>2, <2>2, <2>3
<1>4. \E tab \in Tabs : shown' = shown \/ shown' = Painted(tab)
  BY DEF GoHome, GoSites, GoAway, PullHome, PullSites, Type, Tabs
<1>5. certs' = certs \/ ArchiveDrafts
  BY DEF GoHome, GoSites, GoAway, PullHome, PullSites, Type, LoadHome
<1>6. ListTyped'
  <2>1. shown' \in [Tabs -> Lists \cup {Nothing}]
    BY <1>4, PaintFits DEF ListIInv, ListTyped
  <2>2. certs' \in [Certificates -> CertStates]
    BY <1>5, HeldAfter DEF ListIInv, ListTyped
  <2>3. \A f \in flights' : IsFlight(f)
    BY <1>3 DEF ListIInv, ListTyped
  <2> QED
    BY <1>1, <2>1, <2>2, <2>3 DEF ListIInv, ListTyped, IsFlight
<1>7. RunsFit' /\ GateOwes' /\ GateForUser'
  BY <1>1, <1>3, <1>4, PaintFits, GateAlone DEF ListIInv
<1>8. HomeHolds'
  <2>1. CASE GoHome \/ PullHome
    BY <2>1 DEF GoHome, PullHome, LoadHome, HomeHolds
  <2>2. CASE GoSites \/ GoAway \/ PullSites \/ Type
    BY <2>2 DEF ListIInv, GoSites, GoAway, PullSites, Type, HomeHolds
  <2> QED
    BY <2>1, <2>2
<1> QED
  BY <1>6, <1>7, <1>8 DEF ListIInv

LEMMA CertsKeep ==
  ASSUME ListIInv, NEW c \in Certificates,
         DeleteDraft(c) \/ RetryItem(c) \/ Capture(c) \/ QueueMoves(c)
  PROVE  ListIInv'
<1>1. UNCHANGED <<user, visit, lists, settling, copy, flights, gate, focus, shown, owed>>
  BY DEF DeleteDraft, RetryItem, Capture, QueueMoves
<1>2. PICK now \in CertStates : certs' = [certs EXCEPT ![c] = now]
  BY DEF DeleteDraft, RetryItem, Capture, QueueMoves, CertStates
<1>3. ListTyped'
  BY <1>1, <1>2 DEF ListIInv, ListTyped, IsFlight
<1>4. HomeHolds'
  <2>1. CASE DeleteDraft(c) \/ RetryItem(c)
    BY <2>1 DEF DeleteDraft, RetryItem, HomeHolds
  <2>2. CASE Capture(c)
    BY <2>2, <1>1 DEF Capture, HomeHolds
  <2>3. CASE QueueMoves(c)
    <3>1. InProgress(certs') \subseteq InProgress(certs) /\ inProgress' = inProgress
      BY <2>3 DEF QueueMoves, InProgress, ListIInv, ListTyped
    <3> QED
      BY <1>1, <3>1 DEF ListIInv, HomeHolds
  <2> QED
    BY <2>1, <2>2, <2>3
<1> QED
  BY <1>1, <1>3, <1>4, GateAlone DEF ListIInv

LEMMA ChangesKeep ==
  ASSUME ListIInv, (\E p \in Persons : ListChanges(p)) \/ SitesSynced \/ RegisterAnswered \/ StampAges
  PROVE  ListIInv'
<1>1. UNCHANGED <<user, visit, settling, copy, flights, gate, focus, shown, owed, certs, inProgress>>
  BY DEF ListChanges, SitesSynced, RegisterAnswered, StampAges
<1>2. /\ lists' \in [Persons -> Nat]
      /\ \A p \in Persons : lists'[p] \in DOMAIN Book[p] /\ lists[p] <= lists'[p]
  <2>1. CASE lists' = lists
    BY <2>1 DEF ListIInv, ListTyped
  <2>2. ASSUME NEW p \in Persons, ListChanges(p) PROVE <1>2
    BY <2>2, BookAssumption DEF ListChanges, ListIInv, ListTyped
  <2> QED
    BY <2>1, <2>2 DEF SitesSynced, RegisterAnswered, StampAges
<1>3. ListTyped'
  BY <1>1, <1>2 DEF ListIInv, ListTyped, IsFlight
<1>4. RunsFit' /\ HomeHolds' /\ GateForUser'
  BY <1>1 DEF ListIInv, RunsFit, HomeHolds, GateForUser
<1>5. GateOwes'
  <2> SUFFICES ASSUME owed # Nothing PROVE GateOwes'
    BY <1>1 DEF GateOwes
  <2>1. owed.who \in Persons /\ owed.ver \in Nat
    BY ListFacts DEF ListIInv, ListTyped
  <2>2. lists[owed.who] \in Nat /\ lists'[owed.who] \in Nat /\ lists[owed.who] <= lists'[owed.who]
    BY <1>2, <2>1 DEF ListIInv, ListTyped
  <2>3. gate.step # "off" => owed.ver <= lists'[owed.who]
    BY <2>1, <2>2 DEF ListIInv, GateOwes
  <2> QED
    BY <1>1, <2>3 DEF ListIInv, GateOwes, ListIsIn, Reaches
<1> QED
  BY <1>3, <1>4, <1>5 DEF ListIInv

LEMMA ReadListKeeps == ASSUME ListIInv, NEW f \in flights, Read(f) PROVE ListIInv'
<1> DEFINE g == [f EXCEPT !.ver = lists[f.who]]
<1>1. /\ UNCHANGED <<user, visit, lists, settling, copy, gate, focus, shown, owed, certs,
                     inProgress>>
      /\ flights' = (flights \ {f}) \cup {g}
  BY DEF Read
<1>2. IsFlight(f) /\ lists[f.who] \in Nat /\ lists[f.who] \in DOMAIN Book[f.who]
  BY DEF ListIInv, ListTyped, IsFlight
<1>3. /\ IsFlight(g) /\ g.by = f.by /\ g.run = f.run /\ g.who = f.who
      /\ g.ver = lists[f.who]
  BY <1>2 DEF IsFlight
<1> HIDE DEF g
<1>4. ListTyped'
  BY <1>1, <1>3 DEF ListIInv, ListTyped, IsFlight
<1>5. RunsFit'
  BY <1>1, <1>3 DEF ListIInv, RunsFit
<1>6. GateOwes'
  <2>1. gate.step = "race" /\ g.by = "gate" /\ g.run = gate.run /\ owed # Nothing =>
          g.ver >= owed.ver
    <3>1. gate.step = "race" /\ g.by = "gate" /\ g.run = gate.run /\ owed # Nothing =>
            owed.ver <= lists[f.who]
      BY <1>3 DEF ListIInv, RunsFit, GateOwes
    <3>2. owed # Nothing => owed.ver \in Nat
      BY ListFacts DEF ListIInv, ListTyped
    <3> QED
      BY <1>2, <1>3, <3>1, <3>2
  <2> QED
    BY <1>1, <2>1 DEF ListIInv, GateOwes, ListIsIn, Reaches
<1> QED
  BY <1>1, <1>4, <1>5, <1>6 DEF ListIInv, HomeHolds, GateForUser

-----------------------------------------------------------------------------
LEMMA SettledGate ==
  ASSUME ListTyped, NEW r
  PROVE  /\ Settled(r) \in Gates
         /\ Settled(r).run = gate.run /\ Settled(r).who = gate.who
         /\ Settled(r).gated = gate.gated
         /\ Settled(r).step = IF gate.step = "race" /\ r = gate.run THEN "off" ELSE gate.step
BY DEF Gates, ListTyped, Settled

LEMMA BehindFits ==
  ASSUME ListTyped, NEW list \in Lists \cup {Nothing}
  PROVE  \A f \in Behind(list) : IsFlight(f) /\ f.by # "gate"
<1> SUFFICES ASSUME user # Nothing, NEW f \in Behind(list) PROVE IsFlight(f) /\ f.by # "gate"
  BY DEF Behind
<1>1. f = [by |-> "home", forced |-> FALSE, who |-> user, visit |-> visit, before |-> list,
           run |-> gate.run, ver |-> 0]
  BY DEF Behind
<1>2. user \in Persons /\ visit \in Nat /\ gate.run \in Nat
  BY DEF ListTyped, Gates
<1>3. f.ver = 0 /\ f.by = "home"
  BY <1>1
<1> QED
  BY <1>1, <1>2, <1>3 DEF IsFlight, Tabs

LEMMA RepaintFits ==
  ASSUME ListTyped, NEW list \in Lists \cup {Nothing}
  PROVE  /\ Repaints(list) \in [Tabs -> Lists \cup {Nothing}]
         /\ user # Nothing /\ list # Nothing => Repaints(list)["home"] = list
BY DEF ListTyped, Repaints, Tabs

\* An answer or a failure changes the copy and what is shown, not the gate or what Home holds.
LEMMA AnswerTypes ==
  ASSUME ListIInv, NEW f \in flights,
         UNCHANGED <<user, visit, lists, gate, focus, certs, inProgress>>,
         flights' = flights \ {f},
         settling' = settling \/ (f.by = "gate" /\ settling' = settling \cup {f.run}),
         copy' \in Lists \cup {Nothing}, owed' \in {owed, Nothing},
         shown' \in [Tabs -> Lists \cup {Nothing}]
  PROVE  ListTyped' /\ RunsFit' /\ HomeHolds' /\ GateForUser'
<1>1. IsFlight(f) /\ f.run \in Nat
  BY DEF ListIInv, ListTyped, IsFlight
<1>2. ListTyped'
  BY <1>1 DEF ListIInv, ListTyped, IsFlight
<1>3. RunsFit'
  BY <1>1 DEF ListIInv, RunsFit
<1> QED
  BY <1>2, <1>3 DEF ListIInv, HomeHolds, GateForUser

LEMMA ArriveKeeps == ASSUME ListIInv, NEW f \in flights, Arrive(f) PROVE ListIInv'
<1> DEFINE list == [who |-> f.who, ver |-> f.ver]
<1>1. /\ f.ver # 0 /\ copy' = list /\ owed' = StillOwed(list) /\ flights' = flights \ {f}
      /\ UNCHANGED <<user, visit, lists, gate, focus, certs, inProgress>>
  BY DEF Arrive
<1>2. IsFlight(f) /\ list \in Lists /\ list # Nothing
  BY <1>1, ListIs, ListFacts DEF ListIInv, ListTyped, IsFlight
<1>3. list.who = f.who /\ list.ver = f.ver
  OBVIOUS
<1>4. \/ /\ f.by # "gate" /\ settling' = settling
         /\ shown' = IF Mounted(f) /\ list # f.before THEN [shown EXCEPT ![f.by] = list] ELSE shown
      \/ f.by = "gate" /\ settling' = settling \cup {f.run} /\ shown' = shown
  BY DEF Arrive
<1> HIDE DEF list
<1>5. /\ shown \in [Tabs -> Lists \cup {Nothing}] /\ (f.by # "gate" => f.by \in Tabs)
      /\ f.run \in Nat
  BY <1>2 DEF ListIInv, ListTyped, IsFlight
<1>6. /\ shown' \in [Tabs -> Lists \cup {Nothing}]
      /\ shown'["home"] \in {shown["home"], list}
  BY <1>2, <1>4, <1>5 DEF Tabs
<1>7. owed' \in {owed, Nothing} /\ copy' \in Lists \cup {Nothing}
  BY <1>1, <1>2 DEF StillOwed
<1>8. ListTyped' /\ RunsFit' /\ HomeHolds' /\ GateForUser'
  BY <1>1, <1>4, <1>6, <1>7, AnswerTypes
<1>9. GateOwes'
  <2> SUFFICES ASSUME owed' # Nothing PROVE GateOwes'
    BY DEF GateOwes
  <2>1. owed' = owed /\ owed # Nothing /\ (ListIsIn => ~Older(list))
    BY <1>1, <1>7 DEF StillOwed
  <2>2. owed.ver \in Nat /\ list.ver \in Nat
    BY <1>2, <2>1, ListFacts DEF ListIInv, ListTyped
  <2>3. ListIsIn' => list.who = owed.who /\ list.ver >= owed.ver
    <3>1. CASE ListIsIn
      BY <2>1, <2>2, <3>1 DEF Older
    <3>2. CASE ~ListIsIn
      <4>1. ListIsIn' => f.by = "gate" /\ gate.step = "race" /\ f.run = gate.run
        BY <1>1, <1>4, <3>2 DEF ListIsIn
      <4> QED
        BY <1>1, <1>3, <2>1, <4>1 DEF ListIInv, RunsFit, GateOwes
    <3> QED
      BY <3>1, <3>2
  <2>4. ListIsIn' => Reaches(copy)'
    BY <1>1, <1>2, <2>1, <2>3 DEF Reaches
  <2>5. gate.step = "off" => Reaches(shown["home"])'
    <3>1. gate.step = "off" => ListIsIn'
      BY <1>1 DEF ListIsIn
    <3> QED
      BY <1>1, <1>2, <1>6, <2>1, <2>3, <3>1 DEF ListIInv, GateOwes, Reaches
  <2> QED
    BY <1>1, <2>1, <2>4, <2>5 DEF ListIInv, GateOwes
<1> QED
  BY <1>8, <1>9 DEF ListIInv

LEMMA FailedKeeps == ASSUME ListIInv, NEW f \in flights, Failed(f) PROVE ListIInv'
<1>1. UNCHANGED <<user, visit, lists, copy, gate, focus, certs, inProgress>> /\ flights' = flights \ {f}
  BY DEF Failed
<1>2. \/ /\ f.by # "gate" /\ settling' = settling
         /\ shown' = IF f.forced /\ Mounted(f) /\ f.before # Nothing
                     THEN [shown EXCEPT ![f.by] = f.before] ELSE shown
         /\ owed' = IF f.forced THEN Nothing ELSE owed
      \/ /\ f.by = "gate" /\ settling' = settling \cup {f.run} /\ shown' = shown
         /\ owed' = IF Racing(f) THEN Nothing ELSE owed
  BY DEF Failed
<1>3. /\ copy \in Lists \cup {Nothing} /\ shown \in [Tabs -> Lists \cup {Nothing}]
      /\ f.before \in Lists \cup {Nothing} /\ (f.by # "gate" => f.by \in Tabs)
  BY DEF ListIInv, ListTyped, IsFlight
<1>4. shown' \in [Tabs -> Lists \cup {Nothing}]
  BY <1>2, <1>3
<1>5. owed' \in {owed, Nothing} /\ (owed' # Nothing => shown' = shown)
  BY <1>2
<1>6. ListTyped' /\ RunsFit' /\ HomeHolds' /\ GateForUser'
  BY <1>1, <1>2, <1>3, <1>4, <1>5, AnswerTypes
<1>7. GateOwes'
  <2>1. CASE owed' = Nothing
    BY <2>1 DEF GateOwes
  <2>2. CASE owed' # Nothing
    <3>1. owed' = owed /\ shown' = shown
      BY <1>5, <2>2
    <3>2. ListIsIn' => ListIsIn
      BY <1>1, <1>2, <2>2 DEF ListIsIn, Racing
    <3> QED
      BY <1>1, <3>1, <3>2 DEF ListIInv, GateOwes, Reaches
  <2> QED
    BY <2>1, <2>2
<1> QED
  BY <1>6, <1>7 DEF ListIInv

\* What the copy holds when the gate settles is what Home shows then.
LEMMA GateSettlesKeeps == ASSUME ListIInv, NEW r \in settling, GateSettles(r) PROVE ListIInv'
<1>1. /\ UNCHANGED <<user, visit, lists, copy, focus, certs, inProgress, owed>>
      /\ settling' = settling \ {r} /\ gate' = Settled(r) /\ shown' = Repaints(copy)
      /\ flights' = flights \cup Behind(copy)
  BY DEF GateSettles, Fetch
<1>2. /\ gate' \in Gates
      /\ gate'.run = gate.run /\ gate'.who = gate.who /\ gate'.gated = gate.gated
      /\ gate'.step = IF gate.step = "race" /\ r = gate.run THEN "off" ELSE gate.step
  BY <1>1, SettledGate DEF ListIInv
<1>3. copy \in Lists \cup {Nothing}
  BY DEF ListIInv, ListTyped
<1>4. \A g \in flights' : g \in flights \/ (IsFlight(g) /\ g.by # "gate")
  BY <1>1, <1>3, BehindFits DEF ListIInv
<1>5. /\ shown' \in [Tabs -> Lists \cup {Nothing}]
      /\ user # Nothing /\ copy # Nothing => shown'["home"] = copy
  BY <1>1, <1>3, RepaintFits DEF ListIInv
<1>6. ListTyped'
  BY <1>1, <1>2, <1>4, <1>5 DEF ListIInv, ListTyped, IsFlight
<1>7. RunsFit'
  BY <1>1, <1>2, <1>4 DEF ListIInv, RunsFit
<1>8. GateOwes'
  <2> SUFFICES ASSUME owed # Nothing PROVE GateOwes'
    BY <1>1 DEF GateOwes
  <2>1. ListIsIn' => ListIsIn
    BY <1>1, <1>2 DEF ListIsIn
  <2>2. gate'.step = "off" => ListIsIn
    BY <1>2 DEF ListIsIn
  <2>3. user # Nothing /\ (ListIsIn => Reaches(copy) /\ shown'["home"] = copy)
    BY <1>5 DEF ListIInv, GateOwes, Reaches
  <2> QED
    BY <1>1, <1>2, <1>4, <2>1, <2>2, <2>3 DEF ListIInv, GateOwes, Reaches
<1> QED
  BY <1>1, <1>2, <1>6, <1>7, <1>8 DEF ListIInv, HomeHolds, GateForUser

LEMMA ListStep == ListIInv /\ [ListNext]_listVars => ListIInv'
<1> SUFFICES ASSUME ListIInv, [ListNext]_listVars PROVE ListIInv'
  OBVIOUS
<1>1. CASE UNCHANGED listVars
  BY <1>1 DEF listVars, ListIInv, ListTyped, IsFlight, HomeHolds, RunsFit, GateOwes, ListIsIn,
     Reaches, GateForUser
<1>2. CASE ListNext
  BY <1>2, SignedInKeeps, SignedOutKeeps, ForegroundKeeps, GateKeeps, ScreensKeep, CertsKeep,
     ChangesKeep, ReadListKeeps, ArriveKeeps, FailedKeeps, GateSettlesKeeps DEF ListNext
<1> QED
  BY <1>1, <1>2

(* Every certificate the phone has still to deliver is on Home exactly     *)
(* once, and every job is under one heading, for any lists and             *)
(* certificates and in any order of answers.                               *)
THEOREM NothingIsHidden == ListSpec => []NothingHidden
<1>1. ASSUME ListIInv PROVE NothingHidden
  <2> SUFFICES ASSUME user # Nothing, focus = "home", ~searching
               PROVE  /\ InProgress(certs) \subseteq inProgress
                      /\ \A c \in inProgress :
                           (c \in Unattached) # (\E w \in Cards : c \in AttachedTo(w))
                      /\ Cards = DOMAIN Records(shown["home"])
    BY DEF NothingHidden
  <2>1. InProgress(certs) \subseteq inProgress
    BY <1>1 DEF ListIInv, HomeHolds
  <2>2. Cards = DOMAIN Records(shown["home"])
    BY DEF Cards, Section, HomeSection
  <2>3. Nothing \notin DOMAIN Records(shown["home"])
    <3>1. CASE shown["home"] = Nothing
      <4>1. DOMAIN Records(shown["home"]) = {}
        BY <3>1 DEF Records
      <4> QED
        BY <4>1
    <3>2. CASE shown["home"] # Nothing
      <4>1. shown["home"] \in Lists
        BY <1>1, <3>2 DEF ListIInv, ListTyped, Tabs
      <4> QED
        BY <3>2, <4>1, ListFacts, BookAssumption DEF Records
    <3> QED
      BY <3>1, <3>2
  <2>4. \A c \in inProgress : (c \in Unattached) # (\E w \in Cards : c \in AttachedTo(w))
    BY <2>2, <2>3 DEF Unattached, AttachedTo
  <2> QED
    BY <2>1, <2>2, <2>4
<1> QED
  BY <1>1, InitList, ListStep, PTL DEF ListSpec

(* Once a gate that was answered in time has settled, Home shows the list  *)
(* of the officer signed in, as new as when the gate closed, whatever      *)
(* other requests are answered, late or fail; until an older answer comes  *)
(* in after the gate's own list, or a forced refresh fails.                *)
THEOREM GateBringsPresent == ListSpec => []SettledIsPresent
<1>1. ListIInv => SettledIsPresent
  BY DEF ListIInv, GateOwes, Reaches, SettledIsPresent
<1> QED
  BY <1>1, InitList, ListStep, PTL DEF ListSpec

(***************************************************************************)
(* The register.                                                           *)
(***************************************************************************)
Listed(seq) == {seq[i] : i \in DOMAIN seq}
Unsent        == Listed(outbox)
RowsFit(seq) ==
  /\ seq \in Seq(Writes)
  /\ \A i, j \in DOMAIN seq : seq[i] = seq[j] => i = j
\* A record is at the service, or will be when its add is delivered.
Known(i) == registry[i] # Absent \/ \E w \in Unsent : w.kind = "add" /\ w.on = i
Changes  == {"edit", "retire"}
Texts    == {"add", "edit", "upsert"}

RegisterTyped ==
  /\ registry \in Registries /\ entered = [r \in RegisterKeys |-> entered[r]]
  /\ RowsFit(outbox) /\ forms \in Nat
  /\ minted \subseteq Ids
  /\ \A i \in Ids \ minted : registry[i] = Absent /\ \A w \in Unsent : w.on # i
\* The queue: a record is written once by a form, and its add is the first of it.
QueueFits ==
  \A w \in Unsent :
    /\ w.form <= forms
    /\ \A v \in Unsent : v.on = w.on /\ v # w =>
                         v.form # w.form /\ (w.kind = "add" => w.form < v.form)
    /\ w.kind = "add" /\ registry[w.on] # Absent => registry[w.on].text >= w.form
\* The form under way is the youngest, of records that are known.
CallFits ==
  call # NoEntry =>
    /\ call \in Forms /\ call.todo # << >>
    /\ \A i, j \in DOMAIN call.todo : call.todo[i].on = call.todo[j].on => i = j
    /\ \A w \in Listed(call.todo) :
         /\ w.form <= forms
         /\ \A v \in Unsent : v.on = w.on => v.form < w.form
         /\ w.kind = "add" => Len(call.todo) = 1 /\ w.on \in Ids
                              /\ (call.answer = Cold => w.on \notin minted)
         /\ w.kind \in Changes => w.on \in Ids /\ Known(w.on)
\* What a list shows, or is to show, is known.
ListsKnow(listing) ==
  listing \in Listings /\ \A i \in Ids : listing[i] # Absent => Known(i)
ScreensFit ==
  /\ copies = [k \in CacheKeys |-> copies[k]] /\ ListsKnow(copies["list"])
  /\ pull # NoPull /\ pull.key = "list" => ListsKnow(pull.answer)
\* A drain's rows are in the queue still.
SyncFits ==
  sync # NoSync =>
    /\ sync = [rows |-> sync.rows, scope |-> sync.scope]
    /\ RowsFit(sync.rows) /\ Listed(sync.rows) \subseteq Unsent
    /\ sync.scope # Cold => /\ sync.scope \in Registries
                            /\ \A i \in Ids : sync.scope[i] # Absent => Known(i)
RegisterFits == RegisterTyped /\ QueueFits /\ CallFits /\ ScreensFit /\ SyncFits

Upon(r) == {w \in Unsent : w.on = r}
\* What a write makes of a record, and that it can be made.
Made(old, w) ==
  IF w.kind = "retire" THEN [text |-> old.text, retired |-> TRUE]
                       ELSE [text |-> w.form, retired |-> old # Absent /\ old.retired]
Makes(old, w, new) ==
  /\ old \in Entries \cup {Absent} /\ (w.kind = "retire" => old # Absent)
  /\ new = Made(old, w)
\* What was told is what the service has with what is still kept.
Matches(said, taken, rows) ==
  /\ rows = {} => said = taken
  /\ rows # {} =>
       /\ said \in Entries
       /\ \A w \in rows : /\ w.kind \in Texts
                          /\ \A v \in rows : v.kind \in Texts => v.form <= w.form
                          => said.text = w.form
       /\ (\A w \in rows : w.kind = "retire") => taken # Absent /\ said.text = taken.text
       /\ said.retired = ((taken # Absent /\ taken.retired) \/ \E w \in rows : w.kind = "retire")
Pending(r) == call # NoEntry /\ call.answer # Cold /\ Head(call.todo).on = r
HeardFits ==
  ~unheard /\ ~overtaken =>
    /\ \A r \in RegisterKeys :
         IF Pending(r) THEN Upon(r) = {} /\ Makes(entered[r], Head(call.todo), registry[r])
                       ELSE Matches(entered[r], registry[r], Upon(r))
    /\ \A w \in Unsent : w.kind = "add" => registry[w.on] \in {Absent, Row(w.form)}
RegisterIInv == RegisterFits /\ HeardFits

(***************************************************************************)
(* The queue as a set of writes, and the writes of one record.             *)
(***************************************************************************)
LEMMA RowsAppend ==
  ASSUME NEW s, RowsFit(s), NEW w \in Writes, w \notin Listed(s)
  PROVE  RowsFit(Append(s, w)) /\ Listed(Append(s, w)) = Listed(s) \cup {w}
  <1> DEFINE t == Append(s, w)
  <1>1. s \in Seq(Writes) /\ t \in Seq(Writes) /\ Len(t) = Len(s) + 1 /\ Len(s) \in Nat
    BY DEF RowsFit
  <1>2. DOMAIN s = 1 .. Len(s) /\ DOMAIN t = 1 .. Len(s) + 1
    BY <1>1
  <1>3. /\ \A i \in 1 .. Len(s) : t[i] = s[i]
        /\ t[Len(s) + 1] = w
    BY <1>1
  <1> HIDE DEF t
  <1>4. \A i, j \in DOMAIN t : t[i] = t[j] => i = j
    BY <1>1, <1>2, <1>3 DEF RowsFit, Listed
  <1>5. Listed(t) = Listed(s) \cup {w}
    BY <1>1, <1>2, <1>3 DEF Listed
  <1>6. QED BY <1>1, <1>4, <1>5 DEF t, RowsFit

LEMMA RowsTail ==
  ASSUME NEW s, RowsFit(s), s # << >>
  PROVE  /\ Head(s) \in Writes /\ Head(s) \in Listed(s)
         /\ RowsFit(Tail(s)) /\ Listed(Tail(s)) = Listed(s) \ {Head(s)}
  <1> DEFINE t == Tail(s)
             h == Head(s)
  <1>1. s \in Seq(Writes) /\ t \in Seq(Writes) /\ Len(t) = Len(s) - 1 /\ Len(s) \in Nat \ {0}
    BY DEF RowsFit
  <1>2. DOMAIN s = 1 .. Len(s) /\ DOMAIN t = 1 .. Len(s) - 1
    BY <1>1
  <1>3. /\ \A i \in 1 .. Len(s) - 1 : t[i] = s[i + 1]
        /\ s[1] = h
    BY <1>1
  <1> HIDE DEF t, h
  <1>4. h \in Writes /\ h \in Listed(s)
    BY <1>1, <1>2, <1>3 DEF Listed
  <1>5. ASSUME NEW i \in 1 .. Len(s) - 1, NEW j \in 1 .. Len(s) - 1, t[i] = t[j] PROVE i = j
    <2>1. i + 1 \in 1 .. Len(s) /\ j + 1 \in 1 .. Len(s) /\ s[i + 1] = s[j + 1]
      BY <1>1, <1>3, <1>5
    <2>2. i + 1 = j + 1
      BY <1>2, <2>1 DEF RowsFit
    <2>3. QED BY <1>1, <2>2
  <1>6. Listed(t) \subseteq Listed(s) \ {h}
    <2>1. SUFFICES ASSUME NEW i \in 1 .. Len(s) - 1 PROVE t[i] \in Listed(s) /\ t[i] # h
      BY <1>2 DEF Listed
    <2>2. i + 1 \in 1 .. Len(s) /\ 1 \in 1 .. Len(s) /\ i + 1 # 1
      BY <1>1
    <2>3. QED BY <1>2, <1>3, <2>2 DEF RowsFit, Listed
  <1>7. ASSUME NEW v \in Listed(s) \ {h} PROVE v \in Listed(t)
    <2>1. PICK i \in 1 .. Len(s) : s[i] = v
      BY <1>2 DEF Listed
    <2>2. i - 1 \in 1 .. Len(s) - 1 /\ t[i - 1] = v
      BY <1>1, <1>3, <2>1
    <2>3. QED BY <1>2, <2>2 DEF Listed
  <1>8. QED BY <1>1, <1>2, <1>4, <1>5, <1>6, <1>7 DEF t, h, RowsFit

LEMMA RowsWithout ==
  ASSUME NEW s, RowsFit(s), NEW w \in Listed(s)
  PROVE  RowsFit(Without(s, w)) /\ Listed(Without(s, w)) = Listed(s) \ {w}
  <1> DEFINE at == CHOOSE i \in DOMAIN s : s[i] = w
             n  == Len(s)
             t  == [i \in 1 .. n - 1 |-> s[IF i < at THEN i ELSE i + 1]]
  <1>1. s \in Seq(Writes) /\ n \in Nat /\ DOMAIN s = 1 .. n
    BY DEF RowsFit
  <1>2. at \in 1 .. n /\ s[at] = w
    BY <1>1 DEF Listed
  <1>3. Without(s, w) = t
    BY DEF Without
  <1> HIDE DEF at, n
  <1>4. DOMAIN t = 1 .. n - 1 /\ n - 1 \in Nat
    BY <1>1, <1>2
  <1>5. \A i \in 1 .. n : s[i] \in Writes
    BY <1>1 DEF n
  <1>6. \A i \in 1 .. n - 1 : IF i < at THEN i \in 1 .. n /\ t[i] = s[i]
                                        ELSE i + 1 \in 1 .. n /\ t[i] = s[i + 1]
    BY <1>1, <1>2
  <1> HIDE DEF t
  <1>7. t \in [1 .. n - 1 -> Writes]
    <2>1. t = [i \in 1 .. n - 1 |-> t[i]]
      BY DEF t
    <2>2. QED BY <1>5, <1>6, <2>1
  <1>8. t \in Seq(Writes)
    BY <1>4, <1>7, SeqDef
  <1>9. ASSUME NEW i \in 1 .. n - 1, NEW j \in 1 .. n - 1, t[i] = t[j] PROVE i = j
    <2>1. \A x, y \in 1 .. n : s[x] = s[y] => x = y
      BY <1>1 DEF RowsFit
    <2>2. QED BY <1>1, <1>2, <1>6, <1>9, <2>1
  <1>10. RowsFit(t)
    BY <1>4, <1>8, <1>9 DEF RowsFit
  <1>11. \A x \in 1 .. n : s[x] = w => x = at
    BY <1>1, <1>2 DEF RowsFit
  <1>12. Listed(t) \subseteq Listed(s) \ {w}
    <2>1. SUFFICES ASSUME NEW i \in 1 .. n - 1 PROVE t[i] \in Listed(s) /\ t[i] # w
      BY <1>4 DEF Listed
    <2>2. PICK x \in 1 .. n : t[i] = s[x] /\ x # at
      BY <1>1, <1>2, <1>6
    <2>3. QED BY <1>1, <1>11, <2>2 DEF Listed
  <1>13. ASSUME NEW v \in Listed(s) \ {w} PROVE v \in Listed(t)
    <2>1. PICK x \in 1 .. n : s[x] = v
      BY <1>1 DEF Listed
    <2>2. x # at
      BY <1>2, <1>13, <2>1
    <2>3. CASE x < at
      <3>1. x \in 1 .. n - 1 /\ t[x] = v
        BY <1>1, <1>2, <1>6, <2>1, <2>3
      <3>2. QED BY <1>4, <3>1 DEF Listed
    <2>4. CASE x > at
      <3>1. x - 1 \in 1 .. n - 1 /\ ~(x - 1 < at) /\ x - 1 + 1 = x
        BY <1>1, <1>2, <2>1, <2>4
      <3>2. t[x - 1] = v
        BY <1>6, <2>1, <3>1
      <3>3. QED BY <1>4, <3>1, <3>2 DEF Listed
    <2>5. QED BY <1>1, <1>2, <2>2, <2>3, <2>4
  <1>14. QED BY <1>3, <1>10, <1>12, <1>13

LEMMA WriteFields ==
  ASSUME NEW w \in Writes
  PROVE  /\ w.kind \in {"add", "edit", "retire", "upsert"} /\ w.on \in RegisterKeys /\ w.form \in Nat
         /\ w = [kind |-> w.kind, on |-> w.on, form |-> w.form]
         /\ (w.kind \in Texts <=> w.kind # "retire")
  BY DEF Writes, Texts

LEMMA EntryFields ==
  /\ \A e \in Entries : e.text \in Nat /\ e.retired \in BOOLEAN
                        /\ e = [text |-> e.text, retired |-> e.retired] /\ e # Absent /\ e # Cold
  /\ \A n \in Nat, b \in BOOLEAN : [text |-> n, retired |-> b] \in Entries
  BY RegisterAssumption DEF Entries

LEMMA MadeFields ==
  ASSUME NEW w \in Writes, NEW old \in Entries \cup {Absent}, w.kind = "retire" => old # Absent
  PROVE  /\ Made(old, w) \in Entries
         /\ Made(old, w).text = (IF w.kind = "retire" THEN old.text ELSE w.form)
         /\ Made(old, w).retired = (w.kind = "retire" \/ (old # Absent /\ old.retired))
  BY WriteFields, EntryFields DEF Made

LEMMA RetiredEntry ==
  ASSUME NEW e, NEW b, e = [text |-> e.text, retired |-> e.retired]
  PROVE  [e EXCEPT !.retired = b] = [text |-> e.text, retired |-> b]
  OBVIOUS

LEMMA WrittenMakes ==
  ASSUME NEW w \in Writes, NEW records, records = [r \in RegisterKeys |-> records[r]],
         records[w.on] \in Entries \cup {Absent}, w.kind = "retire" => records[w.on] # Absent
  PROVE  Written(records, w) = [records EXCEPT ![w.on] = Made(records[w.on], w)]
  <1> DEFINE old  == records[w.on]
             from == IF old \in {Absent, Cold} THEN Row(Absent) ELSE old
  <1>1. from = [text |-> from.text, retired |-> from.retired]
    BY EntryFields DEF Row
  <1>2. old \in Entries => from = old /\ old # Absent
    BY EntryFields
  <1>3. old = Absent => from.retired = FALSE
    BY DEF Row
  <1>4. old \in Entries => old.retired \in BOOLEAN
    BY EntryFields
  <1> HIDE DEF from
  <1>5. w.kind = "retire" => [from EXCEPT !.retired = TRUE] = Made(old, w)
    <2>1. [from EXCEPT !.retired = TRUE] = [text |-> from.text, retired |-> TRUE]
      BY <1>1, RetiredEntry
    <2>2. QED BY <1>2, <2>1 DEF Made
  <1>6. w.kind # "retire" => [from EXCEPT !.text = w.form] = Made(old, w)
    <2>1. [from EXCEPT !.text = w.form] = [text |-> w.form, retired |-> from.retired]
      BY <1>1
    <2>2. from.retired = (old # Absent /\ old.retired)
      BY <1>2, <1>3, <1>4
    <2>3. QED BY <2>1, <2>2 DEF Made
  <1>7. QED BY <1>5, <1>6 DEF Written, from

(***************************************************************************)
(* Matches under a write that is kept, one that is taken, and one that is  *)
(* taken and stays, its answer lost.                                       *)
(***************************************************************************)
LEMMA MatchesKept ==
  ASSUME NEW said, NEW taken \in Entries \cup {Absent}, NEW rows \in SUBSET Writes, NEW w \in Writes,
         Matches(said, taken, rows), \A v \in rows : v.form < w.form,
         w.kind = "retire" => said # Absent
  PROVE  Matches(Made(said, w), taken, rows \cup {w})
  <1> DEFINE now == Made(said, w)
  <1>1. said \in Entries \cup {Absent} /\ (rows # {} => said \in Entries)
    BY DEF Matches
  <1>2. /\ now \in Entries
        /\ now.text = (IF w.kind = "retire" THEN said.text ELSE w.form)
        /\ now.retired = (w.kind = "retire" \/ (said # Absent /\ said.retired))
    BY <1>1, MadeFields
  <1> HIDE DEF now
  <1>3. ASSUME NEW u \in rows \cup {w}, u.kind \in Texts,
               \A v \in rows \cup {w} : v.kind \in Texts => v.form <= u.form
        PROVE  now.text = u.form
    <2>1. CASE w.kind # "retire"
      <3>1. w.form <= u.form /\ w.form \in Nat /\ u.form \in Nat
        BY <1>3, <2>1, WriteFields
      <3>2. u = w
        BY <3>1
      <3>3. QED BY <1>2, <2>1, <3>2
    <2>2. CASE w.kind = "retire"
      <3>1. u \in rows
        BY <1>3, <2>2, WriteFields
      <3>2. said.text = u.form
        BY <1>3, <3>1 DEF Matches
      <3>3. QED BY <1>2, <2>2, <3>2
    <2>3. QED BY <2>1, <2>2
  <1>4. (\A v \in rows \cup {w} : v.kind = "retire") => taken # Absent /\ now.text = taken.text
    BY <1>1, <1>2 DEF Matches
  <1>5. now.retired = ((taken # Absent /\ taken.retired) \/ \E v \in rows \cup {w} : v.kind = "retire")
    <2>1. CASE w.kind = "retire"
      BY <1>2, <2>1
    <2>2. CASE w.kind # "retire"
      <3>1. now.retired = (said # Absent /\ said.retired)
        BY <1>2, <2>2
      <3>2. CASE rows = {}
        BY <2>2, <3>1, <3>2 DEF Matches
      <3>3. CASE rows # {}
        <4>1. said \in Entries /\ said # Absent
          BY <1>1, <3>3, EntryFields
        <4>2. said.retired = ((taken # Absent /\ taken.retired) \/ \E v \in rows : v.kind = "retire")
          BY <3>3 DEF Matches
        <4>3. (\E v \in rows \cup {w} : v.kind = "retire") <=> \E v \in rows : v.kind = "retire"
          BY <2>2
        <4>4. said.retired \in BOOLEAN
          BY <4>1, EntryFields
        <4>5. QED BY <3>1, <4>1, <4>2, <4>3, <4>4
      <3>4. QED BY <3>2, <3>3
    <2>3. QED BY <2>1, <2>2
  <1>6. QED BY <1>2, <1>3, <1>4, <1>5 DEF now, Matches

LEMMA MatchesTaken ==
  ASSUME NEW said, NEW taken \in Entries \cup {Absent}, NEW rows \in SUBSET Writes, NEW w \in rows,
         Matches(said, taken, rows), \A v \in rows : v # w => w.form < v.form,
         w.kind = "retire" => taken # Absent
  PROVE  /\ Matches(said, Made(taken, w), rows)
         /\ Matches(said, Made(taken, w), rows \ {w})
  <1> DEFINE now == Made(taken, w)
             left == rows \ {w}
  <1>1. /\ now \in Entries /\ now # Absent
        /\ now.text = (IF w.kind = "retire" THEN taken.text ELSE w.form)
        /\ now.retired = (w.kind = "retire" \/ (taken # Absent /\ taken.retired))
    BY MadeFields, EntryFields
  <1>2. said \in Entries /\ said.retired \in BOOLEAN
    BY EntryFields DEF Matches
  <1>3. \A u \in rows : /\ u.kind \in Texts
                        /\ \A v \in rows : v.kind \in Texts => v.form <= u.form
                        => said.text = u.form
    BY DEF Matches
  <1>4. (\A v \in rows : v.kind = "retire") => taken # Absent /\ said.text = taken.text
    BY DEF Matches
  <1>5. said.retired = ((taken # Absent /\ taken.retired) \/ \E v \in rows : v.kind = "retire")
    BY DEF Matches
  <1>6. w.form \in Nat /\ \A v \in rows : v.form \in Nat /\ (v.kind \in Texts <=> v.kind # "retire")
    BY WriteFields
  <1> HIDE DEF now
  <1>7. Matches(said, now, rows)
    <2>1. (\A v \in rows : v.kind = "retire") => now # Absent /\ said.text = now.text
      BY <1>1, <1>4
    <2>2. said.retired = ((now # Absent /\ now.retired) \/ \E v \in rows : v.kind = "retire")
      BY <1>1, <1>5
    <2>3. QED BY <1>2, <1>3, <2>1, <2>2 DEF Matches
  <1>8. (\A v \in left : v.kind = "retire") => said.text = now.text
    <2>1. CASE w.kind = "retire"
      BY <1>1, <1>4, <2>1
    <2>2. CASE w.kind # "retire"
      <3>1. SUFFICES ASSUME \A v \in left : v.kind = "retire" PROVE said.text = w.form
        BY <1>1, <2>2
      <3>2. \A v \in rows : v.kind \in Texts => v = w
        BY <1>6, <3>1
      <3>3. w.kind \in Texts /\ \A v \in rows : v.kind \in Texts => v.form <= w.form
        BY <1>6, <2>2, <3>2
      <3>4. QED BY <1>3, <3>3
    <2>3. QED BY <2>1, <2>2
  <1>9. said.retired = (now.retired \/ \E v \in left : v.kind = "retire")
    <2>1. now.retired \in BOOLEAN
      BY <1>1, EntryFields
    <2>2. QED BY <1>1, <1>5, <2>1
  <1>10. Matches(said, now, left)
    <2>1. CASE left = {}
      <3>1. said.text = now.text /\ said.retired = now.retired
        <4>1. now.retired \in BOOLEAN
          BY <1>1, EntryFields
        <4>2. QED BY <1>2, <1>8, <1>9, <2>1, <4>1
      <3>2. said = now
        BY <1>1, <1>2, <3>1, EntryFields
      <3>3. QED BY <2>1, <3>2 DEF Matches
    <2>2. CASE left # {}
      <3>1. ASSUME NEW u \in left, u.kind \in Texts,
                   \A v \in left : v.kind \in Texts => v.form <= u.form
            PROVE  said.text = u.form
        <4>1. u \in rows /\ w.form < u.form
          OBVIOUS
        <4>2. \A v \in rows : v.kind \in Texts => v.form <= u.form
          BY <1>6, <3>1, <4>1
        <4>3. QED BY <1>3, <3>1, <4>1, <4>2
      <3>2. said.retired = ((now # Absent /\ now.retired) \/ \E v \in left : v.kind = "retire")
        BY <1>1, <1>9
      <3>3. QED BY <1>1, <1>2, <1>8, <2>2, <3>1, <3>2 DEF Matches
    <2>3. QED BY <2>1, <2>2
  <1>11. QED BY <1>7, <1>10 DEF now

(***************************************************************************)
(* The steps that leave the records, the queue and what was told alone.    *)
(***************************************************************************)
LEMMA KeyFacts ==
  /\ Ids \subseteq RegisterKeys /\ "site" \in RegisterKeys /\ "detail" \in RegisterKeys
  /\ RegisterKeys \subseteq CacheKeys /\ "list" \in CacheKeys /\ "list" \notin RegisterKeys
  /\ "site" \notin Ids /\ "detail" \notin Ids /\ "site" # "detail" /\ First \in Ids
  /\ Absent \notin Entries /\ Absent \notin Listings
  /\ Cold \notin Entries /\ Cold \notin Registries /\ NoEntry \notin Forms
  BY RegisterAssumption DEF RegisterKeys, CacheKeys

LEMMA ListIsListing ==
  ASSUME NEW records \in Registries
  PROVE  /\ AnswerFor(records, "list") \in Listings /\ AnswerFor(records, "list") # Absent
         /\ \A i \in Ids : AnswerFor(records, "list")[i] = records[i]
  <1>1. \A i \in Ids : records[i] \in Entries \cup {Absent}
    BY KeyFacts DEF Registries
  <1>2. AnswerFor(records, "list") = [i \in Ids |-> records[i]]
    BY DEF AnswerFor
  <1>3. QED BY <1>1, <1>2, KeyFacts DEF Listings

LEMMA StaysTyped ==
  ASSUME RegisterTyped, QueueFits, registry' = registry, minted' = minted, outbox' = outbox,
         entered' = entered, forms' \in Nat, forms' >= forms
  PROVE  RegisterTyped' /\ QueueFits' /\ Unsent' = Unsent /\ \A i \in Ids : Known(i) => Known(i)'
  <1>1. Unsent' = Unsent
    BY DEF Unsent
  <1>2. \A i \in Ids : Known(i) => Known(i)'
    BY <1>1 DEF Known
  <1>3. RegisterTyped'
    BY <1>1 DEF RegisterTyped
  <1>4. QueueFits'
    <2>1. \A w \in Unsent : w \in Writes
      BY DEF RegisterTyped, RowsFit, Unsent, Listed
    <2>2. \A w \in Unsent : w.form <= forms'
      <3>1. \A w \in Unsent : w.form \in Nat /\ w.form <= forms
        BY <2>1, WriteFields DEF QueueFits
      <3>2. QED BY <3>1 DEF RegisterTyped
    <2>3. QED BY <1>1, <2>2 DEF QueueFits
  <1>5. QED BY <1>1, <1>2, <1>3, <1>4

LEMMA ScreensHold ==
  ASSUME ScreensFit, \A i \in Ids : Known(i) => Known(i)', copies' = copies, pull' = pull
  PROVE  ScreensFit'
  BY DEF ScreensFit, ListsKnow

LEMMA SyncHolds ==
  ASSUME SyncFits, \A i \in Ids : Known(i) => Known(i)', Unsent \subseteq Unsent', sync' = sync
  PROVE  SyncFits'
  BY DEF SyncFits

LEMMA CallHolds ==
  ASSUME CallFits, \A i \in Ids : Known(i) => Known(i)', Unsent' \subseteq Unsent, call' = call,
         minted' = minted, forms' = forms
  PROVE  CallFits'
  <1>1. SUFFICES ASSUME call # NoEntry PROVE CallFits'
    BY DEF CallFits
  <1>2. ASSUME NEW w \in Listed(call.todo)
        PROVE  /\ w.form <= forms' /\ \A v \in Unsent' : v.on = w.on => v.form < w.form
               /\ w.kind = "add" => Len(call.todo) = 1 /\ w.on \in Ids
                                    /\ (call.answer = Cold => w.on \notin minted')
               /\ w.kind \in Changes => w.on \in Ids /\ Known(w.on)'
    BY <1>1 DEF CallFits
  <1>3. /\ call \in Forms /\ call.todo # << >>
        /\ \A i, j \in DOMAIN call.todo : call.todo[i].on = call.todo[j].on => i = j
    BY <1>1 DEF CallFits
  <1>4. QED BY <1>2, <1>3 DEF CallFits

\* Nothing is pending before and after, or the same.
LEMMA HeardHolds ==
  ASSUME HeardFits, registry' = registry, outbox' = outbox, entered' = entered,
         ~unheard' => ~unheard, ~overtaken' => ~overtaken,
         \/ call' = call
         \/ ~unheard' => /\ call # NoEntry => call.answer = Cold
                         /\ call' # NoEntry => call'.answer = Cold
  PROVE  HeardFits'
  <1>1. SUFFICES ASSUME ~unheard', ~overtaken' PROVE HeardFits'
    BY DEF HeardFits
  <1>2. Unsent' = Unsent /\ \A r \in RegisterKeys : Upon(r)' = Upon(r)
    BY DEF Unsent, Upon
  <1>3. /\ \A r \in RegisterKeys :
             IF Pending(r) THEN Upon(r) = {} /\ Makes(entered[r], Head(call.todo), registry[r])
                           ELSE Matches(entered[r], registry[r], Upon(r))
        /\ \A w \in Unsent : w.kind = "add" => registry[w.on] \in {Absent, Row(w.form)}
    BY <1>1 DEF HeardFits
  <1>4. CASE call' = call
    <2>1. \A r \in RegisterKeys : Pending(r)' <=> Pending(r)
      BY <1>4 DEF Pending
    <2>2. QED BY <1>2, <1>3, <1>4, <2>1 DEF HeardFits
  <1>5. CASE call' # call
    <2>1. \A r \in RegisterKeys : ~Pending(r) /\ ~Pending(r)'
      BY <1>1, <1>5 DEF Pending
    <2>2. QED BY <1>2, <1>3, <2>1 DEF HeardFits
  <1>6. QED BY <1>4, <1>5

LEMMA InitRegister == RegisterInit => RegisterIInv
  <1> SUFFICES ASSUME RegisterInit PROVE RegisterIInv
    OBVIOUS
  <1>1. registry \in Registries
    BY EntryFields DEF RegisterInit, Registries, Row
  <1>2. Unsent = {}
    BY DEF RegisterInit, Unsent, Listed
  <1>3. RegisterTyped
    <2>1. RowsFit(<< >>)
      BY DEF RowsFit
    <2>2. \A i \in Ids \ {First} : registry[i] = Absent
      BY KeyFacts DEF RegisterInit
    <2>3. entered = [r \in RegisterKeys |-> entered[r]]
      BY DEF RegisterInit
    <2>4. QED BY <1>1, <1>2, <2>1, <2>2, <2>3, KeyFacts DEF RegisterInit, RegisterTyped
  <1>4. QueueFits
    BY <1>2 DEF QueueFits
  <1>5. CallFits /\ SyncFits
    BY DEF RegisterInit, CallFits, SyncFits
  <1>6. ScreensFit
    <2>1. copies = [k \in CacheKeys |-> copies[k]]
      BY DEF RegisterInit, Mirrored
    <2>2. copies["list"] = AnswerFor(registry, "list")
      BY <1>1, ListIsListing, KeyFacts DEF RegisterInit, Mirrored
    <2>3. ListsKnow(copies["list"])
      BY <1>1, <2>2, ListIsListing DEF ListsKnow, Known
    <2>4. QED BY <2>1, <2>3 DEF RegisterInit, ScreensFit
  <1>7. HeardFits
    <2>1. \A r \in RegisterKeys : Upon(r) = {} /\ ~Pending(r)
      BY <1>2 DEF Upon, Pending, RegisterInit
    <2>2. entered = registry
      BY DEF RegisterInit
    <2>3. QED BY <1>2, <2>1, <2>2 DEF HeardFits, Matches
  <1>8. QED BY <1>3, <1>4, <1>5, <1>6, <1>7 DEF RegisterIInv, RegisterFits

LEMMA RegisterParts ==
  ASSUME RegisterIInv
  PROVE  /\ RegisterTyped /\ QueueFits /\ CallFits /\ ScreensFit /\ SyncFits /\ HeardFits
         /\ forms \in Nat /\ registry \in Registries
  BY DEF RegisterIInv, RegisterFits, RegisterTyped

\* Lost and recovered signal, and the screens' requests.
LEMMA PagesKeep ==
  ASSUME RegisterIInv, SignalChanges \/ PageServed \/ PullArrives
  PROVE  RegisterIInv'
  <1>1. /\ UNCHANGED <<registry, minted, outbox, entered, call, sync, forms, unheard, overtaken>>
        /\ forms' \in Nat /\ forms' >= forms
    BY RegisterParts DEF SignalChanges, PageServed, PullArrives, service, held, told
  <1>2. RegisterTyped' /\ QueueFits' /\ Unsent' = Unsent /\ \A i \in Ids : Known(i) => Known(i)'
    BY <1>1, RegisterParts, StaysTyped
  <1>3. CallFits' /\ SyncFits'
    BY <1>1, <1>2, RegisterParts, CallHolds, SyncHolds
  <1>4. HeardFits'
    BY <1>1, RegisterParts, HeardHolds
  <1>5. ScreensFit'
    <2>1. CASE SignalChanges
      BY <1>2, <2>1, RegisterParts, ScreensHold DEF SignalChanges, held
    <2>2. CASE PageServed
      <3>1. PICK k \in Watched \cap ({"site", "list", "detail"} \cup Shown) :
              pull' = [key |-> k, answer |-> IF AnswerFor(registry, k) = Absent THEN Row(Absent)
                                             ELSE AnswerFor(registry, k)]
        BY <2>2 DEF PageServed
      <3>2. k = "list" => pull'.answer = AnswerFor(registry, "list")
        BY <3>1, RegisterParts, ListIsListing
      <3>3. k = "list" => ListsKnow(pull'.answer)
        BY <3>2, RegisterParts, ListIsListing DEF ListsKnow, Known
      <3>4. copies' = copies
        BY <2>2 DEF PageServed, held
      <3>5. pull'.key = k
        BY <3>1
      <3>6. copies = [x \in CacheKeys |-> copies[x]] /\ ListsKnow(copies["list"])
        BY RegisterParts DEF ScreensFit
      <3>7. k = "list" => pull'.answer \in Listings /\ \A i \in Ids : pull'.answer[i] # Absent => Known(i)'
        BY <1>2, <3>3 DEF ListsKnow
      <3>8. copies["list"] \in Listings /\ \A i \in Ids : copies["list"][i] # Absent => Known(i)'
        BY <1>2, <3>6 DEF ListsKnow
      <3>9. QED BY <3>4, <3>5, <3>6, <3>7, <3>8 DEF ScreensFit, ListsKnow
    <2>3. CASE PullArrives
      <3>1. pull # NoPull /\ pull' = NoPull
            /\ (copies' = copies \/ copies' = [copies EXCEPT ![pull.key] = pull.answer])
        BY <2>3 DEF PullArrives
      <3>2. copies = [x \in CacheKeys |-> copies[x]] /\ ListsKnow(copies["list"])
            /\ (pull.key = "list" => ListsKnow(pull.answer))
        BY <3>1, RegisterParts DEF ScreensFit
      <3>3. copies' = [x \in CacheKeys |-> copies'[x]]
        BY <3>1, <3>2
      <3>4. copies'["list"] = copies["list"] \/ (pull.key = "list" /\ copies'["list"] = pull.answer)
        BY <3>1, <3>2, KeyFacts
      <3>5. ListsKnow(copies'["list"])
        BY <3>2, <3>4
      <3>6. copies'["list"] \in Listings /\ \A i \in Ids : copies'["list"][i] # Absent => Known(i)'
        BY <1>2, <3>5 DEF ListsKnow
      <3>7. QED BY <3>1, <3>3, <3>6 DEF ScreensFit, ListsKnow
    <2>4. QED BY <2>1, <2>2, <2>3
  <1>6. QED BY <1>2, <1>3, <1>4, <1>5 DEF RegisterIInv, RegisterFits

\* The sync's steps that take no write.
LEMMA SyncKeeps ==
  ASSUME RegisterIInv, SyncBegins \/ SyncServed \/ SyncArrives \/ SyncFails \/ DrainRefused
  PROVE  RegisterIInv'
  <1>1. /\ UNCHANGED <<registry, minted, outbox, entered, call, pull, forms, unheard, overtaken>>
        /\ forms' \in Nat /\ forms' >= forms
    BY RegisterParts DEF SyncBegins, SyncServed, SyncArrives, SyncFails, DrainRefused, service, held, told
  <1>2. RegisterTyped' /\ QueueFits' /\ Unsent' = Unsent /\ \A i \in Ids : Known(i) => Known(i)'
    BY <1>1, RegisterParts, StaysTyped
  <1>3. CallFits'
    BY <1>1, <1>2, RegisterParts, CallHolds
  <1>4. HeardFits'
    BY <1>1, RegisterParts, HeardHolds
  <1>5. ScreensFit'
    <2>1. CASE ~SyncArrives
      <3>1. copies' = copies
        BY <2>1 DEF SyncBegins, SyncServed, SyncFails, DrainRefused, held
      <3>2. QED BY <1>1, <1>2, <3>1, RegisterParts, ScreensHold
    <2>2. CASE SyncArrives
      <3>1. sync # NoSync /\ sync.scope # Cold /\ copies' = Mirrored(sync.scope, copies)
        BY <2>2 DEF SyncArrives
      <3>2. sync.scope \in Registries /\ \A i \in Ids : sync.scope[i] # Absent => Known(i)
        BY <3>1, RegisterParts DEF SyncFits
      <3>3. copies' = [k \in CacheKeys |-> copies'[k]]
        BY <3>1 DEF Mirrored
      <3>4. copies'["list"] = AnswerFor(sync.scope, "list")
        BY <3>1, <3>2, ListIsListing, KeyFacts DEF Mirrored
      <3>5. copies'["list"] \in Listings /\ \A i \in Ids : copies'["list"][i] # Absent => Known(i)'
        BY <1>2, <3>2, <3>4, ListIsListing
      <3>6. pull # NoPull /\ pull.key = "list" =>
              pull.answer \in Listings /\ \A i \in Ids : pull.answer[i] # Absent => Known(i)'
        BY <1>2, RegisterParts DEF ScreensFit, ListsKnow
      <3>7. QED BY <1>1, <3>3, <3>5, <3>6 DEF ScreensFit, ListsKnow
    <2>3. QED BY <2>1, <2>2
  <1>6. SyncFits'
    <2>1. CASE SyncBegins
      <3>1. sync' = [rows |-> outbox, scope |-> Cold] /\ RowsFit(outbox)
        BY <2>1, RegisterParts DEF SyncBegins, RegisterTyped
      <3>2. QED BY <1>2, <3>1 DEF SyncFits, Unsent
    <2>2. CASE SyncServed
      <3>1. sync # NoSync /\ sync' = [sync EXCEPT !.scope = registry]
        BY <2>2 DEF SyncServed
      <3>2. sync = [rows |-> sync.rows, scope |-> sync.scope]
            /\ RowsFit(sync.rows) /\ Listed(sync.rows) \subseteq Unsent
        BY <3>1, RegisterParts DEF SyncFits
      <3>3. sync' = [rows |-> sync.rows, scope |-> registry]
        BY <3>1, <3>2
      <3>4. \A i \in Ids : registry[i] # Absent => Known(i)'
        BY <1>2 DEF Known
      <3>5. QED BY <1>2, <3>2, <3>3, <3>4, RegisterParts DEF SyncFits
    <2>3. CASE SyncArrives \/ SyncFails
      BY <2>3 DEF SyncArrives, SyncFails, SyncFits
    <2>4. CASE DrainRefused
      <3>1. sync # NoSync /\ sync.rows # << >> /\ sync' = [sync EXCEPT !.rows = Tail(@)]
        BY <2>4 DEF DrainRefused, Draining, Sent
      <3>2. /\ sync = [rows |-> sync.rows, scope |-> sync.scope]
            /\ RowsFit(sync.rows) /\ Listed(sync.rows) \subseteq Unsent
            /\ sync.scope # Cold => /\ sync.scope \in Registries
                                    /\ \A i \in Ids : sync.scope[i] # Absent => Known(i)
        BY <3>1, RegisterParts DEF SyncFits
      <3>3. sync' = [rows |-> Tail(sync.rows), scope |-> sync.scope]
        BY <3>1, <3>2
      <3>4. RowsFit(Tail(sync.rows)) /\ Listed(Tail(sync.rows)) \subseteq Unsent
        BY <3>1, <3>2, RowsTail
      <3>5. QED BY <1>2, <3>2, <3>3, <3>4 DEF SyncFits
    <2>5. QED BY <2>1, <2>2, <2>3, <2>4
  <1>7. QED BY <1>2, <1>3, <1>4, <1>5, <1>6 DEF RegisterIInv, RegisterFits

LEMMA RefusedKeeps ==
  ASSUME RegisterIInv, CallRefused \/ PhoneKilled
  PROVE  RegisterIInv'
  <1>1. /\ UNCHANGED <<registry, minted, copies, outbox, entered, forms, overtaken>>
        /\ forms' \in Nat /\ forms' >= forms /\ call' = NoEntry
    BY RegisterParts DEF CallRefused, PhoneKilled, service, held, told
  <1>2. RegisterTyped' /\ QueueFits' /\ Unsent' = Unsent /\ \A i \in Ids : Known(i) => Known(i)'
    BY <1>1, RegisterParts, StaysTyped
  <1>3. CallFits'
    BY <1>1 DEF CallFits
  <1>4. HeardFits'
    <2>1. ~unheard' => ~unheard /\ (call # NoEntry => call.answer = Cold)
      BY DEF CallRefused, PhoneKilled, told
    <2>2. QED BY <1>1, <2>1, RegisterParts, HeardHolds
  <1>5. ScreensFit' /\ SyncFits'
    <2>1. (pull' = pull /\ sync' = sync) \/ (pull' = NoPull /\ sync' = NoSync)
      BY DEF CallRefused, PhoneKilled
    <2>2. CASE pull' = pull /\ sync' = sync
      BY <1>1, <1>2, <2>2, RegisterParts, ScreensHold, SyncHolds
    <2>3. CASE pull' = NoPull /\ sync' = NoSync
      BY <1>1, <1>2, <2>3, RegisterParts DEF ScreensFit, SyncFits, ListsKnow
    <2>4. QED BY <2>1, <2>2, <2>3
  <1>6. QED BY <1>2, <1>3, <1>4, <1>5 DEF RegisterIInv, RegisterFits

(***************************************************************************)
(* A form, and what the service does with a write.                         *)
(***************************************************************************)
LEMMA SubmitKeeps ==
  ASSUME RegisterIInv, NEW writes \in Seq(Writes), SubmitForm(writes), writes # << >>,
         \A i, j \in DOMAIN writes : writes[i].on = writes[j].on => i = j,
         \A w \in Listed(writes) :
           /\ w.form = forms + 1
           /\ w.kind = "add" => Len(writes) = 1 /\ w.on \in Ids \ minted
           /\ w.kind \in Changes => w.on \in Shown
  PROVE  RegisterIInv'
  <1>1. /\ UNCHANGED <<registry, minted, copies, outbox, entered, pull, sync, unheard, overtaken>>
        /\ forms' = forms + 1 /\ call = NoEntry /\ call' = [todo |-> writes, answer |-> Cold]
    BY DEF SubmitForm, service, held, told
  <1>2. forms \in Nat /\ forms' \in Nat /\ forms' >= forms
    BY <1>1, RegisterParts
  <1>3. RegisterTyped' /\ QueueFits' /\ Unsent' = Unsent /\ \A i \in Ids : Known(i) => Known(i)'
    BY <1>1, <1>2, RegisterParts, StaysTyped
  <1>4. ScreensFit' /\ SyncFits'
    BY <1>1, <1>3, RegisterParts, ScreensHold, SyncHolds
  <1>5. HeardFits'
    BY <1>1, RegisterParts, HeardHolds
  <1>6. CallFits'
    <2>1. call'.todo = writes /\ call'.answer = Cold
      BY <1>1
    <2>2. call' \in Forms
      BY <1>1 DEF Forms
    <2>3. ASSUME NEW w \in Listed(writes)
          PROVE  /\ w.form <= forms' /\ \A v \in Unsent' : v.on = w.on => v.form < w.form
                 /\ w.kind = "add" => Len(writes) = 1 /\ w.on \in Ids /\ w.on \notin minted'
                 /\ w.kind \in Changes => w.on \in Ids /\ Known(w.on)'
      <3>1. \A v \in Unsent : v.form \in Nat /\ v.form <= forms
        <4>1. \A v \in Unsent : v \in Writes
          BY RegisterParts DEF RegisterTyped, RowsFit, Unsent, Listed
        <4>2. QED BY <4>1, RegisterParts, WriteFields DEF QueueFits
      <3>2. \A i \in Shown : i \in Ids /\ Known(i)
        BY RegisterParts DEF Shown, ScreensFit, ListsKnow
      <3>3. QED BY <1>1, <1>2, <1>3, <2>3, <3>1, <3>2
    <2>4. QED BY <2>1, <2>2, <2>3 DEF CallFits
  <1>7. QED BY <1>3, <1>4, <1>5, <1>6 DEF RegisterIInv, RegisterFits

LEMMA FreshIsNew ==
  ASSUME minted \subseteq Ids, minted # Ids
  PROVE  Fresh \in Ids \ minted
  BY DEF Fresh

LEMMA FormsKeep ==
  ASSUME RegisterIInv, SubmitAdd \/ Retire \/ SubmitIdentity
  PROVE  RegisterIInv'
  <1>1. forms \in Nat /\ minted \subseteq Ids
    BY RegisterParts DEF RegisterTyped
  <1>2. Shown \subseteq Ids
    BY DEF Shown
  <1>3. CASE SubmitAdd
    <2> DEFINE w == FormWrite("add", Fresh)
    <2>1. Fresh \in Ids \ minted /\ SubmitForm(<<w>>)
      BY <1>1, <1>3, FreshIsNew DEF SubmitAdd
    <2>2. w \in Writes /\ w.form = forms + 1 /\ w.kind = "add" /\ w.on = Fresh
      BY <1>1, <2>1, KeyFacts DEF FormWrite, Writes
    <2> HIDE DEF w
    <2>3. <<w>> \in Seq(Writes) /\ <<w>> # << >> /\ Len(<<w>>) = 1 /\ DOMAIN <<w>> = {1}
          /\ Listed(<<w>>) = {w}
      BY <2>2 DEF Listed
    <2>4. w.kind \notin Changes
      BY <2>2 DEF Changes
    <2>5. QED BY <2>1, <2>2, <2>3, <2>4, SubmitKeeps
  <1>4. CASE Retire
    <2>1. PICK i \in Shown : SubmitForm(<<FormWrite("retire", i)>>)
      BY <1>4 DEF Retire
    <2> DEFINE w == FormWrite("retire", i)
    <2>2. w \in Writes /\ w.form = forms + 1 /\ w.kind = "retire" /\ w.on = i
      BY <1>1, <1>2, <2>1, KeyFacts DEF FormWrite, Writes
    <2>3. SubmitForm(<<w>>)
      BY <2>1
    <2> HIDE DEF w
    <2>4. <<w>> \in Seq(Writes) /\ <<w>> # << >> /\ DOMAIN <<w>> = {1} /\ Listed(<<w>>) = {w}
      BY <2>2 DEF Listed
    <2>5. QED BY <2>2, <2>3, <2>4, SubmitKeeps
  <1>5. CASE SubmitIdentity
    <2>1. PICK i \in Shown :
            SubmitForm(<<FormWrite("upsert", "site"), FormWrite("edit", i),
                         FormWrite("upsert", "detail")>>)
      BY <1>5 DEF SubmitIdentity
    <2> DEFINE a == FormWrite("upsert", "site")
               b == FormWrite("edit", i)
               c == FormWrite("upsert", "detail")
               all == <<a, b, c>>
    <2>2. /\ a \in Writes /\ a.form = forms + 1 /\ a.kind = "upsert" /\ a.on = "site"
          /\ b \in Writes /\ b.form = forms + 1 /\ b.kind = "edit" /\ b.on = i
          /\ c \in Writes /\ c.form = forms + 1 /\ c.kind = "upsert" /\ c.on = "detail"
      BY <1>1, <1>2, <2>1, KeyFacts DEF FormWrite, Writes
    <2>3. SubmitForm(all)
      BY <2>1
    <2> HIDE DEF a, b, c
    <2>4. /\ all \in Seq(Writes) /\ all # << >> /\ DOMAIN all = {1, 2, 3}
          /\ all[1] = a /\ all[2] = b /\ all[3] = c /\ Listed(all) = {a, b, c}
      BY <2>2 DEF Listed
    <2> HIDE DEF all
    <2>5. \A x, y \in DOMAIN all : all[x].on = all[y].on => x = y
      BY <1>2, <2>1, <2>2, <2>4, KeyFacts
    <2>6. \A w \in Listed(all) :
           /\ w.form = forms + 1
           /\ w.kind = "add" => Len(all) = 1 /\ w.on \in Ids \ minted
           /\ w.kind \in Changes => w.on \in Shown
      BY <2>1, <2>2, <2>4 DEF Changes
    <2>7. QED BY <2>3, <2>4, <2>5, <2>6, SubmitKeeps
  <1>6. QED BY <1>3, <1>4, <1>5

LEMMA ServeTakes ==
  ASSUME RegisterTyped, NEW w \in Writes, Serve(w)
  PROVE  /\ registry[w.on] \in Entries \cup {Absent} /\ (w.kind = "retire" => registry[w.on] # Absent)
         /\ w.kind = "add" => registry[w.on] = Absent
         /\ registry' \in Registries /\ registry'[w.on] = Made(registry[w.on], w)
         /\ registry'[w.on] \in Entries
         /\ \A r \in RegisterKeys : r # w.on => registry'[r] = registry[r]
         /\ Has(registry', w)
  <1>1. w.on \in RegisterKeys /\ registry \in Registries
    BY WriteFields DEF RegisterTyped
  <1>2. /\ registry[w.on] \in Entries \cup {Absent} /\ (w.kind = "retire" => registry[w.on] # Absent)
        /\ w.kind = "add" => registry[w.on] = Absent
    BY <1>1 DEF Serve, Registered, Unknown, Registries
  <1>3. registry = [r \in RegisterKeys |-> registry[r]]
    BY <1>1 DEF Registries
  <1>4. registry' = [registry EXCEPT ![w.on] = Made(registry[w.on], w)]
    BY <1>2, <1>3, WrittenMakes DEF Serve
  <1>5. Made(registry[w.on], w) \in Entries
    BY <1>2, MadeFields
  <1>6. registry' \in Registries /\ registry'[w.on] = Made(registry[w.on], w)
        /\ \A r \in RegisterKeys : r # w.on => registry'[r] = registry[r]
    BY <1>1, <1>4, <1>5 DEF Registries
  <1>7. Has(registry', w)
    <2>1. w.form \in Nat /\ (w.kind = "retire" => registry'[w.on].retired)
          /\ (w.kind # "retire" => registry'[w.on].text = w.form)
      BY <1>2, <1>6, MadeFields, WriteFields
    <2>2. QED BY <1>5, <1>6, <2>1, EntryFields DEF Has
  <1>8. QED BY <1>2, <1>5, <1>6, <1>7

\* A kept add says no less at the service once a younger write of its record is taken.
LEMMA AddStillFits ==
  ASSUME RegisterTyped, QueueFits, NEW w \in Writes, Serve(w), NEW v \in Unsent, v.kind = "add",
         v = w \/ v.on # w.on \/ v.form < w.form
  PROVE  registry'[v.on] # Absent => registry'[v.on].text >= v.form
  <1>1. v \in Writes
    BY DEF RegisterTyped, RowsFit, Unsent, Listed
  <1>2. v.form \in Nat /\ w.form \in Nat /\ v.on \in RegisterKeys
    BY <1>1, WriteFields
  <1>3. registry[v.on] # Absent => registry[v.on].text >= v.form
    BY DEF QueueFits
  <1>4. CASE v.on # w.on
    BY <1>2, <1>3, <1>4, ServeTakes
  <1>5. CASE v.on = w.on
    <2>1. registry'[v.on].text = (IF w.kind = "retire" THEN registry[v.on].text ELSE w.form)
      BY <1>5, ServeTakes, MadeFields
    <2>2. w.kind = "retire" => registry[v.on] # Absent
      BY <1>5, ServeTakes
    <2>3. QED BY <1>2, <1>3, <1>5, <2>1, <2>2
  <1>6. QED BY <1>4, <1>5

\* Taking a write forgets no record.
LEMMA ServeKnows ==
  ASSUME RegisterTyped, NEW w \in Writes, Serve(w), Unsent' = Unsent \/ Unsent' = Unsent \ {w}
  PROVE  \A i \in Ids : Known(i) => Known(i)'
  <1>1. SUFFICES ASSUME NEW i \in Ids, Known(i) PROVE Known(i)'
    OBVIOUS
  <1>2. i \in RegisterKeys
    BY KeyFacts
  <1>3. registry[i] # Absent \/ i = w.on => registry'[i] # Absent
    BY <1>2, ServeTakes, KeyFacts
  <1>4. CASE registry'[i] # Absent
    BY <1>4 DEF Known
  <1>5. CASE registry'[i] = Absent
    <2>1. PICK v \in Unsent : v.kind = "add" /\ v.on = i
      BY <1>1, <1>3, <1>5 DEF Known
    <2>2. v \in Unsent'
      BY <1>3, <1>5, <2>1
    <2>3. QED BY <2>1, <2>2 DEF Known
  <1>6. QED BY <1>4, <1>5

LEMMA UnsentFacts ==
  ASSUME RegisterIInv
  PROVE  /\ \A w \in Unsent : w \in Writes /\ w.on \in RegisterKeys /\ w.form \in Nat /\ w.form <= forms
         /\ Unsent = Listed(outbox) /\ RowsFit(outbox)
         /\ \A r : Upon(r) \subseteq Unsent /\ Upon(r) \in SUBSET Writes
  <1>1. \A w \in Unsent : w \in Writes
    BY RegisterParts DEF RegisterTyped, RowsFit, Unsent, Listed
  <1>2. QED BY <1>1, WriteFields, RegisterParts DEF QueueFits, Upon, Unsent, RegisterTyped

\* No older write of the record is kept: the one taken is the first.
LEMMA NotOvertaken ==
  ASSUME NEW w, Serve(w), ~overtaken'
  PROVE  ~overtaken /\ \A v \in Unsent : v.on = w.on => ~(v.form < w.form)
  BY DEF Serve, Unsent, Listed

(***************************************************************************)
(* The calls of a form.                                                    *)
(***************************************************************************)
LEMMA CallFacts ==
  ASSUME RegisterIInv, call # NoEntry
  PROVE  LET w == Head(call.todo) IN
         /\ call = [todo |-> call.todo, answer |-> call.answer]
         /\ call.todo \in Seq(Writes) /\ call.todo # << >> /\ call.answer \in Entries \cup {Cold}
         /\ w \in Writes /\ w.on \in RegisterKeys /\ w.form \in Nat /\ w.form <= forms
         /\ w \in Listed(call.todo) /\ RowsFit(call.todo)
         /\ \A v \in Unsent : v.on = w.on => v.form < w.form
         /\ w.kind = "add" => Len(call.todo) = 1 /\ w.on \in Ids
                              /\ (call.answer = Cold => w.on \notin minted)
         /\ w.kind \in Changes => w.on \in Ids /\ Known(w.on)
  <1>1. /\ call \in Forms /\ call.todo # << >>
        /\ \A i, j \in DOMAIN call.todo : call.todo[i].on = call.todo[j].on => i = j
        /\ \A w \in Listed(call.todo) :
             /\ w.form <= forms
             /\ \A v \in Unsent : v.on = w.on => v.form < w.form
             /\ w.kind = "add" => Len(call.todo) = 1 /\ w.on \in Ids
                                  /\ (call.answer = Cold => w.on \notin minted)
             /\ w.kind \in Changes => w.on \in Ids /\ Known(w.on)
    BY RegisterParts DEF CallFits
  <1>2. call = [todo |-> call.todo, answer |-> call.answer]
        /\ call.todo \in Seq(Writes) /\ call.answer \in Entries \cup {Cold}
    BY <1>1 DEF Forms
  <1>3. RowsFit(call.todo)
    BY <1>1, <1>2 DEF RowsFit
  <1>4. Head(call.todo) \in Writes /\ Head(call.todo) \in Listed(call.todo)
    BY <1>1, <1>3, RowsTail
  <1>5. QED BY <1>1, <1>2, <1>3, <1>4, WriteFields

\* The rest of a form is of other records than its first write.
LEMMA ProceedFacts ==
  ASSUME RegisterIInv, call # NoEntry, Proceed, call' # NoEntry
  PROVE  /\ Len(call.todo) # 1 /\ call'.answer = Cold /\ call'.todo = Tail(call.todo)
         /\ call' \in Forms /\ call'.todo # << >>
         /\ \A i, j \in DOMAIN call'.todo : call'.todo[i].on = call'.todo[j].on => i = j
         /\ \A w \in Listed(call'.todo) :
              /\ w.on # Head(call.todo).on /\ w.kind # "add" /\ w.form <= forms
              /\ \A v \in Unsent : v.on = w.on => v.form < w.form
              /\ w.kind \in Changes => w.on \in Ids /\ Known(w.on)
  <1> DEFINE s == call.todo
             t == Tail(s)
  <1>1. /\ Len(s) # 1 /\ call' = [call EXCEPT !.todo = t, !.answer = Cold]
    BY DEF Proceed
  <1>2. call = [todo |-> s, answer |-> call.answer] /\ s \in Seq(Writes) /\ s # << >> /\ RowsFit(s)
    BY CallFacts
  <1>3. call' = [todo |-> t, answer |-> Cold]
    BY <1>1, <1>2
  <1>4. t \in Seq(Writes) /\ Len(t) = Len(s) - 1 /\ Len(s) \in Nat /\ t # << >>
        /\ DOMAIN t = 1 .. Len(s) - 1 /\ DOMAIN s = 1 .. Len(s)
        /\ (\A i \in 1 .. Len(s) - 1 : t[i] = s[i + 1]) /\ s[1] = Head(s)
    <2>1. s \in Seq(Writes) /\ s # << >> /\ Len(s) \in Nat \ {0} /\ DOMAIN s = 1 .. Len(s) /\ Len(s) # 1
      BY <1>1, <1>2
    <2>2. t \in Seq(Writes) /\ Len(t) = Len(s) - 1 /\ s[1] = Head(s)
          /\ \A i \in 1 .. Len(s) - 1 : t[i] = s[i + 1]
      BY <2>1
    <2> HIDE DEF t
    <2>3. DOMAIN t = 1 .. Len(t) /\ (t = << >> => Len(t) = 0)
      BY <2>2, LenProperties, EmptySeq
    <2>4. QED BY <2>1, <2>2, <2>3
  <1>5. \A i, j \in DOMAIN s : s[i].on = s[j].on => i = j
    BY RegisterParts DEF CallFits
  <1>6. ASSUME NEW i \in DOMAIN t, NEW j \in DOMAIN t, t[i].on = t[j].on PROVE i = j
    <2>1. i + 1 \in DOMAIN s /\ j + 1 \in DOMAIN s /\ s[i + 1].on = s[j + 1].on
      BY <1>4, <1>6
    <2>2. i + 1 = j + 1
      BY <1>5, <2>1
    <2>3. QED BY <1>4, <2>2
  <1>7. ASSUME NEW w \in Listed(t) PROVE w.on # Head(s).on /\ w \in Listed(s)
    <2>1. PICK i \in 1 .. Len(s) - 1 : w = t[i]
      BY <1>4 DEF Listed
    <2>2. i + 1 \in DOMAIN s /\ 1 \in DOMAIN s /\ i + 1 # 1 /\ w = s[i + 1]
      BY <1>4, <2>1
    <2>3. QED BY <1>4, <1>5, <2>2 DEF Listed
  <1>8. ASSUME NEW w \in Listed(t)
        PROVE  /\ w.kind # "add" /\ w.form <= forms
               /\ \A v \in Unsent : v.on = w.on => v.form < w.form
               /\ w.kind \in Changes => w.on \in Ids /\ Known(w.on)
    BY <1>1, <1>7, <1>8, RegisterParts DEF CallFits
  <1>9. call'.todo = t /\ call'.answer = Cold /\ call' \in Forms
    BY <1>3, <1>4 DEF Forms
  <1> HIDE DEF t
  <1>10. QED BY <1>1, <1>4, <1>6, <1>7, <1>8, <1>9 DEF t

LEMMA ServedKeeps == ASSUME RegisterIInv, CallServed PROVE RegisterIInv'
  <1> DEFINE w == Head(call.todo)
  <1>1. /\ call # NoEntry /\ call.answer = Cold /\ Serve(w) /\ minted' = minted \cup ({w.on} \cap Ids)
        /\ call' = [call EXCEPT !.answer = registry'[w.on]]
        /\ UNCHANGED <<copies, outbox, entered, unheard, pull, sync, forms>>
    BY DEF CallServed, held, told
  <1>2. /\ call = [todo |-> call.todo, answer |-> call.answer]
        /\ call.todo \in Seq(Writes) /\ call.todo # << >>
        /\ w \in Writes /\ w.on \in RegisterKeys /\ w.form \in Nat
        /\ \A v \in Unsent : v.on = w.on => v.form < w.form
    BY <1>1, CallFacts
  <1>3. RegisterTyped /\ Unsent' = Unsent
    BY <1>1, RegisterParts DEF Unsent
  <1> HIDE DEF w
  <1>4. /\ registry[w.on] \in Entries \cup {Absent} /\ (w.kind = "retire" => registry[w.on] # Absent)
        /\ registry' \in Registries /\ registry'[w.on] = Made(registry[w.on], w)
        /\ registry'[w.on] \in Entries
        /\ \A r \in RegisterKeys : r # w.on => registry'[r] = registry[r]
    BY <1>1, <1>2, <1>3, ServeTakes
  <1>5. \A i \in Ids : Known(i) => Known(i)'
    BY <1>1, <1>2, <1>3, ServeKnows
  <1>6. call' = [todo |-> call.todo, answer |-> registry'[w.on]]
    BY <1>1, <1>2
  <1>7. call'.todo = call.todo /\ call'.answer = registry'[w.on] /\ call' \in Forms
        /\ call' # NoEntry /\ call'.answer # Cold
    BY <1>2, <1>4, <1>6, KeyFacts DEF Forms
  <1>8. RegisterTyped'
    <2>1. \A i \in Ids \ minted' : i # w.on /\ i \in Ids \ minted /\ i \in RegisterKeys
      BY <1>1, KeyFacts
    <2>2. minted' \subseteq Ids
      BY <1>1, <1>3 DEF RegisterTyped
    <2>3. \A i \in Ids \ minted' : registry'[i] = Absent /\ \A v \in Unsent' : v.on # i
      BY <1>3, <1>4, <2>1 DEF RegisterTyped
    <2>4. QED BY <1>1, <1>3, <1>4, <2>2, <2>3 DEF RegisterTyped
  <1>9. QueueFits'
    <2>1. \A v \in Unsent : v.kind = "add" /\ registry'[v.on] # Absent => registry'[v.on].text >= v.form
      BY <1>1, <1>2, <1>3, RegisterParts, AddStillFits
    <2>2. QED BY <1>1, <1>3, <2>1, RegisterParts DEF QueueFits
  <1>10. CallFits'
    <2>1. \A v \in Listed(call.todo) : /\ v.form <= forms
                                       /\ \A u \in Unsent : u.on = v.on => u.form < v.form
                                       /\ v.kind = "add" => Len(call.todo) = 1 /\ v.on \in Ids
                                       /\ v.kind \in Changes => v.on \in Ids /\ Known(v.on)'
      BY <1>1, <1>5, RegisterParts DEF CallFits
    <2>2. \A i, j \in DOMAIN call.todo : call.todo[i].on = call.todo[j].on => i = j
      BY <1>1, RegisterParts DEF CallFits
    <2>3. QED BY <1>1, <1>2, <1>3, <1>7, <2>1, <2>2 DEF CallFits
  <1>11. ScreensFit' /\ SyncFits'
    BY <1>1, <1>3, <1>5, RegisterParts, ScreensHold, SyncHolds
  <1>12. HeardFits'
    <2>1. SUFFICES ASSUME ~unheard', ~overtaken' PROVE HeardFits'
      BY DEF HeardFits
    <2>2. ~unheard /\ ~overtaken /\ Upon(w.on) = {}
      BY <1>1, <1>2, <2>1, NotOvertaken DEF Upon
    <2>3. /\ \A r \in RegisterKeys : Matches(entered[r], registry[r], Upon(r))
          /\ \A v \in Unsent : v.kind = "add" => registry[v.on] \in {Absent, Row(v.form)}
      BY <1>1, <2>2, RegisterParts DEF HeardFits, Pending
    <2>4. entered[w.on] = registry[w.on]
      BY <1>2, <2>2, <2>3 DEF Matches
    <2>5. \A r : Upon(r)' = Upon(r)
      BY <1>3 DEF Upon
    <2>6. \A r \in RegisterKeys : Pending(r)' <=> r = w.on
      BY <1>7 DEF Pending, w
    <2>7. Head(call'.todo) = w
      BY <1>7 DEF w
    <2>8. \A r \in RegisterKeys \ {w.on} : Matches(entered'[r], registry'[r], Upon(r)')
      BY <1>1, <1>4, <2>3, <2>5
    <2>9. Makes(entered'[w.on], w, registry'[w.on])
      BY <1>1, <1>4, <2>4 DEF Makes
    <2>10. \A v \in Unsent : v.on # w.on /\ v.on \in RegisterKeys
      BY <2>2, UnsentFacts DEF Upon
    <2>11. QED BY <1>3, <1>4, <2>2, <2>3, <2>5, <2>6, <2>7, <2>8, <2>9, <2>10 DEF HeardFits
  <1>13. QED BY <1>8, <1>9, <1>10, <1>11, <1>12 DEF RegisterIInv, RegisterFits

LEMMA AnsweredKeeps == ASSUME RegisterIInv, CallAnswered PROVE RegisterIInv'
  <1> DEFINE w == Head(call.todo)
  <1>1. /\ call # NoEntry /\ call.answer # Cold /\ entered' = Written(entered, w) /\ Proceed
        /\ copies' = [copies EXCEPT ![w.on] = call.answer]
        /\ UNCHANGED <<registry, minted, overtaken, outbox, unheard, pull, sync, forms>>
    BY DEF CallAnswered, Accepted, service
  <1>2. w \in Writes /\ w.on \in RegisterKeys
    BY <1>1, CallFacts
  <1>3. Unsent' = Unsent /\ \A i \in Ids : Known(i) => Known(i)'
    BY <1>1 DEF Unsent, Known
  <1>4. entered = [r \in RegisterKeys |-> entered[r]]
    BY RegisterParts DEF RegisterTyped
  <1>5. entered' = [r \in RegisterKeys |-> entered'[r]] /\ \A r \in RegisterKeys : r # w.on => entered'[r] = entered[r]
    <2> DEFINE e == IF w.kind = "retire"
                    THEN [(IF entered[w.on] \in {Absent, Cold} THEN Row(Absent) ELSE entered[w.on])
                            EXCEPT !.retired = TRUE]
                    ELSE [(IF entered[w.on] \in {Absent, Cold} THEN Row(Absent) ELSE entered[w.on])
                            EXCEPT !.text = w.form]
    <2>1. entered' = [entered EXCEPT ![w.on] = e]
      BY <1>1 DEF Written
    <2> HIDE DEF e, w
    <2>2. QED BY <1>2, <1>4, <2>1
  <1>6. RegisterTyped'
    BY <1>1, <1>3, <1>5, RegisterParts DEF RegisterTyped
  <1>7. QueueFits'
    BY <1>1, <1>3, RegisterParts DEF QueueFits
  <1>8. CallFits'
    <2>1. SUFFICES ASSUME call' # NoEntry PROVE CallFits'
      BY DEF CallFits
    <2>2. QED BY <1>1, <1>3, <2>1, ProceedFacts DEF CallFits
  <1>9. SyncFits'
    BY <1>1, <1>3, RegisterParts, SyncHolds
  <1>10. ScreensFit'
    <2>1. copies' = [k \in CacheKeys |-> copies'[k]] /\ copies'["list"] = copies["list"]
      <3>1. copies = [k \in CacheKeys |-> copies[k]]
        BY RegisterParts DEF ScreensFit
      <3>2. w.on # "list"
        BY <1>2, KeyFacts
      <3> HIDE DEF w
      <3>3. QED BY <1>1, <3>1, <3>2, KeyFacts
    <2>2. QED BY <1>1, <1>3, <2>1, RegisterParts DEF ScreensFit, ListsKnow
  <1>11. HeardFits'
    <2>1. SUFFICES ASSUME ~unheard', ~overtaken' PROVE HeardFits'
      BY DEF HeardFits
    <2>2. ~unheard /\ ~overtaken
      BY <1>1, <2>1
    <2>3. \A r : Upon(r)' = Upon(r)
      BY <1>3 DEF Upon
    <2>4. \A r \in RegisterKeys : ~Pending(r)'
      BY <1>1, ProceedFacts DEF Pending
    <2>5. \A r \in RegisterKeys : Pending(r) <=> r = w.on
      BY <1>1 DEF Pending
    <2>6. Upon(w.on) = {} /\ Makes(entered[w.on], w, registry[w.on])
      BY <1>2, <2>2, <2>5, RegisterParts DEF HeardFits
    <2>7. entered'[w.on] = registry[w.on]
      <3>1. entered' = [entered EXCEPT ![w.on] = Made(entered[w.on], w)]
        BY <1>1, <1>2, <1>4, <2>6, WrittenMakes DEF Makes
      <3> HIDE DEF w
      <3>2. QED BY <1>2, <1>4, <2>6, <3>1 DEF Makes
    <2>8. Matches(entered'[w.on], registry[w.on], Upon(w.on))
      BY <2>6, <2>7 DEF Matches
    <2>9. \A r \in RegisterKeys \ {w.on} : Matches(entered'[r], registry[r], Upon(r))
      BY <1>5, <2>2, <2>5, RegisterParts DEF HeardFits
    <2>10. \A v \in Unsent : v.kind = "add" => registry[v.on] \in {Absent, Row(v.form)}
      BY <2>2, RegisterParts DEF HeardFits
    <2>11. QED BY <1>1, <1>3, <2>3, <2>4, <2>8, <2>9, <2>10 DEF HeardFits
  <1>12. QED BY <1>6, <1>7, <1>8, <1>9, <1>10, <1>11 DEF RegisterIInv, RegisterFits

\* The write a call without an answer leaves behind: an add under a new id.
KeptWrite ==
  IF Head(call.todo).kind = "add" THEN [Head(call.todo) EXCEPT !.on = Fresh] ELSE Head(call.todo)

LEMMA KeptFacts ==
  ASSUME RegisterIInv, CallLost
  PROVE  /\ KeptWrite \in Writes /\ KeptWrite.on \in RegisterKeys /\ KeptWrite.form \in Nat
         /\ KeptWrite.form <= forms
         /\ KeptWrite.kind = Head(call.todo).kind
         /\ KeptWrite.kind = "add" => KeptWrite.on \in Ids \ minted
         /\ KeptWrite.kind # "add" => KeptWrite = Head(call.todo)
         /\ KeptWrite.kind \in Changes => Known(KeptWrite.on)
         /\ \A v \in Unsent : v.on = KeptWrite.on => v.form < KeptWrite.form
         /\ KeptWrite.kind = "add" => registry[KeptWrite.on] = Absent /\ Upon(KeptWrite.on) = {}
         /\ RowsFit(outbox') /\ Unsent' = Unsent \cup {KeptWrite}
  <1> DEFINE w == Head(call.todo)
  <1>1. call # NoEntry /\ (w.kind = "add" => minted # Ids) /\ outbox' = Append(outbox, KeptWrite)
    BY DEF CallLost, KeptWrite
  <1>2. /\ w \in Writes /\ w.on \in RegisterKeys /\ w.form \in Nat /\ w.form <= forms
        /\ \A v \in Unsent : v.on = w.on => v.form < w.form
        /\ w.kind \in Changes => Known(w.on)
    BY <1>1, CallFacts
  <1>3. minted \subseteq Ids /\ \A i \in Ids \ minted : registry[i] = Absent /\ \A v \in Unsent : v.on # i
    BY RegisterParts DEF RegisterTyped
  <1>4. w.kind = "add" => Fresh \in Ids \ minted
    BY <1>1, <1>3, FreshIsNew
  <1>5. w = [kind |-> w.kind, on |-> w.on, form |-> w.form]
    BY <1>2, WriteFields
  <1> HIDE DEF w
  <1>6. w.kind = "add" => KeptWrite = [kind |-> w.kind, on |-> Fresh, form |-> w.form]
    BY <1>5 DEF KeptWrite, w
  <1>7. w.kind # "add" => KeptWrite = w
    BY DEF KeptWrite, w
  <1>8. /\ KeptWrite \in Writes /\ KeptWrite.on \in RegisterKeys /\ KeptWrite.form = w.form
        /\ KeptWrite.kind = w.kind
    <2>1. CASE w.kind = "add"
      BY <1>2, <1>4, <1>6, <2>1, KeyFacts, WriteFields DEF Writes
    <2>2. CASE w.kind # "add"
      BY <1>2, <1>7, <2>2
    <2>3. QED BY <2>1, <2>2
  <1>9. KeptWrite.kind = "add" => KeptWrite.on = Fresh
    BY <1>6, <1>8
  <1>10. \A v \in Unsent : v.on = KeptWrite.on => v.form < KeptWrite.form
    BY <1>2, <1>3, <1>4, <1>7, <1>8, <1>9
  <1>11. KeptWrite \notin Unsent
    BY <1>2, <1>8, <1>10
  <1>12. RowsFit(outbox') /\ Unsent' = Unsent \cup {KeptWrite}
    <2>1. RowsFit(outbox) /\ KeptWrite \notin Listed(outbox)
      BY <1>11, UnsentFacts
    <2>2. QED BY <1>1, <1>8, <2>1, RowsAppend DEF Unsent
  <1>13. KeptWrite.kind = "add" => registry[KeptWrite.on] = Absent /\ Upon(KeptWrite.on) = {}
    BY <1>3, <1>4, <1>8, <1>9 DEF Upon
  <1>14. KeptWrite.kind \in Changes => Known(KeptWrite.on)
    BY <1>2, <1>7, <1>8 DEF Changes
  <1>15. QED BY <1>2, <1>4, <1>7, <1>8, <1>9, <1>10, <1>12, <1>13, <1>14 DEF w

\* A write the service has taken, and that is kept all the same.
LEMMA MatchesAgain ==
  ASSUME NEW w \in Writes, NEW old, NEW new, Makes(old, w, new)
  PROVE  Matches(new, new, {w})
  <1>1. /\ new \in Entries /\ new # Absent /\ new.retired \in BOOLEAN
        /\ new.text = (IF w.kind = "retire" THEN old.text ELSE w.form)
        /\ new.retired = (w.kind = "retire" \/ (old # Absent /\ old.retired))
    BY MadeFields, EntryFields DEF Makes
  <1>2. w.kind \in Texts <=> w.kind # "retire"
    BY WriteFields
  <1>3. w.kind = "retire" => new.retired
    BY <1>1
  <1>4. new.retired = ((new # Absent /\ new.retired) \/ \E v \in {w} : v.kind = "retire")
    BY <1>1, <1>3
  <1>5. QED BY <1>1, <1>2, <1>4 DEF Matches

LEMMA LostKeeps == ASSUME RegisterIInv, CallLost PROVE RegisterIInv'
  <1>0. PICK w : w = KeptWrite
    OBVIOUS
  <1> DEFINE e == IF w.kind = "retire"
                  THEN [(IF entered[w.on] \in {Absent, Cold} THEN Row(Absent) ELSE entered[w.on])
                          EXCEPT !.retired = TRUE]
                  ELSE [(IF entered[w.on] \in {Absent, Cold} THEN Row(Absent) ELSE entered[w.on])
                          EXCEPT !.text = w.form]
             c == IF w.kind = "retire"
                  THEN [(IF copies[w.on] \in {Absent, Cold} THEN Row(Absent) ELSE copies[w.on])
                          EXCEPT !.retired = TRUE]
                  ELSE [(IF copies[w.on] \in {Absent, Cold} THEN Row(Absent) ELSE copies[w.on])
                          EXCEPT !.text = w.form]
  <1>1. /\ call # NoEntry /\ Proceed /\ minted' = minted \cup ({w.on} \cap Ids)
        /\ entered' = Written(entered, w)
        /\ copies' = [Written(copies, w) EXCEPT
                       !["list"] = IF w.kind = "add" THEN [@ EXCEPT ![w.on] = Row(w.form)] ELSE @]
        /\ unheard' = (unheard \/ (w.kind = "add" /\ call.answer # Cold))
        /\ UNCHANGED <<registry, overtaken, pull, sync, forms>>
    BY <1>0 DEF CallLost, KeptWrite, Accepted
  <1>2. /\ w \in Writes /\ w.on \in RegisterKeys /\ w.form \in Nat /\ w.form <= forms
        /\ w.kind = Head(call.todo).kind
        /\ w.kind = "add" => w.on \in Ids \ minted
        /\ w.kind # "add" => w = Head(call.todo)
        /\ w.kind \in Changes => Known(w.on)
        /\ \A v \in Unsent : v.on = w.on => v.form < w.form
        /\ w.kind = "add" => registry[w.on] = Absent /\ Upon(w.on) = {}
        /\ RowsFit(outbox') /\ Unsent' = Unsent \cup {w}
    BY <1>0, KeptFacts
  <1>3. entered' = [entered EXCEPT ![w.on] = e] /\ Written(copies, w) = [copies EXCEPT ![w.on] = c]
    BY <1>1 DEF Written
  <1> HIDE DEF e, c
  <1>4. entered = [r \in RegisterKeys |-> entered[r]] /\ minted \subseteq Ids /\ forms \in Nat
        /\ \A i \in Ids \ minted : registry[i] = Absent /\ \A v \in Unsent : v.on # i
    BY RegisterParts DEF RegisterTyped
  <1>5. entered' = [r \in RegisterKeys |-> entered'[r]]
        /\ \A r \in RegisterKeys : r # w.on => entered'[r] = entered[r]
    BY <1>2, <1>3, <1>4
  <1>6. \A i \in Ids : Known(i) => Known(i)'
    BY <1>1, <1>2 DEF Known
  <1>7. RegisterTyped'
    <2>1. minted' \subseteq Ids /\ \A i \in Ids \ minted' : i \in Ids \ minted /\ i # w.on
      BY <1>1, <1>4
    <2>2. \A i \in Ids \ minted' : registry'[i] = Absent /\ \A v \in Unsent' : v.on # i
      BY <1>1, <1>2, <1>4, <2>1
    <2>3. QED BY <1>1, <1>2, <1>4, <1>5, <2>1, <2>2, RegisterParts DEF RegisterTyped
  <1>8. QueueFits'
    <2>1. \A v \in Unsent : v.form \in Nat
      BY UnsentFacts
    <2>2. ASSUME NEW u \in Unsent', NEW v \in Unsent', v.on = u.on, v # u
          PROVE  v.form # u.form /\ (u.kind = "add" => u.form < v.form)
      <3>1. CASE u \in Unsent /\ v \in Unsent
        BY <2>2, <3>1, RegisterParts DEF QueueFits
      <3>2. CASE u = w
        <4>1. v \in Unsent
          BY <1>2, <2>2, <3>2
        <4>2. v.form < w.form /\ w.kind # "add"
          BY <1>2, <2>2, <3>2, <4>1 DEF Upon
        <4>3. QED BY <1>2, <2>1, <3>2, <4>1, <4>2
      <3>3. CASE v = w
        <4>1. u \in Unsent
          BY <1>2, <2>2, <3>3
        <4>2. QED BY <1>2, <2>1, <2>2, <3>3, <4>1
      <3>4. QED BY <1>2, <3>1, <3>2, <3>3
    <2>3. \A u \in Unsent' : u.form <= forms'
      BY <1>1, <1>2, RegisterParts DEF QueueFits
    <2>4. \A u \in Unsent' : u.kind = "add" /\ registry'[u.on] # Absent => registry'[u.on].text >= u.form
      BY <1>1, <1>2, RegisterParts DEF QueueFits
    <2>5. QED BY <2>2, <2>3, <2>4 DEF QueueFits
  <1>9. CallFits'
    <2>1. SUFFICES ASSUME call' # NoEntry PROVE CallFits'
      BY DEF CallFits
    <2>2. /\ Len(call.todo) # 1 /\ call'.answer = Cold
          /\ call' \in Forms /\ call'.todo # << >>
          /\ \A i, j \in DOMAIN call'.todo : call'.todo[i].on = call'.todo[j].on => i = j
          /\ \A v \in Listed(call'.todo) :
               /\ v.on # Head(call.todo).on /\ v.kind # "add" /\ v.form <= forms
               /\ \A u \in Unsent : u.on = v.on => u.form < v.form
               /\ v.kind \in Changes => v.on \in Ids /\ Known(v.on)
      BY <1>1, <2>1, ProceedFacts
    <2>3. w = Head(call.todo)
      BY <1>1, <1>2, <2>2, CallFacts
    <2>4. QED BY <1>1, <1>2, <1>6, <2>1, <2>2, <2>3 DEF CallFits
  <1>10. SyncFits'
    BY <1>1, <1>2, <1>6, RegisterParts, SyncHolds
  <1>11. ScreensFit'
    <2> DEFINE line == Row(w.form)
               list == IF w.kind = "add" THEN [copies["list"] EXCEPT ![w.on] = line] ELSE copies["list"]
    <2>1. copies = [k \in CacheKeys |-> copies[k]] /\ ListsKnow(copies["list"])
      BY RegisterParts DEF ScreensFit
    <2>2. w.on # "list" /\ "list" \in CacheKeys
      BY <1>2, KeyFacts
    <2>3. copies' = [[copies EXCEPT ![w.on] = c] EXCEPT
                      !["list"] = IF w.kind = "add" THEN [@ EXCEPT ![w.on] = line] ELSE @]
      BY <1>1, <1>3
    <2>4. line \in Entries
      BY <1>2, EntryFields DEF Row
    <2> HIDE DEF line
    <2>5. copies' = [k \in CacheKeys |-> copies'[k]] /\ copies'["list"] = list
      BY <2>1, <2>2, <2>3
    <2>6. copies["list"] \in [Ids -> Entries \cup {Absent}]
          /\ \A i \in Ids : copies["list"][i] # Absent => Known(i)
      BY <2>1 DEF ListsKnow, Listings
    <2>7. w.kind = "add" => w.on \in Ids /\ Known(w.on)'
      BY <1>2 DEF Known
    <2>8. list \in [Ids -> Entries \cup {Absent}] /\ \A i \in Ids : list[i] # Absent => Known(i)'
      BY <1>6, <2>4, <2>6, <2>7
    <2> HIDE DEF list
    <2>9. copies'["list"] \in Listings /\ \A i \in Ids : copies'["list"][i] # Absent => Known(i)'
      BY <2>5, <2>8 DEF Listings
    <2>10. pull # NoPull /\ pull.key = "list" =>
             pull.answer \in Listings /\ \A i \in Ids : pull.answer[i] # Absent => Known(i)'
      BY <1>6, RegisterParts DEF ScreensFit, ListsKnow
    <2>11. QED BY <1>1, <2>5, <2>9, <2>10 DEF ScreensFit, ListsKnow
  <1>12. HeardFits'
    <2>1. SUFFICES ASSUME ~unheard', ~overtaken' PROVE HeardFits'
      BY DEF HeardFits
    <2>2. ~unheard /\ ~overtaken /\ (w.kind = "add" => call.answer = Cold)
      BY <1>1, <2>1
    <2>3. \A r \in RegisterKeys : ~Pending(r)'
      BY <1>1, ProceedFacts DEF Pending
    <2>4. \A r \in RegisterKeys : r # w.on => ~Pending(r)
      BY <1>2, <2>2 DEF Pending
    <2>5. \A r \in RegisterKeys : r # w.on => Upon(r)' = Upon(r)
      BY <1>2 DEF Upon
    <2>6. Upon(w.on)' = Upon(w.on) \cup {w}
      BY <1>2 DEF Upon
    <2>7. Matches(entered'[w.on], registry[w.on], Upon(w.on) \cup {w})
      <3>1. registry[w.on] \in Entries \cup {Absent} /\ Upon(w.on) \in SUBSET Writes
        BY <1>2, RegisterParts, UnsentFacts DEF Registries
      <3>2. CASE call.answer = Cold
        <4>1. Matches(entered[w.on], registry[w.on], Upon(w.on))
          BY <1>2, <2>2, <3>2, RegisterParts DEF HeardFits, Pending
        <4>2. entered[w.on] \in Entries \cup {Absent}
          BY <3>1, <4>1 DEF Matches
        <4>3. w.kind = "retire" => entered[w.on] # Absent
          <5>1. w.kind = "retire" => registry[w.on] # Absent \/ Upon(w.on) # {}
            BY <1>2 DEF Known, Upon, Changes
          <5>2. QED BY <4>1, <5>1, KeyFacts DEF Matches
        <4>4. entered'[w.on] = Made(entered[w.on], w)
          <5>1. entered' = [entered EXCEPT ![w.on] = Made(entered[w.on], w)]
            BY <1>1, <1>2, <1>4, <4>2, <4>3, WrittenMakes
          <5>2. QED BY <1>2, <1>4, <5>1
        <4>5. \A v \in Upon(w.on) : v.form < w.form
          BY <1>2 DEF Upon
        <4>6. QED BY <1>2, <3>1, <4>1, <4>3, <4>4, <4>5, MatchesKept
      <3>3. CASE call.answer # Cold
        <4>1. w = Head(call.todo) /\ Pending(w.on)
          BY <1>1, <1>2, <2>2, <3>3 DEF Pending
        <4>2. Upon(w.on) = {} /\ Makes(entered[w.on], w, registry[w.on])
          BY <1>2, <2>2, <4>1, RegisterParts DEF HeardFits
        <4>3. entered'[w.on] = registry[w.on]
          <5>1. entered' = [entered EXCEPT ![w.on] = Made(entered[w.on], w)]
            BY <1>1, <1>2, <1>4, <4>2, WrittenMakes DEF Makes
          <5>2. QED BY <1>2, <1>4, <4>2, <5>1 DEF Makes
        <4>4. QED BY <1>2, <4>2, <4>3, MatchesAgain
      <3>4. QED BY <3>2, <3>3
    <2>8. \A r \in RegisterKeys \ {w.on} : Matches(entered'[r], registry[r], Upon(r))
      BY <1>5, <2>2, <2>4, RegisterParts DEF HeardFits
    <2>9. \A v \in Unsent' : v.kind = "add" => registry[v.on] \in {Absent, Row(v.form)}
      BY <1>2, <2>2, RegisterParts DEF HeardFits
    <2>10. QED BY <1>1, <2>3, <2>5, <2>6, <2>7, <2>8, <2>9 DEF HeardFits
  <1>13. QED BY <1>7, <1>8, <1>9, <1>10, <1>11, <1>12 DEF RegisterIInv, RegisterFits

(***************************************************************************)
(* The drain.                                                              *)
(***************************************************************************)
LEMMA RowFacts ==
  ASSUME RegisterIInv, Draining
  PROVE  LET w == Head(sync.rows) IN
         /\ w \in Writes /\ w.on \in RegisterKeys /\ w.form \in Nat /\ w \in Unsent
         /\ sync = [rows |-> sync.rows, scope |-> sync.scope]
         /\ RowsFit(Tail(sync.rows)) /\ Listed(Tail(sync.rows)) \subseteq Unsent \ {w}
         /\ sync.scope # Cold => /\ sync.scope \in Registries
                                 /\ \A i \in Ids : sync.scope[i] # Absent => Known(i)
         /\ \A v \in Unsent : v.on = w.on /\ v # w => v.form # w.form /\ (w.kind = "add" => w.form < v.form)
  <1>1. /\ sync = [rows |-> sync.rows, scope |-> sync.scope]
        /\ RowsFit(sync.rows) /\ Listed(sync.rows) \subseteq Unsent /\ sync.rows # << >>
        /\ sync.scope # Cold => /\ sync.scope \in Registries
                                /\ \A i \in Ids : sync.scope[i] # Absent => Known(i)
    BY RegisterParts DEF SyncFits, Draining
  <1>2. /\ Head(sync.rows) \in Listed(sync.rows) /\ RowsFit(Tail(sync.rows))
        /\ Listed(Tail(sync.rows)) = Listed(sync.rows) \ {Head(sync.rows)}
    BY <1>1, RowsTail
  <1>3. QED BY <1>1, <1>2, UnsentFacts, RegisterParts DEF QueueFits

\* Taken by the service, whether the row is dropped or stays.
LEMMA TakenFits ==
  ASSUME RegisterIInv, Draining, NEW w, w = Head(sync.rows), Serve(w),
         Unsent' = Unsent \/ Unsent' = Unsent \ {w}, RowsFit(outbox'),
         UNCHANGED <<minted, entered, unheard, call, forms>>
  PROVE  /\ RegisterTyped' /\ QueueFits' /\ CallFits' /\ HeardFits'
         /\ \A i \in Ids : Known(i) => Known(i)'
  <1>1. /\ w \in Writes /\ w.on \in RegisterKeys /\ w.form \in Nat /\ w \in Unsent
        /\ \A v \in Unsent : v.on = w.on /\ v # w => v.form # w.form /\ (w.kind = "add" => w.form < v.form)
    BY RowFacts
  <1>2. /\ registry[w.on] \in Entries \cup {Absent} /\ (w.kind = "retire" => registry[w.on] # Absent)
        /\ w.kind = "add" => registry[w.on] = Absent
        /\ registry' \in Registries /\ registry'[w.on] = Made(registry[w.on], w)
        /\ registry'[w.on] \in Entries
        /\ \A r \in RegisterKeys : r # w.on => registry'[r] = registry[r]
    BY <1>1, RegisterParts, ServeTakes
  <1>3. \A i \in Ids : Known(i) => Known(i)'
    BY <1>1, RegisterParts, ServeKnows
  <1>4. Unsent' \subseteq Unsent
    OBVIOUS
  <1>5. \A v \in Unsent : v \in Writes /\ v.form \in Nat /\ v.on \in RegisterKeys
    BY UnsentFacts
  <1>6. RegisterTyped'
    <2>1. \A i \in Ids \ minted : registry[i] = Absent /\ (\A v \in Unsent : v.on # i) /\ i \in RegisterKeys
      BY RegisterParts, KeyFacts DEF RegisterTyped
    <2>2. \A i \in Ids \ minted : registry'[i] = Absent /\ \A v \in Unsent' : v.on # i
      BY <1>1, <1>2, <1>4, <2>1
    <2>3. QED BY <1>2, <2>2, RegisterParts DEF RegisterTyped
  <1>7. QueueFits'
    <2>1. ASSUME NEW v \in Unsent, v.kind = "add"
          PROVE  registry'[v.on] # Absent => registry'[v.on].text >= v.form
      <3>1. v = w \/ v.on # w.on \/ v.form < w.form
        BY <1>1, <2>1, RegisterParts DEF QueueFits
      <3>2. QED BY <1>1, <2>1, <3>1, RegisterParts, AddStillFits
    <2>2. \A v \in Unsent : /\ v.form <= forms
                            /\ \A u \in Unsent : u.on = v.on /\ u # v =>
                                 u.form # v.form /\ (v.kind = "add" => v.form < u.form)
      BY RegisterParts DEF QueueFits
    <2>3. QED BY <1>4, <2>1, <2>2 DEF QueueFits
  <1>8. CallFits'
    BY <1>3, <1>4, RegisterParts, CallHolds
  <1>9. HeardFits'
    <2>1. SUFFICES ASSUME ~unheard', ~overtaken' PROVE HeardFits'
      BY DEF HeardFits
    <2>2. ~unheard /\ ~overtaken /\ \A v \in Unsent : v.on = w.on => ~(v.form < w.form)
      BY <2>1, NotOvertaken
    <2>3. \A v \in Upon(w.on) : v # w => w.form < v.form
      BY <1>1, <1>5, <2>2 DEF Upon
    <2>4. /\ \A r \in RegisterKeys :
               IF Pending(r) THEN Upon(r) = {} /\ Makes(entered[r], Head(call.todo), registry[r])
                             ELSE Matches(entered[r], registry[r], Upon(r))
          /\ \A v \in Unsent : v.kind = "add" => registry[v.on] \in {Absent, Row(v.form)}
      BY <2>2, RegisterParts DEF HeardFits
    <2>5. w \in Upon(w.on) /\ Upon(w.on) \in SUBSET Writes
      BY <1>1, UnsentFacts DEF Upon
    <2>6. Matches(entered[w.on], registry[w.on], Upon(w.on)) /\ ~Pending(w.on)
      BY <1>1, <2>4, <2>5
    <2>7. /\ Matches(entered[w.on], registry'[w.on], Upon(w.on))
          /\ Matches(entered[w.on], registry'[w.on], Upon(w.on) \ {w})
      <3> DEFINE rows == Upon(w.on)
                 old  == registry[w.on]
                 said == entered[w.on]
      <3>1. Matches(said, old, rows) /\ rows \in SUBSET Writes /\ w \in rows
            /\ old \in Entries \cup {Absent} /\ (\A v \in rows : v # w => w.form < v.form)
            /\ (w.kind = "retire" => old # Absent)
        BY <1>2, <2>3, <2>5, <2>6
      <3> HIDE DEF rows, old, said
      <3>2. Matches(said, Made(old, w), rows) /\ Matches(said, Made(old, w), rows \ {w})
        BY <3>1, MatchesTaken
      <3>3. QED BY <1>2, <3>2 DEF rows, old, said
    <2>8. Upon(w.on)' = Upon(w.on) \/ Upon(w.on)' = Upon(w.on) \ {w}
      BY DEF Upon
    <2>9. \A r \in RegisterKeys : r # w.on => Upon(r)' = Upon(r)
      BY DEF Upon
    <2>10. \A r \in RegisterKeys : Pending(r)' <=> Pending(r)
      BY DEF Pending
    <2>11. \A v \in Unsent' : v.kind = "add" => registry'[v.on] \in {Absent, Row(v.form)}
      <3>1. SUFFICES ASSUME NEW v \in Unsent', v.kind = "add" PROVE registry'[v.on] \in {Absent, Row(v.form)}
        OBVIOUS
      <3>2. v \in Unsent /\ v \in Writes
        BY <1>4, <1>5
      <3>3. CASE v.on # w.on
        BY <1>2, <1>5, <2>4, <3>1, <3>2, <3>3
      <3>4. CASE v.on = w.on
        <4>1. v = w
          <5>1. v # w => v.form < w.form
            BY <1>1, <3>1, <3>2, <3>4, RegisterParts DEF QueueFits
          <5>2. QED BY <2>2, <3>2, <3>4, <5>1
        <4>2. registry'[w.on] = Row(w.form)
          BY <1>2, <3>1, <4>1 DEF Made, Row
        <4>3. QED BY <4>1, <4>2
      <3>5. QED BY <3>3, <3>4
    <2>12. \A r \in RegisterKeys :
             IF Pending(r)' THEN Upon(r)' = {} /\ Makes(entered'[r], Head(call'.todo), registry'[r])
                            ELSE Matches(entered'[r], registry'[r], Upon(r)')
      <3>1. ASSUME NEW r \in RegisterKeys, r # w.on
            PROVE  IF Pending(r)' THEN Upon(r)' = {} /\ Makes(entered'[r], Head(call'.todo), registry'[r])
                                  ELSE Matches(entered'[r], registry'[r], Upon(r)')
        BY <1>2, <2>4, <2>9, <2>10, <3>1
      <3>2. Matches(entered'[w.on], registry'[w.on], Upon(w.on)')
        BY <2>7, <2>8
      <3>3. ~Pending(w.on)'
        BY <1>1, <2>6, <2>10
      <3>4. QED BY <3>1, <3>2, <3>3
    <2>13. QED BY <2>11, <2>12 DEF HeardFits
  <1>10. QED BY <1>3, <1>6, <1>7, <1>8, <1>9

\* "already applied on a previous attempt": the add's row is dropped.
LEMMA AlreadyFits ==
  ASSUME RegisterIInv, Draining, NEW w, w = Head(sync.rows), Registered(w),
         Unsent' = Unsent \ {w}, RowsFit(outbox'),
         UNCHANGED <<registry, minted, entered, unheard, overtaken, call, forms>>
  PROVE  /\ RegisterTyped' /\ QueueFits' /\ CallFits' /\ HeardFits'
         /\ \A i \in Ids : Known(i) => Known(i)'
  <1>1. /\ w \in Writes /\ w.on \in RegisterKeys /\ w.form \in Nat /\ w \in Unsent
        /\ w.kind = "add" /\ registry[w.on] # Absent
        /\ \A v \in Unsent : v.on = w.on /\ v # w => w.form < v.form
    BY RowFacts DEF Registered
  <1>2. \A i \in Ids : Known(i) => Known(i)'
    BY <1>1 DEF Known
  <1>3. RegisterTyped'
    BY RegisterParts DEF RegisterTyped
  <1>4. QueueFits'
    BY RegisterParts DEF QueueFits
  <1>5. CallFits'
    BY <1>2, RegisterParts, CallHolds
  <1>6. HeardFits'
    <2>1. SUFFICES ASSUME ~unheard', ~overtaken' PROVE HeardFits'
      BY DEF HeardFits
    <2>2. /\ \A r \in RegisterKeys :
               IF Pending(r) THEN Upon(r) = {} /\ Makes(entered[r], Head(call.todo), registry[r])
                             ELSE Matches(entered[r], registry[r], Upon(r))
          /\ \A v \in Unsent : v.kind = "add" => registry[v.on] \in {Absent, Row(v.form)}
      BY <2>1, RegisterParts DEF HeardFits
    <2>3. w \in Upon(w.on) /\ Upon(w.on) \in SUBSET Writes /\ \A v \in Upon(w.on) : v # w => w.form < v.form
      BY <1>1, UnsentFacts DEF Upon
    <2>4. registry[w.on] = Row(w.form)
      BY <1>1, <2>2
    <2>5. registry[w.on] = Made(registry[w.on], w)
      <3> DEFINE old == registry[w.on]
      <3>1. old.retired = FALSE /\ old = [text |-> w.form, retired |-> FALSE]
        BY <2>4 DEF Row
      <3> HIDE DEF old
      <3>2. Made(old, w) = [text |-> w.form, retired |-> FALSE]
        <4>1. (old # Absent /\ old.retired) = FALSE
          BY <3>1
        <4>2. QED BY <1>1, <4>1 DEF Made
      <3>3. QED BY <3>1, <3>2 DEF old
    <2>6. Matches(entered[w.on], registry[w.on], Upon(w.on)) /\ ~Pending(w.on)
      BY <1>1, <2>2, <2>3
    <2>7. registry[w.on] \in Entries \cup {Absent}
      BY <1>1, RegisterParts DEF Registries
    <2>8. Matches(entered[w.on], registry[w.on], Upon(w.on) \ {w})
      BY <1>1, <2>3, <2>5, <2>6, <2>7, MatchesTaken
    <2>9. /\ \A r \in RegisterKeys : r # w.on => Upon(r)' = Upon(r)
          /\ Upon(w.on)' = Upon(w.on) \ {w}
      BY DEF Upon
    <2>10. \A r \in RegisterKeys : Pending(r)' <=> Pending(r)
      BY DEF Pending
    <2>11. \A r \in RegisterKeys :
             IF Pending(r)' THEN Upon(r)' = {} /\ Makes(entered'[r], Head(call'.todo), registry'[r])
                            ELSE Matches(entered'[r], registry'[r], Upon(r)')
      BY <1>1, <2>2, <2>6, <2>8, <2>9, <2>10
    <2>12. \A v \in Unsent' : v.kind = "add" => registry'[v.on] \in {Absent, Row(v.form)}
      BY <2>2
    <2>13. QED BY <2>11, <2>12 DEF HeardFits
  <1>7. QED BY <1>2, <1>3, <1>4, <1>5, <1>6

LEMMA DrainKeeps == ASSUME RegisterIInv, DrainServed PROVE RegisterIInv'
  <1>1. PICK w : w = Head(sync.rows)
    OBVIOUS
  <1>2. /\ Draining /\ sync' = [sync EXCEPT !.rows = Tail(@)] /\ outbox' = Without(outbox, w)
        /\ Serve(w) \/ (Registered(w) /\ UNCHANGED <<registry, overtaken>>)
        /\ UNCHANGED <<minted, copies, entered, unheard, call, pull, forms>>
    BY <1>1 DEF DrainServed, Sent, told
  <1>3. /\ w \in Unsent /\ sync = [rows |-> sync.rows, scope |-> sync.scope]
        /\ RowsFit(Tail(sync.rows)) /\ Listed(Tail(sync.rows)) \subseteq Unsent \ {w}
        /\ sync.scope # Cold => /\ sync.scope \in Registries
                                /\ \A i \in Ids : sync.scope[i] # Absent => Known(i)
    BY <1>1, <1>2, RowFacts
  <1>4. RowsFit(outbox') /\ Unsent' = Unsent \ {w}
    BY <1>2, <1>3, UnsentFacts, RowsWithout DEF Unsent
  <1>5. /\ RegisterTyped' /\ QueueFits' /\ CallFits' /\ HeardFits'
        /\ \A i \in Ids : Known(i) => Known(i)'
    <2>1. CASE Serve(w)
      BY <1>1, <1>2, <1>4, <2>1, TakenFits
    <2>2. CASE Registered(w) /\ UNCHANGED <<registry, overtaken>>
      BY <1>1, <1>2, <1>4, <2>2, AlreadyFits
    <2>3. QED BY <1>2, <2>1, <2>2
  <1>6. ScreensFit'
    BY <1>2, <1>5, RegisterParts, ScreensHold
  <1>7. SyncFits'
    <2>1. sync' = [rows |-> Tail(sync.rows), scope |-> sync.scope]
      BY <1>2, <1>3
    <2>2. QED BY <1>3, <1>4, <1>5, <2>1 DEF SyncFits
  <1>8. QED BY <1>5, <1>6, <1>7 DEF RegisterIInv, RegisterFits

LEMMA CutKeeps == ASSUME RegisterIInv, DrainCut PROVE RegisterIInv'
  <1>1. PICK w : w = Head(sync.rows)
    OBVIOUS
  <1>2. /\ Draining /\ sync' = [sync EXCEPT !.rows = << >>]
        /\ Serve(w) \/ UNCHANGED <<registry, overtaken>>
        /\ UNCHANGED <<minted, copies, outbox, entered, unheard, call, pull, forms>>
    BY <1>1 DEF DrainCut, held, told
  <1>3. /\ sync = [rows |-> sync.rows, scope |-> sync.scope]
        /\ sync.scope # Cold => /\ sync.scope \in Registries
                                /\ \A i \in Ids : sync.scope[i] # Absent => Known(i)
    BY <1>2, RowFacts
  <1>4. RowsFit(outbox') /\ Unsent' = Unsent
    BY <1>2, UnsentFacts DEF Unsent
  <1>5. /\ RegisterTyped' /\ QueueFits' /\ CallFits' /\ HeardFits'
        /\ \A i \in Ids : Known(i) => Known(i)'
    <2>1. CASE Serve(w)
      BY <1>1, <1>2, <1>4, <2>1, TakenFits
    <2>2. CASE UNCHANGED <<registry, overtaken>>
      <3>1. forms' \in Nat /\ forms' >= forms
        BY <1>2, RegisterParts
      <3>2. RegisterTyped' /\ QueueFits' /\ \A i \in Ids : Known(i) => Known(i)'
        BY <1>2, <2>2, <3>1, RegisterParts, StaysTyped
      <3>3. QED BY <1>2, <1>4, <2>2, <3>2, RegisterParts, CallHolds, HeardHolds
    <2>3. QED BY <1>2, <2>1, <2>2
  <1>6. ScreensFit'
    BY <1>2, <1>5, RegisterParts, ScreensHold
  <1>7. SyncFits'
    <2>1. sync' = [rows |-> << >>, scope |-> sync.scope]
      BY <1>2, <1>3
    <2>2. RowsFit(<< >>) /\ Listed(<< >>) = {}
      BY DEF RowsFit, Listed
    <2>3. QED BY <1>3, <1>5, <2>1, <2>2 DEF SyncFits
  <1>8. QED BY <1>5, <1>6, <1>7 DEF RegisterIInv, RegisterFits

LEMMA RegisterStep == RegisterIInv /\ [RegisterNext]_registerVars => RegisterIInv'
  <1> SUFFICES ASSUME RegisterIInv, [RegisterNext]_registerVars PROVE RegisterIInv'
    OBVIOUS
  <1>1. CASE SignalChanges \/ PageServed \/ PullArrives
    BY <1>1, PagesKeep
  <1>2. CASE SubmitAdd \/ Retire \/ SubmitIdentity
    BY <1>2, FormsKeep
  <1>3. CASE CallStep
    BY <1>3, ServedKeeps, AnsweredKeeps, RefusedKeeps, LostKeeps DEF CallStep
  <1>4. CASE SyncStep
    BY <1>4, SyncKeeps, DrainKeeps, CutKeeps DEF SyncStep
  <1>5. CASE PhoneKilled
    BY <1>5, RefusedKeeps
  <1>6. CASE UNCHANGED registerVars
    <2>1. /\ UNCHANGED <<registry, minted, copies, outbox, call, pull, sync, forms, entered, unheard, overtaken>>
          /\ forms' \in Nat /\ forms' >= forms
      BY <1>6, RegisterParts DEF registerVars
    <2>2. RegisterTyped' /\ QueueFits' /\ Unsent' = Unsent /\ \A i \in Ids : Known(i) => Known(i)'
      BY <2>1, RegisterParts, StaysTyped
    <2>3. CallFits' /\ ScreensFit' /\ SyncFits' /\ HeardFits'
      BY <2>1, <2>2, RegisterParts, CallHolds, ScreensHold, SyncHolds, HeardHolds
    <2>4. QED BY <2>2, <2>3 DEF RegisterIInv, RegisterFits
  <1>7. QED BY <1>1, <1>2, <1>3, <1>4, <1>5, <1>6 DEF RegisterNext

(***************************************************************************)
(* With nothing kept and nothing under way the service has what the        *)
(* technician was told is saved, for any number of dispensers, forms and   *)
(* outages - unless an answer was never heard or a kept write overtaken    *)
(* (AsEntered).                                                            *)
(***************************************************************************)
THEOREM SavedIsRegistered == RegisterSpec => []AsEntered
  <1>1. RegisterIInv => AsEntered
    <2>1. SUFFICES ASSUME RegisterIInv, AtRest, ~unheard, ~overtaken PROVE registry = entered
      BY DEF AsEntered
    <2>2. \A r \in RegisterKeys : Upon(r) = {} /\ ~Pending(r)
      BY <2>1 DEF AtRest, Upon, Unsent, Listed, Pending
    <2>3. \A r \in RegisterKeys : entered[r] = registry[r]
      BY <2>1, <2>2, RegisterParts DEF HeardFits, Matches
    <2>4. entered = [r \in RegisterKeys |-> entered[r]] /\ registry = [r \in RegisterKeys |-> registry[r]]
      BY <2>1, RegisterParts DEF RegisterTyped, Registries
    <2>5. QED BY <2>3, <2>4
  <1>2. QED BY <1>1, InitRegister, RegisterStep, PTL DEF RegisterSpec

(***************************************************************************)
(* A kept write leaves the queue only when the service has taken it: in    *)
(* the step that drops its row the service's record says what the write    *)
(* says, or says something younger (LeavesOnceTaken).                      *)
(***************************************************************************)
THEOREM DroppedWasTaken == RegisterSpec => LeavesOnceTaken
  <1> DEFINE LeftWhenTaken == \A i \in DOMAIN outbox :
               Has(registry', outbox[i]) \/ \E j \in DOMAIN outbox' : outbox'[j] = outbox[i]
  <1>1. RegisterIInv /\ [RegisterNext]_registerVars => [LeftWhenTaken]_registerVars
    <2>1. SUFFICES ASSUME RegisterIInv, RegisterNext PROVE LeftWhenTaken
      OBVIOUS
    <2>2. SUFFICES ASSUME NEW v \in Unsent, v \notin Unsent' PROVE Has(registry', v)
      <3>1. \A i \in DOMAIN outbox : outbox[i] \in Unsent
        BY DEF Unsent, Listed
      <3>2. \A v \in Unsent' : \E j \in DOMAIN outbox' : outbox'[j] = v
        BY DEF Unsent, Listed
      <3>3. QED BY <2>2, <3>1, <3>2
    <2>3. CASE CallLost
      BY <2>1, <2>2, <2>3, KeptFacts
    <2>4. CASE DrainServed
      <3>1. PICK w : w = Head(sync.rows)
        OBVIOUS
      <3>2. /\ Draining /\ outbox' = Without(outbox, w)
            /\ Serve(w) \/ (Registered(w) /\ UNCHANGED <<registry, overtaken>>)
        BY <2>4, <3>1 DEF DrainServed
      <3>3. w \in Unsent /\ w \in Writes
        BY <2>1, <3>1, <3>2, RowFacts
      <3>4. Unsent' = Unsent \ {w}
        BY <2>1, <3>2, <3>3, UnsentFacts, RowsWithout DEF Unsent
      <3>5. v = w
        BY <2>2, <3>4
      <3>6. CASE Serve(w)
        BY <2>1, <3>3, <3>5, <3>6, RegisterParts, ServeTakes
      <3>7. CASE Registered(w) /\ UNCHANGED <<registry, overtaken>>
        BY <2>1, <3>3, <3>5, <3>7, RegisterParts DEF Registered, QueueFits, Has
      <3>8. QED BY <3>2, <3>6, <3>7
    <2>5. CASE ~CallLost /\ ~DrainServed
      <3>1. outbox' = outbox
        BY <2>1, <2>5 DEF RegisterNext, SignalChanges, PageServed, SubmitAdd, Retire, SubmitIdentity,
             SubmitForm, CallStep, CallServed, CallAnswered, CallRefused, PullArrives, SyncStep,
             SyncBegins, DrainRefused, DrainCut, SyncServed, SyncArrives, SyncFails, PhoneKilled, held
      <3>2. QED BY <2>2, <3>1 DEF Unsent
    <2>6. QED BY <2>3, <2>4, <2>5
  <1>2. QED BY <1>1, InitRegister, RegisterStep, PTL DEF RegisterSpec, LeavesOnceTaken
===============================================================================
