----------------------------- MODULE Verification ------------------------------
(***************************************************************************)
(* One verification of one dispenser, from its data plate to the sealed    *)
(* certificate and the rejection certificate that may follow it:           *)
(* identity.tsx, register.tsx, results.tsx, sign.tsx and reject.tsx on the *)
(* phone, the rules they share with the service (shared/schema/src), and   *)
(* the service's own reading of those rules (readiness.py, tolerance.py,   *)
(* testplans.py).                                                          *)
(*                                                                         *)
(* Every screen works on a copy of its own: the register on the cached     *)
(* dispenser detail, the results screen on the draft as it was when the    *)
(* screen opened (saved back by a timer), the sign screen on the draft as  *)
(* it was when that screen opened.  Days pass between any two steps.       *)
(*                                                                         *)
(* Abstracted: an EFD is counted in hundredths of a percent; a hose's      *)
(* status, test condition and unit price are one entry ("filled"), its     *)
(* eleven checklist items their joint verdict; flow and VREF of a delivery *)
(* are entered together; a measure is its size and its expiry day.  The    *)
(* certificate number, the queue and the crashes of the upload are         *)
(* SignPipeline's, the service's transaction is SignService's.             *)
(***************************************************************************)
EXTENDS Integers, FiniteSets

CONSTANTS
  Hoses,         \* the hoses of the dispenser
  Points,        \* the delivery points the instance tells apart
  Slips,         \* readings: how far VREF lies below VFD, in parts of 20000
  Held,          \* the measure sizes registered at first (in date on day 1)
  MaxDay,        \* bound: the last day
  MaxRenewals,   \* bound: measures registered during the visit
  None, Opening  \* no screen, form or row; a screen pushed but not yet drawn
ASSUME CaptureAssumption ==
  /\ MaxDay \in Nat \ {0} /\ Slips \subseteq Int
  /\ Held \subseteq {"200L", "20L", "5L"} /\ None # Opening

Sizes == {"200L", "20L", "5L"}
Plans == {"std", "hv"}

(***************************************************************************)
(* The test-plan registry: what is measured, with which measures.          *)
(***************************************************************************)
PlanPoints ==
  [std |-> {"del1_max", "del2_max", "del3_max", "min_flow_20l", "min_flow", "preset"},
   hv  |-> {"del1_max", "del2_max", "del3_max", "min_flow", "preset"}]
Nominal(plan, p) ==
  IF plan = "hv" THEN 200000 ELSE IF p \in {"min_flow", "preset"} THEN 5000 ELSE 20000
RequiredMeasures == [std |-> {"20L", "5L"}, hv |-> {"200L"}]
PointsOf(plan) == PlanPoints[plan] \cap Points

\* testPlanFor: a form that names no plan predates the registry and is "std".
TestPlanFor(f) == IF f.plan \in Plans THEN f.plan ELSE "std"
\* deriveDesignation and planForDesignation (a missing designation counts as "std").
Designation(qMax) == IF qMax = 0 THEN "none" ELSE IF qMax > 100 THEN "hv" ELSE "std"
PlanFor(designation) == IF designation = "hv" THEN "hv" ELSE "std"

(***************************************************************************)
(* The accuracy rule: computeEfd rounds half up to two decimals, then      *)
(* compares with the 0.5 % limit.                                          *)
(***************************************************************************)
MPE == 50
RoundHalfUp(num, den) == (2 * num + den) \div (2 * den)
Efd(vfd, vref) == RoundHalfUp((vfd - vref) * 10000, vref)
Within(efd) == -MPE <= efd /\ efd <= MPE

\* A delivery: unread (vref = 0) at first; setDelivery recomputes EFD and verdict.
Delivery(vfd, vref) ==
  [vfd |-> vfd, vref |-> vref,
   efd |-> IF vref > 0 THEN Efd(vfd, vref) ELSE 0,
   pass |-> vref > 0 /\ Within(Efd(vfd, vref))]
Reading(vfd, slip) == vfd - (vfd * slip) \div 20000

Blank(plan) ==
  [filled |-> FALSE, checks |-> "unset", burst |-> FALSE,
   del |-> [p \in PointsOf(plan) |-> Delivery(Nominal(plan, p), 0)],
   outcome |-> "certified"]

\* continueToSign: the outcome follows the evidence.
AnyFail(h) == h.checks = "fail" \/ \E p \in DOMAIN h.del : ~h.del[p].pass
WithOutcomes(f) ==
  [f EXCEPT !.hoses = [x \in DOMAIN f.hoses |->
     [f.hoses[x] EXCEPT !.outcome = IF AnyFail(f.hoses[x]) THEN "rejected" ELSE "certified"]]]

\* The normalisation when the results screen opens: the plan's VFD, EFD recomputed.
Normalise(f) ==
  LET fix(p, d) == IF p \in PointsOf(TestPlanFor(f)) /\ d.vfd # Nominal(TestPlanFor(f), p)
                   THEN Delivery(Nominal(TestPlanFor(f), p), d.vref) ELSE d
  IN  [f EXCEPT !.hoses = [x \in DOMAIN f.hoses |->
         [f.hoses[x] EXCEPT !.del = [p \in DOMAIN f.hoses[x].del |-> fix(p, f.hoses[x].del[p])]]]]

ResultsComplete(f) ==
  \A x \in DOMAIN f.hoses :
     /\ f.hoses[x].filled /\ f.hoses[x].checks # "unset"
     /\ \A p \in DOMAIN f.hoses[x].del : f.hoses[x].del[p].vref > 0

(***************************************************************************)
(* Readiness on the phone (readiness.ts behind the zod schema) and in the  *)
(* service (readiness.py behind the generated JSON schema and the plan     *)
(* check, which only the service makes).                                   *)
(***************************************************************************)
InDate(f, day) == \A m \in f.measures : m.expiry >= f.verified /\ m.expiry >= day
SchemaValid(f) ==
  /\ ResultsComplete(f) /\ f.measures # {} /\ DOMAIN f.hoses # {}
  /\ f.client /\ f.pliers

DeliveryAgrees(d) ==
  /\ Efd(d.vfd, d.vref) = d.efd
  /\ Within(Efd(d.vfd, d.vref)) = d.pass
\* Bug: only a rejection has to be justified.
RejectionAgrees(h) == h.outcome = "rejected" => AnyFail(h)
OutcomeAgrees(h) == (h.outcome = "rejected") <=> AnyFail(h)

ValidateReadyToSign(f, day) ==
  /\ SchemaValid(f)
  /\ f.declared /\ f.pliers
  /\ InDate(f, day)
  /\ f.verified <= day
  /\ (\E x \in DOMAIN f.hoses : f.hoses[x].outcome = "rejected") => f.rejNo
  /\ \A x \in DOMAIN f.hoses :
        /\ \A p \in DOMAIN f.hoses[x].del : DeliveryAgrees(f.hoses[x].del[p])
        /\ OutcomeAgrees(f.hoses[x])

ValidatePlanConsistency(f) ==
  f.plan \in Plans =>
    \A x \in DOMAIN f.hoses : \A p \in DOMAIN f.hoses[x].del :
       p \in PlanPoints[f.plan] /\ f.hoses[x].del[p].vfd = Nominal(f.plan, p)
ServerRefuses(f, day) ==
  \/ ~SchemaValid(f)
  \/ ~ValidatePlanConsistency(f)
  \/ ~f.declared \/ ~f.pliers
  \/ \E m \in f.measures : m.expiry < f.verified \/ m.expiry < day
  \/ f.verified > day
  \/ ~f.rejNo /\ \E x \in DOMAIN f.hoses : f.hoses[x].outcome = "rejected"
  \/ \E x \in DOMAIN f.hoses :
        \/ \E p \in DOMAIN f.hoses[x].del : ~DeliveryAgrees(f.hoses[x].del[p])
        \/ f.hoses[x].outcome = "certified" /\ AnyFail(f.hoses[x])
        \/ f.hoses[x].outcome = "rejected" /\ ~AnyFail(f.hoses[x])

\* Bug: only the readings are looked at.
ReasonsFromReadings(h) == {r \in DOMAIN h.del : h.del[r].vref > 0 /\ ~h.del[r].pass}
\* reject.tsx deriveReasons: what the recorded evidence says against a hose.
DeriveReasons(h) ==
  {r \in {"checklist", "burst"} \cup DOMAIN h.del :
     \/ r = "checklist" /\ h.checks = "fail"
     \/ r = "burst" /\ h.burst
     \/ r \in DOMAIN h.del /\ h.del[r].vref > 0 /\ ~h.del[r].pass}
RejectedHoses(f) == {x \in DOMAIN f.hoses : f.hoses[x].outcome = "rejected"}

-----------------------------------------------------------------------------
VARIABLES
  today,      \* the day, on the phone and in the service
  plate,      \* the Qmax on the dispenser's data plate (L/min)
  server,     \* the Qmax the service stores for the dispenser, 0 for none
  cache,      \* the phone's copy of the detail: its Qmax and its designation
  profile,    \* the officer's measures (expiry day by size, 0 for none) and pliers number
  register,   \* the register screen: closed, or its plan and whether it is asking
  row,        \* the draft's row in the phone's database
  results,    \* the results screen: closed, or its own copy of the form and its timer
  sign,       \* the sign screen: closed, opening, or its copy of the form and its entries
  issued,     \* the form the service sealed, with the day
  verdict,    \* the service's answer to the last upload
  rejection,  \* the rejection certificate: the reasons by hose
  renewals    \* bound: how many measures were registered
captureVars == <<today, plate, server, cache, profile, register, row, results, sign, issued,
                 verdict, rejection, renewals>>

\* A draft of the app before the registry: no plan, 20 L on the preset delivery.
Legacy ==
  [Blank("std") EXCEPT !.del = [p \in PointsOf("std") |-> Delivery(20000, 0)]]
NewForm(plan, hoses, measures) ==
  [plan |-> plan, hoses |-> hoses, measures |-> measures, verified |-> today,
   pliers |-> FALSE, client |-> FALSE, declared |-> FALSE, rejNo |-> FALSE]
MeasuresFor(plan) ==
  {[size |-> s, expiry |-> profile.measures[s]] :
     s \in {t \in RequiredMeasures[plan] : profile.measures[t] # 0}}

CaptureInit ==
  /\ today = 1
  /\ plate \in {80, 130} /\ server = 0
  /\ cache = [known |-> FALSE, qMax |-> 0, designation |-> "none"]
  /\ profile = [measures |-> [s \in Sizes |-> IF s \in Held THEN 1 ELSE 0], pliers |-> FALSE]
  /\ register = None /\ results = None /\ sign = None
  /\ row \in {[state |-> "none", form |-> None],
              [state |-> "DRAFT",
               form |-> NewForm("none", [x \in Hoses |-> Legacy], MeasuresFor("std"))]}
  /\ row.form # None => row.form.measures # {}
  /\ issued = None /\ verdict = "none" /\ rejection = None /\ renewals = 0

-----------------------------------------------------------------------------
(* Around the verification: days pass, measures are certified anew.        *)

DayPasses ==
  /\ today < MaxDay /\ today' = today + 1
  /\ UNCHANGED <<plate, server, cache, profile, register, row, results, sign, issued, verdict,
                 rejection, renewals>>

\* add_measure supersedes the measure of that size; the profile mirrors the active ones.
AddMeasure ==
  /\ renewals < MaxRenewals /\ renewals' = renewals + 1
  /\ \E s \in Sizes : profile' = [profile EXCEPT !.measures[s] = MaxDay]
  /\ UNCHANGED <<today, plate, server, cache, register, row, results, sign, issued, verdict,
                 rejection>>

\* The profile screen stores the pliers number; the sign screen reads it again on focus.
AddPliers ==
  /\ ~profile.pliers /\ profile' = [profile EXCEPT !.pliers = TRUE]
  /\ UNCHANGED <<today, plate, server, cache, register, row, results, sign, issued, verdict,
                 rejection, renewals>>

-----------------------------------------------------------------------------
(* The dispenser's detail: identity.tsx, saveDispenserDetail, the service. *)
(* Only the start of a verification reads it: bound, nothing here happens  *)
(* once the one draft exists.                                              *)

\* What the service stores and answers: the flow range and the hoses, no designation.
Answer(q) == [known |-> TRUE, qMax |-> q, designation |-> "none"]
DetailAt(designation) == [known |-> TRUE, qMax |-> plate, designation |-> designation]
OpenRegister(copy) ==
  register' = [plan |-> PlanFor(copy.designation), qMax |-> copy.qMax, asking |-> FALSE]

\* saveAndContinue: save (or queue) the plate, mirror it with its designation, go on.
SaveIdentity ==
  /\ row.state = "none" /\ register = None
  /\ server' \in {server, plate}
  /\ cache' = DetailAt(Designation(plate))
  /\ OpenRegister(cache')
  /\ UNCHANGED <<today, plate, profile, row, results, sign, issued, verdict, rejection, renewals>>

\* The register opened straight from the site or the work order: the cached copy if there is
\* one, the service's answer if not, and the defaults if the service cannot be reached.
OpenRegisterDirectly ==
  /\ row.state = "none" /\ register = None
  /\ cache' \in IF cache.known THEN {cache} ELSE {cache, Answer(server)}
  /\ OpenRegister(cache')
  /\ UNCHANGED <<today, plate, server, profile, row, results, sign, issued, verdict, rejection,
                 renewals>>

\* The background half of fetchThrough, and the mirror sync after its outbox replay.
RefreshDetail ==
  /\ row.state = "none" /\ cache.known
  /\ server' \in {server, cache.qMax}
  /\ cache' = Answer(server')
  /\ UNCHANGED <<today, plate, profile, register, row, results, sign, issued, verdict, rejection,
                 renewals>>

-----------------------------------------------------------------------------
(* register.tsx: the gate on certified measures and the start.             *)

\* saveAndStart: every measure the plan requires is registered and in date.
GateOpen ==
  \A s \in RequiredMeasures[register.plan] : profile.measures[s] # 0 /\ profile.measures[s] >= today

\* A tap leaves a hose out of the verification; at least one stays in it.
Selections == SUBSET Hoses \ {{}}
\* reallyStart reads the measures again, saves the register and creates the draft.
ReallyStart ==
  \E chosen \in Selections :
    /\ row' = [state |-> "DRAFT",
               form |-> NewForm(register.plan, [x \in chosen |-> Blank(register.plan)],
                                MeasuresFor(register.plan))]
    /\ server' \in {server, register.qMax}
    /\ cache' = Answer(register.qMax)
    /\ register' = None
    /\ results' = [form |-> Normalise(row'.form), saving |-> TRUE]

\* A measure about to expire makes the screen ask first; the gate is not read again after.
SaveAndStart ==
  /\ register # None /\ ~register.asking /\ row.state = "none" /\ GateOpen
  /\ \/ register' = [register EXCEPT !.asking = TRUE] /\ UNCHANGED <<row, server, cache, results>>
     \/ ReallyStart
  /\ UNCHANGED <<today, plate, profile, sign, issued, verdict, rejection, renewals>>
StartAnyway ==
  /\ register # None /\ register.asking /\ row.state = "none"
  /\ ReallyStart
  /\ UNCHANGED <<today, plate, profile, sign, issued, verdict, rejection, renewals>>
LeaveRegister ==
  /\ register # None /\ register' = None
  /\ UNCHANGED <<today, plate, server, cache, profile, row, results, sign, issued, verdict,
                 rejection, renewals>>

-----------------------------------------------------------------------------
(* results.tsx: the grid, its autosave and the way to the sign screen.     *)

OnResults == results # None /\ sign = None

ShowResults ==
  /\ row.state \in {"DRAFT", "READY"} /\ results = None /\ register = None
  /\ results' = [form |-> Normalise(row.form), saving |-> TRUE]
  /\ UNCHANGED <<today, plate, server, cache, profile, register, row, sign, issued, verdict,
                 rejection, renewals>>

\* setHose and setChecklist: the hose's own entries.  Every edit restarts the timer.
EnterHose ==
  /\ OnResults
  /\ \E x \in DOMAIN results.form.hoses, c \in {"pass", "fail"}, b \in BOOLEAN :
       results' = [form |-> [results.form EXCEPT !.hoses[x].filled = TRUE,
                                                 !.hoses[x].checks = c, !.hoses[x].burst = b],
                   saving |-> TRUE]
  /\ UNCHANGED <<today, plate, server, cache, profile, register, row, sign, issued, verdict,
                 rejection, renewals>>

\* setDelivery: the reading, and the EFD and verdict computed from it.
EnterDelivery ==
  /\ OnResults
  /\ \E x \in DOMAIN results.form.hoses : \E p \in DOMAIN results.form.hoses[x].del, s \in Slips :
       LET vfd == results.form.hoses[x].del[p].vfd IN
       results' = [form |-> [results.form EXCEPT !.hoses[x].del[p] = Delivery(vfd, Reading(vfd, s))],
                   saving |-> TRUE]
  /\ UNCHANGED <<today, plate, server, cache, profile, register, row, sign, issued, verdict,
                 rejection, renewals>>

\* The timer of the last edit: the screen's copy replaces the stored form.
Autosave ==
  /\ results # None /\ results.saving
  /\ row' = [state |-> "DRAFT", form |-> results.form]
  /\ results' = [results EXCEPT !.saving = FALSE]
  /\ UNCHANGED <<today, plate, server, cache, profile, register, sign, issued, verdict, rejection,
                 renewals>>

\* Leaving the screen clears the timer with what it had not saved; a killed app closes them all.
LeaveResults ==
  /\ results # None
  /\ results' = None /\ sign' = None
  /\ UNCHANGED <<today, plate, server, cache, profile, register, row, issued, verdict, rejection,
                 renewals>>

\* continueToSign: everything is entered; the outcomes are saved and the sign screen pushed.
ContinueToSign ==
  /\ OnResults /\ ResultsComplete(results.form)
  /\ row' = [state |-> "DRAFT", form |-> WithOutcomes(results.form)]
  /\ sign' = Opening
  /\ UNCHANGED <<today, plate, server, cache, profile, register, results, issued, verdict,
                 rejection, renewals>>

-----------------------------------------------------------------------------
(* sign.tsx.                                                               *)

\* The screen takes the stored form as it is when it opens: the timer may have come first.
SignOpens ==
  /\ sign = Opening
  /\ sign' = [form |-> row.form, declared |-> FALSE, client |-> row.form.client]
  /\ UNCHANGED <<today, plate, server, cache, profile, register, row, results, issued, verdict,
                 rejection, renewals>>
OnSign == sign \notin {None, Opening}

EnterSignOff ==
  /\ OnSign /\ \E d \in BOOLEAN : sign' = [sign EXCEPT !.declared = d, !.client = TRUE]
  /\ UNCHANGED <<today, plate, server, cache, profile, register, row, results, issued, verdict,
                 rejection, renewals>>
BackToResults ==
  /\ OnSign /\ sign' = None
  /\ UNCHANGED <<today, plate, server, cache, profile, register, row, results, issued, verdict,
                 rejection, renewals>>

\* The rejection number is derived from the certificate's own when a hose is rejected.
BuildVerification ==
  [sign.form EXCEPT !.pliers = profile.pliers \/ sign.form.pliers, !.client = sign.client,
                    !.declared = sign.declared, !.rejNo = RejectedHoses(sign.form) # {}]

\* The button is enabled by the readiness of what it would sign.  A last edit's timer (700 ms)
\* has long run when the officer has declared and passed the biometric prompt.
DoSign ==
  /\ OnSign /\ ~results.saving
  /\ ValidateReadyToSign(BuildVerification, today)
  /\ row' = [state |-> "QUEUED", form |-> BuildVerification]
  /\ sign' = None /\ results' = None
  /\ UNCHANGED <<today, plate, server, cache, profile, register, issued, verdict, rejection,
                 renewals>>

-----------------------------------------------------------------------------
(* The service's content checks, and the rejection certificate.            *)

ServiceJudges ==
  /\ row.state = "QUEUED"
  /\ \/ /\ ServerRefuses(row.form, today)
        /\ verdict' = "refused" /\ UNCHANGED <<row, issued>>
     \/ /\ ~ServerRefuses(row.form, today)
        /\ verdict' = "issued" /\ row' = [row EXCEPT !.state = "SIGNED"]
        /\ issued' = [form |-> row.form, day |-> today]
  /\ UNCHANGED <<today, plate, server, cache, profile, register, results, sign, rejection,
                 renewals>>

\* seal: the hoses the record rejects, with the reasons its evidence gives and, if the officer
\* adds one, a further reason; a hose without any reason does not parse.
SealRejection ==
  /\ row.state = "SIGNED" /\ rejection = None /\ RejectedHoses(row.form) # {}
  /\ \E added \in {{}, {"officer"}} :
       /\ rejection' = [x \in RejectedHoses(row.form) |->
                          DeriveReasons(row.form.hoses[x]) \cup added]
       /\ \A x \in RejectedHoses(row.form) : rejection'[x] # {}
  /\ UNCHANGED <<today, plate, server, cache, profile, register, row, results, sign, issued,
                 verdict, renewals>>

CaptureNext ==
  \/ DayPasses \/ AddMeasure \/ AddPliers
  \/ SaveIdentity \/ OpenRegisterDirectly \/ RefreshDetail
  \/ SaveAndStart \/ StartAnyway \/ LeaveRegister
  \/ ShowResults \/ EnterHose \/ EnterDelivery \/ Autosave \/ LeaveResults \/ ContinueToSign
  \/ SignOpens \/ EnterSignOff \/ BackToResults \/ DoSign
  \/ ServiceJudges \/ SealRejection
CaptureSpec == CaptureInit /\ [][CaptureNext]_captureVars

-----------------------------------------------------------------------------
(***************************************************************************)
(* Properties.                                                             *)
(***************************************************************************)

(***************************************************************************)
(* A sealed certificate that names its plan is complete: every hose was    *)
(* read at every point of the plan, with exactly the plan's measures, all  *)
(* in date on the day it was sealed.  The service only refuses points that *)
(* are not in the plan, so what is missing is the phone's to prevent.      *)
(***************************************************************************)
SealedIsComplete ==
  issued # None /\ issued.form.plan \in Plans =>
    /\ {m.size : m \in issued.form.measures} = RequiredMeasures[issued.form.plan]
    /\ \A m \in issued.form.measures : m.expiry >= issued.day
    /\ DOMAIN issued.form.hoses # {}
    /\ \A x \in DOMAIN issued.form.hoses :
         /\ DOMAIN issued.form.hoses[x].del = PointsOf(issued.form.plan)
         /\ \A p \in PointsOf(issued.form.plan) : issued.form.hoses[x].del[p].vref > 0

(***************************************************************************)
(* Whatever the officer was allowed to sign the service accepts, unless a  *)
(* measure expired on the way: the phone's rules and the service's, the    *)
(* plan check that only the service makes included, agree on everything    *)
(* but the day.                                                            *)
(***************************************************************************)
RefusedOnlyForTime ==
  [][verdict' = "refused" => verdict = "refused" \/ \E m \in row.form.measures : m.expiry < today]_captureVars

(***************************************************************************)
(* Every hose a sealed certificate rejects can be put on a rejection       *)
(* certificate, which wants a reason for it: the evidence that made the    *)
(* outcome is evidence deriveReasons reads.  A rejection certificate lists *)
(* exactly the hoses its parent rejects.                                   *)
(***************************************************************************)
RejectionHasReasons ==
  /\ issued # None =>
       \A x \in RejectedHoses(issued.form) : DeriveReasons(issued.form.hoses[x]) # {}
  /\ rejection # None => DOMAIN rejection = RejectedHoses(issued.form)

(***************************************************************************)
(* What was sealed can be acted on: it is complete, and every rejection it *)
(* records can be certified in turn.                                       *)
(***************************************************************************)
SealedCanBeActedOn == SealedIsComplete /\ RejectionHasReasons

(***************************************************************************)
(* A verification is started under the plan of the Qmax the phone itself   *)
(* holds for the dispenser ("selected by the dispenser's designation").    *)
(***************************************************************************)
PlanFollowsPlate ==
  [][row.state = "none" /\ row'.state = "DRAFT" /\ register.qMax # 0 =>
       row'.form.plan = PlanFor(Designation(register.qMax))]_captureVars
===============================================================================
