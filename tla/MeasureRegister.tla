---------------------------- MODULE MeasureRegister ----------------------------
(***************************************************************************)
(* The certified measures of a technician on their way between the         *)
(* service's register (technicians.py, app_my_measures), the phone's cache *)
(* and outbox, and the local profile that opens the verification gate and  *)
(* is printed on certificates (profile.tsx, profileStore.ts).              *)
(*                                                                         *)
(* The profile is kept per officer; the cached answer and the outbox       *)
(* belong to the phone, and a request goes on with the token it was given. *)
(* An admin is answered for the technician they view.                      *)
(*                                                                         *)
(* Abstracted: one size; a measure is the technician the screen named when *)
(* it was entered.  The gate itself is Verification's.                     *)
(***************************************************************************)
EXTENDS PhoneSession

CONSTANTS
  MaxQueued, MaxPulls,   \* bounds: measures in the outbox, requests under way
  Cold                   \* a cache key never written, an answer not given yet

VARIABLES
  viewAs,     \* app_view_as: the technician an admin works as
  register,   \* technician_measures: the active measure of each technician
  outbox,     \* addMeasure writes kept for later
  cache,      \* the cached answer `measures:my`
  pulls,      \* requests for the measures: whose token, for which screen, the answer
  profile     \* the local profile of each officer: the mirrored measure
measureVars == <<viewAs, register, outbox, cache, pulls, profile>>

MeasureInit ==
  /\ viewAs = [a \in Admins |-> Nobody] /\ register = [t \in Technicians |-> Nobody]
  /\ outbox = << >> /\ cache = Cold /\ pulls = {} /\ profile = [o \in Officers |-> Nobody]

-----------------------------------------------------------------------------
(* The service's side of the register.                                     *)

\* app_staff_code: the technician an account's requests are answered for.
StaffCode(o) == IF o \in Admins THEN viewAs[o] ELSE o
ActiveMeasures(o) == IF StaffCode(o) = Nobody THEN Nobody ELSE register[StaffCode(o)]

\* add_measure: supersedes in the register of whoever the token stands for; else 403.
AddMeasure(o, measure) ==
  register' = IF StaffCode(o) = Nobody THEN register ELSE [register EXCEPT ![StaffCode(o)] = measure]

-----------------------------------------------------------------------------
(* The profile screen and the mirror sync.                                 *)

Pull(mirror) ==
  /\ Cardinality(pulls) < MaxPulls
  /\ pulls' = pulls \cup {[by |-> session, mirror |-> mirror, answer |-> Cold]}

\* fetchThrough('measures:my'): a cached answer is shown and mirrored at once, and only
\* refreshed in the background; without one the screen waits for the service's.
OpenProfile ==
  /\ session # Nobody
  /\ \/ cache = Cold /\ Pull(TRUE) /\ UNCHANGED profile
     \/ cache # Cold /\ Pull(FALSE) /\ profile' = [profile EXCEPT ![session] = cache]
  /\ UNCHANGED <<sessionVars, viewAs, register, outbox, cache>>
\* Leaving the screen, or another token, cancels the mirroring but not the request.
LeaveProfile ==
  /\ pulls' = {[p EXCEPT !.mirror = FALSE] : p \in pulls} /\ pulls' # pulls
  /\ UNCHANGED <<sessionVars, viewAs, register, outbox, cache, profile>>

PullServed(p) ==
  /\ p.answer = Cold
  /\ pulls' = (pulls \ {p}) \cup {[p EXCEPT !.answer = ActiveMeasures(p.by)]}
  /\ UNCHANGED <<sessionVars, viewAs, register, outbox, cache, profile>>
PullArrives(p) ==
  /\ p.answer # Cold
  /\ pulls' = pulls \ {p} /\ cache' = p.answer
  /\ profile' = IF p.mirror /\ p.by = session THEN [profile EXCEPT ![p.by] = p.answer] ELSE profile
  /\ UNCHANGED <<sessionVars, viewAs, register, outbox>>
PullFails(p) ==
  /\ pulls' = pulls \ {p}
  /\ UNCHANGED <<sessionVars, viewAs, register, outbox, cache, profile>>

\* The screen offers the register to a technician and to an admin who views one.
CanRegister == session # Nobody /\ StaffCode(session) # Nobody
\* submitMeasure: at the service, or into the outbox without a signal; mirrored either way.
SubmitMeasure ==
  /\ CanRegister
  /\ \/ AddMeasure(session, StaffCode(session)) /\ UNCHANGED outbox
     \/ /\ Len(outbox) < MaxQueued /\ outbox' = Append(outbox, StaffCode(session))
        /\ UNCHANGED register
  /\ profile' = [profile EXCEPT ![session] = StaffCode(session)]
  /\ UNCHANGED <<sessionVars, viewAs, cache, pulls>>

\* drainOutbox, one write: replayed with the token at hand; what is refused stays.
ReplayMeasure ==
  /\ session # Nobody /\ outbox # << >>
  /\ AddMeasure(session, Head(outbox))
  /\ outbox' = IF StaffCode(session) # Nobody THEN Tail(outbox) ELSE outbox
  /\ UNCHANGED <<sessionVars, viewAs, cache, pulls, profile>>
\* The measures ride the mirror sync (syncAll) into the cache.
SyncMeasures ==
  /\ session # Nobody /\ Pull(FALSE)
  /\ UNCHANGED <<sessionVars, viewAs, register, outbox, cache, profile>>

\* switchViewAs stores the selection with the service; ReplayMeasure and SyncMeasures follow.
SwitchView ==
  /\ session \in Admins /\ \E t \in Technicians \cup {Nobody} : viewAs' = [viewAs EXCEPT ![session] = t]
  /\ UNCHANGED <<sessionVars, register, outbox, cache, pulls, profile>>

\* A killed app hears no answer any more.
ScreenKilled == Kill /\ pulls' = {} /\ UNCHANGED <<viewAs, register, outbox, cache, profile>>

MeasureNext ==
  \/ SessionStep /\ UNCHANGED measureVars
  \/ ScreenKilled
  \/ OpenProfile \/ LeaveProfile \/ SubmitMeasure \/ ReplayMeasure \/ SyncMeasures \/ SwitchView
  \/ \E p \in pulls : PullServed(p) \/ PullArrives(p) \/ PullFails(p)
MeasureSpec == SessionInit /\ MeasureInit /\ [][MeasureNext]_<<sessionVars, measureVars>>

-----------------------------------------------------------------------------
(***************************************************************************)
(* "blank until the VO registers their own certified measures"             *)
(* (profile.tsx:54): the profile that opens the gate and is printed on     *)
(* certificates holds a measure of the technician's own register.          *)
(***************************************************************************)
BlankUntilOwn == \A t \in Technicians : profile[t] \in {Nobody, t}
=================================================================================
