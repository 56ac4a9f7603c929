----------------------------- MODULE PhoneSession ------------------------------
(***************************************************************************)
(* Who a phone works for (AuthContext.tsx): the session in the secure      *)
(* store, the one the app shows, its restoring at launch and its refresh,  *)
(* which go on whoever signs out or in meanwhile.  A token is its officer. *)
(***************************************************************************)
EXTENDS Naturals, Sequences, FiniteSets

CONSTANTS
  Technicians, Admins,   \* the accounts; an admin has no technician record
  MaxSignIns,            \* bound: sign-ins on this phone
  Nobody                 \* nobody, nothing

Officers == Technicians \cup Admins

VARIABLES
  secure,     \* whose session the secure store holds
  session,    \* whose session the app shows
  restoring,  \* the stored session the launch is about to restore
  asking,     \* officers whose token is being refreshed
  users,      \* history: who has signed in on this phone
  signIns     \* bound: how often
sessionVars == <<secure, session, restoring, asking, users, signIns>>

SessionInit ==
  /\ secure = Nobody /\ session = Nobody /\ restoring = Nobody /\ asking = {}
  /\ users = {} /\ signIns = 0

\* persist: the secure store, then what the app shows.
Persist(who) == secure' = who /\ session' = who

\* The buttons are shown as long as nobody is signed in, during the restore too.
SignIn(o) ==
  /\ session = Nobody /\ signIns < MaxSignIns
  /\ Persist(o) /\ users' = users \cup {o} /\ signIns' = signIns + 1
  /\ UNCHANGED <<restoring, asking>>
SignOut ==
  /\ session # Nobody /\ Persist(Nobody)
  /\ UNCHANGED <<restoring, asking, users, signIns>>

\* refreshIfNeeded: every minute and on every return to the foreground (bound: one at a time).
AskRefresh ==
  /\ session # Nobody /\ asking = {} /\ asking' = {session}
  /\ UNCHANGED <<secure, session, restoring, users, signIns>>
\* The answer is persisted whoever is signed in by now; a failure keeps what there is.
Refreshed(o) ==
  /\ o \in asking /\ asking' = asking \ {o}
  /\ Persist(o) \/ UNCHANGED <<secure, session>>
  /\ UNCHANGED <<restoring, users, signIns>>

\* The app is killed: what it held in memory is gone, what it was waiting for unheard.
Kill ==
  /\ session' = Nobody /\ asking' = {} /\ restoring' = Nobody
  /\ UNCHANGED <<secure, users, signIns>>
\* Restore on launch: the stored session, refreshed first if it has (nearly) expired.
Launch ==
  /\ session = Nobody /\ restoring = Nobody /\ secure # Nobody /\ restoring' = secure
  /\ UNCHANGED <<secure, session, asking, users, signIns>>
Restored ==
  /\ restoring # Nobody
  /\ session' = restoring /\ secure' \in {secure, restoring} /\ restoring' = Nobody
  /\ UNCHANGED <<asking, users, signIns>>

SessionStep ==
  \/ \E o \in Officers : SignIn(o) \/ Refreshed(o)
  \/ SignOut \/ AskRefresh \/ Launch \/ Restored
=================================================================================
