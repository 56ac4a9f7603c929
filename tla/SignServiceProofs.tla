-------------------------- MODULE SignServiceProofs --------------------------
(***************************************************************************)
(* The signing service issues a certificate once, for any number of        *)
(* overlapping requests, keys, numbers and signatures.                     *)
(*                                                                         *)
(* The uniqueness of a certificate rests on the constraint Commit meets,   *)
(* not on what the handler read before.  That an issued certificate can be *)
(* fetched needs more: a handler about to commit has stored its object     *)
(* (StoredHasObject).  That a 200 answers with the caller's own            *)
(* certificate needs the row a responding handler has found (AnswersRow).  *)
(*                                                                         *)
(* The archive is write-once only while requests do not overlap: a handler *)
(* reads that its number is free and puts the object later, under no lock. *)
(***************************************************************************)
EXTENDS SignService, TLAPS

HasSubmission ==
  \A r \in Reqs : handler[r].pc # "idle" => handler[r].key \in Keys /\ handler[r].num \in Numbers

StoredHasObject ==
  \A r \in Reqs : handler[r].pc = "stored" => handler[r].sig # 0 /\ object[handler[r].num] # 0

RowOf(h) == \E row \in rows : row.key = h.key /\ row.num = h.num /\ row.sig = h.sig

AnswersRow ==
  \A r \in Reqs : handler[r].pc = "respond" \/ handler[r].status = "issued" => RowOf(handler[r])

StatusWhenDone == \A r \in Reqs : handler[r].status # "none" => handler[r].pc = "done"

IInv == /\ ServiceTypeOK /\ HasSubmission /\ StatusWhenDone /\ StoredHasObject /\ AnswersRow
        /\ UniqueIssue /\ IssuedRetrievable

LEMMA IdleType ==
  /\ NoRequest \in Handler
  /\ NoRequest.pc = "idle" /\ NoRequest.status = "none"
BY VersionsAssumption DEF NoRequest, Handler, Phases, Statuses

-----------------------------------------------------------------------------
LEMMA InitIInv == ServerInit => IInv
BY IdleType DEF ServerInit, IInv, ServiceTypeOK, HasSubmission, StatusWhenDone, StoredHasObject,
                AnswersRow, UniqueIssue, IssuedRetrievable

(* One handler moves on and the others do not: what it takes for the       *)
(* invariants about handlers to hold afterwards.                           *)
LEMMA HandlerMoves ==
  ASSUME IInv, NEW r \in Reqs, NEW h \in Handler,
         handler' = [handler EXCEPT ![r] = h],
         rows \subseteq rows',
         object' \in [Numbers -> Nat],
         \A n \in Numbers : object[n] # 0 => object'[n] # 0,
         h.pc # "idle" => h.key \in Keys /\ h.num \in Numbers,
         h.status # "none" => h.pc = "done",
         h.pc = "stored" => h.sig # 0 /\ object'[h.num] # 0,
         h.pc = "respond" \/ h.status = "issued" =>
           \E row \in rows' : row.key = h.key /\ row.num = h.num /\ row.sig = h.sig
  PROVE  /\ handler' \in [Reqs -> Handler]
         /\ HasSubmission' /\ StatusWhenDone' /\ StoredHasObject' /\ AnswersRow'
<1>1. /\ handler' \in [Reqs -> Handler]
      /\ handler'[r] = h
      /\ \A q \in Reqs : q # r => handler'[q] = handler[q]
  BY DEF IInv, ServiceTypeOK
<1>2. HasSubmission' /\ StatusWhenDone'
  BY <1>1 DEF IInv, HasSubmission, StatusWhenDone
<1>3. StoredHasObject'
  BY <1>1 DEF IInv, HasSubmission, StoredHasObject
<1>4. AnswersRow'
  <2>1. ASSUME NEW q \in Reqs, q # r, handler'[q].pc = "respond" \/ handler'[q].status = "issued"
        PROVE  RowOf(handler[q])
    BY <1>1, <2>1 DEF IInv, AnswersRow
  <2> QED
    BY <1>1, <2>1 DEF AnswersRow, RowOf
<1> QED
  BY <1>1, <1>2, <1>3, <1>4

(* The facts about rows and objects survive a step that adds no row.       *)
LEMMA NoRowAdded ==
  ASSUME IInv, rows' = rows, \A n \in Numbers : object[n] # 0 => object'[n] # 0
  PROVE  UniqueIssue' /\ IssuedRetrievable'
BY DEF IInv, ServiceTypeOK, CertificateRow, UniqueIssue, IssuedRetrievable

-----------------------------------------------------------------------------
(* Steps outside the handlers.                                             *)

LEMMA EnvironmentKeeps ==
  ASSUME IInv, NEW n \in Numbers, ReserveNumber(n) \/ FetchPdf(n) \/ Receipt(n)
  PROVE  IInv'
<1>1. nextNumber' \in Nat \ {0}
  BY DEF IInv, ServiceTypeOK, ReserveNumber, FetchPdf, Receipt
<1>2. audit' \subseteq [kind : Kinds, num : Numbers, sig : Nat]
  BY DEF IInv, ServiceTypeOK, ReserveNumber, FetchPdf, Receipt, Event, Kinds
<1>3. UNCHANGED <<rows, object, handler, nextSig>>
  BY DEF ReserveNumber, FetchPdf, Receipt
<1> QED
  BY <1>1, <1>2, <1>3 DEF IInv, ServiceTypeOK, HasSubmission, StatusWhenDone, StoredHasObject, AnswersRow,
                          RowOf, UniqueIssue, IssuedRetrievable

LEMMA SubmitKeeps ==
  ASSUME IInv, NEW r \in Reqs, NEW k \in Keys, NEW n \in Numbers, NEW v \in Versions,
         Submit(r, k, n, v)
  PROVE  IInv'
<1> DEFINE h == [NoRequest EXCEPT !.pc = "received", !.key = k, !.num = n, !.ver = v]
<1>1. /\ h \in Handler /\ h.pc = "received" /\ h.key = k /\ h.num = n /\ h.status = "none"
  BY IdleType DEF Handler, Phases
<1>2. /\ handler' = [handler EXCEPT ![r] = h]
      /\ UNCHANGED <<rows, object, nextSig, nextNumber, audit>>
  BY DEF Submit
<1> HIDE DEF h
<1>3. /\ handler' \in [Reqs -> Handler]
      /\ HasSubmission' /\ StatusWhenDone' /\ StoredHasObject' /\ AnswersRow'
  BY <1>1, <1>2, HandlerMoves DEF IInv, ServiceTypeOK
<1> QED
  BY <1>2, <1>3, NoRowAdded DEF IInv, ServiceTypeOK

LEMMA HangupKeeps ==
  ASSUME IInv, NEW r \in Reqs, Hangup(r)
  PROVE  IInv'
<1>1. /\ handler' \in [Reqs -> Handler]
      /\ HasSubmission' /\ StatusWhenDone' /\ StoredHasObject' /\ AnswersRow'
  BY IdleType, HandlerMoves DEF IInv, ServiceTypeOK, Hangup
<1> QED
  BY <1>1, NoRowAdded DEF IInv, ServiceTypeOK, Hangup

-----------------------------------------------------------------------------
(* A handler that ends with an error changes nothing the others rely on,   *)
(* as long as no stored object disappears.                                 *)
LEMMA FailKeeps ==
  ASSUME IInv, NEW r \in Reqs, NEW status \in {"refused", "conflict", "error"}, Fail(r, status),
         handler[r].pc # "idle",
         rows' = rows, object' \in [Numbers -> Nat],
         \A n \in Numbers : object[n] # 0 => object'[n] # 0,
         nextSig' \in Nat \ {0}, nextNumber' = nextNumber,
         audit' \subseteq [kind : Kinds, num : Numbers, sig : Nat]
  PROVE  IInv'
<1> DEFINE h == [handler[r] EXCEPT !.pc = "done", !.status = status]
<1>1. handler[r] \in Handler
  BY DEF IInv, ServiceTypeOK
<1>2. /\ h \in Handler /\ h.pc = "done" /\ h.status = status
      /\ h.key = handler[r].key /\ h.num = handler[r].num
  BY <1>1 DEF Handler, Phases, Statuses
<1>3. handler' = [handler EXCEPT ![r] = h]
  BY DEF Fail
<1>4. h.key \in Keys /\ h.num \in Numbers
  BY <1>2 DEF IInv, HasSubmission
<1> HIDE DEF h
<1>5. /\ handler' \in [Reqs -> Handler]
      /\ HasSubmission' /\ StatusWhenDone' /\ StoredHasObject' /\ AnswersRow'
  BY <1>2, <1>3, <1>4, HandlerMoves
<1> QED
  BY <1>5, NoRowAdded DEF IInv, ServiceTypeOK

(* The steps of a handler on the way to an answer.                         *)

LEMMA CheckKeyKeeps ==
  ASSUME IInv, NEW r \in Reqs, CheckKey(r)
  PROVE  IInv'
<1>1. /\ handler[r] \in Handler /\ handler[r].pc = "received" /\ handler[r].status = "none"
      /\ handler[r].key \in Keys /\ handler[r].num \in Numbers
      /\ UNCHANGED <<rows, object, nextSig, nextNumber, audit>>
  BY DEF IInv, ServiceTypeOK, CheckKey, HasSubmission, StatusWhenDone
<1>2. ASSUME NEW h \in Handler, handler' = [handler EXCEPT ![r] = h],
             h.pc \in {"keyFree", "respond"}, h.status = "none",
             h.key \in Keys /\ h.num \in Numbers,
             h.pc = "respond" =>
               \E row \in rows' : row.key = h.key /\ row.num = h.num /\ row.sig = h.sig
      PROVE  IInv'
  <2>1. /\ handler' \in [Reqs -> Handler]
        /\ HasSubmission' /\ StatusWhenDone' /\ StoredHasObject' /\ AnswersRow'
    BY <1>1, <1>2, HandlerMoves DEF IInv, ServiceTypeOK
  <2> QED
    BY <1>1, <2>1, NoRowAdded DEF IInv, ServiceTypeOK
<1>3. CASE handler' = [handler EXCEPT ![r].pc = "keyFree"]
  <2> DEFINE h == [handler[r] EXCEPT !.pc = "keyFree"]
  <2>1. /\ h \in Handler /\ h.pc = "keyFree" /\ h.status = "none"
        /\ h.key \in Keys /\ h.num \in Numbers
    BY <1>1 DEF Handler, Phases
  <2> QED
    BY <1>2, <1>3, <2>1
<1>4. CASE \E row \in KeyRows(r) :
             handler' = [handler EXCEPT ![r].pc = "respond", ![r].num = row.num, ![r].sig = row.sig]
  <2>1. PICK row \in rows :
          /\ row.key = handler[r].key
          /\ handler' = [handler EXCEPT ![r].pc = "respond", ![r].num = row.num, ![r].sig = row.sig]
    BY <1>4 DEF KeyRows
  <2>2. row.num \in Numbers /\ row.sig \in Nat
    BY DEF IInv, ServiceTypeOK, CertificateRow
  <2> DEFINE h == [handler[r] EXCEPT !.pc = "respond", !.num = row.num, !.sig = row.sig]
  <2>3. /\ h \in Handler /\ h.pc = "respond" /\ h.status = "none"
        /\ h.key = handler[r].key /\ h.num = row.num /\ h.sig = row.sig
    BY <1>1, <2>2 DEF Handler, Phases
  <2>4. handler' = [handler EXCEPT ![r] = h]
    BY <2>1
  <2>5. \E x \in rows' : x.key = h.key /\ x.num = h.num /\ x.sig = h.sig
    BY <1>1, <2>1, <2>3 DEF RowOf
  <2> HIDE DEF h
  <2> QED
    BY <1>1, <1>2, <2>2, <2>3, <2>4, <2>5
<1> QED
  BY <1>3, <1>4 DEF CheckKey

LEMMA CheckNumberKeeps ==
  ASSUME IInv, NEW r \in Reqs, CheckNumber(r)
  PROVE  IInv'
<1>1. /\ handler[r] \in Handler /\ handler[r].pc = "keyFree" /\ handler[r].status = "none"
      /\ handler[r].key \in Keys /\ handler[r].num \in Numbers
      /\ UNCHANGED <<rows, object, nextSig, nextNumber, audit>>
  BY DEF IInv, ServiceTypeOK, CheckNumber, HasSubmission, StatusWhenDone
<1>2. CASE handler' = [handler EXCEPT ![r].pc = "cleared"]
  <2> DEFINE h == [handler[r] EXCEPT !.pc = "cleared"]
  <2>1. /\ h \in Handler /\ h.pc = "cleared" /\ h.status = "none"
        /\ h.key \in Keys /\ h.num \in Numbers
    BY <1>1 DEF Handler, Phases
  <2>2. handler' = [handler EXCEPT ![r] = h]
    BY <1>2
  <2> HIDE DEF h
  <2>3. /\ handler' \in [Reqs -> Handler]
        /\ HasSubmission' /\ StatusWhenDone' /\ StoredHasObject' /\ AnswersRow'
    BY <1>1, <2>1, <2>2, HandlerMoves DEF IInv, ServiceTypeOK
  <2> QED
    BY <1>1, <2>3, NoRowAdded DEF IInv, ServiceTypeOK
<1>3. CASE Fail(r, "conflict") \/ Fail(r, "refused")
  BY <1>1, <1>3, FailKeeps DEF IInv, ServiceTypeOK
<1> QED
  BY <1>2, <1>3 DEF CheckNumber

LEMMA SignAndStoreKeeps ==
  ASSUME IInv, NEW r \in Reqs, SignAndStore(r)
  PROVE  IInv'
<1>1. /\ handler[r] \in Handler /\ handler[r].pc = "cleared" /\ handler[r].status = "none"
      /\ handler[r].key \in Keys /\ handler[r].num \in Numbers
      /\ nextSig \in Nat \ {0} /\ nextSig' \in Nat \ {0}
      /\ UNCHANGED <<rows, nextNumber, audit>>
  BY DEF IInv, ServiceTypeOK, SignAndStore, HasSubmission, StatusWhenDone
<1>2. /\ object' \in [Numbers -> Nat]
      /\ object'[handler[r].num] = nextSig
      /\ \A n \in Numbers : object[n] # 0 => object'[n] # 0
  BY <1>1 DEF IInv, ServiceTypeOK, SignAndStore
<1> DEFINE h == [handler[r] EXCEPT !.pc = "stored", !.sig = nextSig]
<1>3. /\ h \in Handler /\ h.pc = "stored" /\ h.status = "none" /\ h.sig = nextSig
      /\ h.key = handler[r].key /\ h.num = handler[r].num
  BY <1>1 DEF Handler, Phases
<1>4. handler' = [handler EXCEPT ![r] = h]
  BY DEF SignAndStore
<1> HIDE DEF h
<1>5. /\ handler' \in [Reqs -> Handler]
      /\ HasSubmission' /\ StatusWhenDone' /\ StoredHasObject' /\ AnswersRow'
  BY <1>1, <1>2, <1>3, <1>4, HandlerMoves DEF IInv, ServiceTypeOK
<1> QED
  BY <1>1, <1>2, <1>5, NoRowAdded DEF IInv, ServiceTypeOK

LEMMA CommitKeeps ==
  ASSUME IInv, NEW r \in Reqs, Commit(r)
  PROVE  IInv'
<1>1. /\ handler[r] \in Handler /\ handler[r].pc = "stored" /\ handler[r].status = "none"
      /\ handler[r].key \in Keys /\ handler[r].num \in Numbers
      /\ handler[r].sig # 0 /\ object[handler[r].num] # 0
      /\ UNCHANGED <<object, nextSig, nextNumber>>
  BY DEF IInv, ServiceTypeOK, Commit, HasSubmission, StatusWhenDone, StoredHasObject
<1> DEFINE new == [key |-> handler[r].key, num |-> handler[r].num,
                   ver |-> handler[r].ver, sig |-> handler[r].sig]
           h   == [handler[r] EXCEPT !.pc = "respond"]
<1>2. CASE \E row \in rows : row.key = handler[r].key \/ row.num = handler[r].num
  <2>1. Fail(r, "error") /\ rows' = rows /\ audit' = audit
    BY <1>2 DEF Commit
  <2> QED
    BY <1>1, <2>1, FailKeeps DEF IInv, ServiceTypeOK
<1>3. CASE \A row \in rows : row.key # handler[r].key /\ row.num # handler[r].num
  <2>1. /\ rows' = rows \cup {new} /\ new \in CertificateRow
        /\ new.key = handler[r].key /\ new.num = handler[r].num /\ new.sig = handler[r].sig
        /\ handler' = [handler EXCEPT ![r] = h]
    BY <1>1, <1>3 DEF Commit, CertificateRow, Handler
  <2>2. audit' \subseteq [kind : Kinds, num : Numbers, sig : Nat]
    BY <1>1, <1>3 DEF Commit, Event, Kinds, Handler, IInv, ServiceTypeOK
  <2>3. /\ h \in Handler /\ h.pc = "respond" /\ h.status = "none"
        /\ h.key = handler[r].key /\ h.num = handler[r].num /\ h.sig = handler[r].sig
    BY <1>1 DEF Handler, Phases
  <2> HIDE DEF h, new
  <2>4. \E row \in rows' : row.key = h.key /\ row.num = h.num /\ row.sig = h.sig
    BY <2>1, <2>3 DEF RowOf
  <2>5. /\ handler' \in [Reqs -> Handler]
        /\ HasSubmission' /\ StatusWhenDone' /\ StoredHasObject' /\ AnswersRow'
    BY <1>1, <2>1, <2>3, <2>4, HandlerMoves DEF IInv, ServiceTypeOK
  <2>6. UniqueIssue' /\ IssuedRetrievable'
    BY <1>1, <1>3, <2>1 DEF IInv, UniqueIssue, IssuedRetrievable
  <2> QED
    BY <1>1, <2>1, <2>2, <2>5, <2>6 DEF IInv, ServiceTypeOK
<1> QED
  BY <1>2, <1>3

LEMMA RespondKeeps ==
  ASSUME IInv, NEW r \in Reqs, Respond(r)
  PROVE  IInv'
<1>1. /\ handler[r] \in Handler /\ handler[r].pc = "respond"
      /\ handler[r].key \in Keys /\ handler[r].num \in Numbers
      /\ object[handler[r].num] \in Nat
      /\ RowOf(handler[r])
      /\ UNCHANGED <<rows, object, nextSig, nextNumber, audit>>
  BY DEF IInv, ServiceTypeOK, Respond, HasSubmission, AnswersRow
<1> DEFINE h == [handler[r] EXCEPT !.pc = "done", !.status = "issued",
                                   !.pdf = object[handler[r].num]]
<1>2. /\ h \in Handler /\ h.pc = "done" /\ h.status = "issued"
      /\ h.key = handler[r].key /\ h.num = handler[r].num /\ h.sig = handler[r].sig
  BY <1>1 DEF Handler, Phases, Statuses
<1>3. handler' = [handler EXCEPT ![r] = h]
  BY DEF Respond
<1> HIDE DEF h
<1>4. \E row \in rows' : row.key = h.key /\ row.num = h.num /\ row.sig = h.sig
  BY <1>1, <1>2 DEF RowOf
<1>5. /\ handler' \in [Reqs -> Handler]
      /\ HasSubmission' /\ StatusWhenDone' /\ StoredHasObject' /\ AnswersRow'
  BY <1>1, <1>2, <1>3, <1>4, HandlerMoves DEF IInv, ServiceTypeOK
<1> QED
  BY <1>1, <1>5, NoRowAdded DEF IInv, ServiceTypeOK

LEMMA TroubleKeeps ==
  ASSUME IInv, NEW r \in Reqs, Trouble(r)
  PROVE  IInv'
<1>1. CASE RefuseEarly(r) \/ RespondFails(r) \/ HandlerCrash(r)
  <2>1. Fail(r, "refused") \/ Fail(r, "error")
    BY <1>1 DEF RefuseEarly, RespondFails, HandlerCrash
  <2>2. /\ handler[r].pc # "idle"
        /\ UNCHANGED <<rows, object, nextSig, nextNumber, audit>>
    BY <1>1 DEF RefuseEarly, RespondFails, HandlerCrash
  <2> QED
    BY <2>1, <2>2, FailKeeps DEF IInv, ServiceTypeOK
<1>2. ASSUME NEW why \in LateRefusals, Refuse(r, why)
      PROVE  IInv'
  <2>1. /\ handler[r].pc # "idle" /\ Fail(r, "refused")
        /\ UNCHANGED <<rows, object, nextSig, nextNumber>>
    BY <1>2 DEF Refuse
  <2>2. audit' \subseteq [kind : Kinds, num : Numbers, sig : Nat]
    BY <1>2, <2>1 DEF Refuse, IInv, ServiceTypeOK, HasSubmission, Event, Kinds
  <2> QED
    BY <2>1, <2>2, FailKeeps DEF IInv, ServiceTypeOK
<1>3. CASE StoreFails(r)
  <2>1. /\ handler[r].num \in Numbers /\ nextSig \in Nat \ {0}
        /\ handler[r].pc # "idle" /\ Fail(r, "error")
        /\ nextSig' \in Nat \ {0}
        /\ UNCHANGED <<rows, nextNumber, audit>>
    BY <1>3 DEF IInv, ServiceTypeOK, StoreFails, HasSubmission
  <2>2. /\ object' \in [Numbers -> Nat]
        /\ \A n \in Numbers : object[n] # 0 => object'[n] # 0
    BY <1>3, <2>1 DEF IInv, ServiceTypeOK, StoreFails
  <2> QED
    BY <2>1, <2>2, FailKeeps DEF IInv, ServiceTypeOK
<1> QED
  BY <1>1, <1>2, <1>3 DEF Trouble

-----------------------------------------------------------------------------
LEMMA NextKeeps ==
  ASSUME IInv, [ServerNext]_serverVars
  PROVE  IInv'
<1>1. CASE UNCHANGED serverVars
  BY <1>1 DEF serverVars, IInv, ServiceTypeOK, HasSubmission, StatusWhenDone, StoredHasObject, AnswersRow,
              RowOf, UniqueIssue, IssuedRetrievable
<1>2. ASSUME NEW n \in Numbers, ReserveNumber(n) \/ FetchPdf(n) \/ Receipt(n)
      PROVE  IInv'
  BY <1>2, EnvironmentKeeps
<1>3. ASSUME NEW r \in Reqs, Progress(r) \/ Trouble(r) \/ Hangup(r)
      PROVE  IInv'
  BY <1>3, CheckKeyKeeps, CheckNumberKeeps, SignAndStoreKeeps, CommitKeeps, RespondKeeps,
     TroubleKeeps, HangupKeeps DEF Progress
<1>4. ASSUME NEW r \in Reqs, NEW k \in Keys, NEW n \in Numbers, NEW v \in Versions,
             Submit(r, k, n, v)
      PROVE  IInv'
  BY <1>4, SubmitKeeps
<1> QED
  BY <1>1, <1>2, <1>3, <1>4 DEF ServerNext

LEMMA ServiceInductive == ServerSpec => []IInv
<1>1. ServerInit => IInv
  BY InitIInv
<1>2. IInv /\ [ServerNext]_serverVars => IInv'
  BY NextKeeps
<1> QED
  BY <1>1, <1>2, PTL DEF ServerSpec

(* The state of the service has its type whatever the requests do.         *)
THEOREM ServiceTypes == ServerSpec => []ServiceTypeOK
<1>1. IInv => ServiceTypeOK
  BY DEF IInv
<1> QED
  BY <1>1, ServiceInductive, PTL

(* Overlapping requests, retries, crashes and a failing store never leave  *)
(* two certificates with one key or with one number.                       *)
THEOREM IssuesAreUnique == ServerSpec => []UniqueIssue
<1>1. IInv => UniqueIssue
  BY DEF IInv
<1> QED
  BY <1>1, ServiceInductive, PTL

(* An issued certificate always has its signed PDF in the archive: the     *)
(* object is put before the row is committed and never removed.            *)
THEOREM IssuesAreRetrievable == ServerSpec => []IssuedRetrievable
<1>1. IInv => IssuedRetrievable
  BY DEF IInv
<1> QED
  BY <1>1, ServiceInductive, PTL

(* A 200 answers the certificate that was issued for the caller's key, the *)
(* first time and on every replay.                                         *)
THEOREM AnswersAreOwn == ServerSpec => []AnswersOwnCertificate
<1>1. IInv => AnswersOwnCertificate
  BY DEF IInv, AnswersRow, RowOf, AnswersOwnCertificate
<1> QED
  BY <1>1, ServiceInductive, PTL

(* What a handler has read of its parent stays true: no row goes away.     *)
ParentSeen ==
  \A r \in Reqs :
    handler[r].pc \in {"cleared", "stored"} /\ ParentOf[handler[r].num] # 0
      => IsIssued(ParentOf[handler[r].num])

(* A handler is past the check of its number only if it was there before   *)
(* the step, with the same number, or has just made the check.             *)
LEMMA ClearedBefore ==
  ASSUME IInv, [ServerNext]_serverVars, NEW r \in Reqs,
         handler'[r].pc \in {"cleared", "stored"}
  PROVE  \/ handler[r].pc \in {"cleared", "stored"} /\ handler'[r].num = handler[r].num
         \/ CheckNumber(r) /\ handler'[r].num = handler[r].num
<1>1. handler \in [Reqs -> Handler] /\ NoRequest.pc = "idle" /\ NoRequest \in Handler
  BY IdleType DEF IInv, ServiceTypeOK
<1>2. CASE UNCHANGED serverVars
  BY <1>2 DEF serverVars
<1>3. ASSUME NEW n \in Numbers, ReserveNumber(n) \/ FetchPdf(n) \/ Receipt(n)
      PROVE  handler' = handler
  BY <1>3 DEF ReserveNumber, FetchPdf, Receipt
<1>4. ASSUME NEW q \in Reqs, Progress(q) \/ Trouble(q) \/ Hangup(q)
      PROVE  \/ handler[r].pc \in {"cleared", "stored"} /\ handler'[r].num = handler[r].num
             \/ CheckNumber(r) /\ handler'[r].num = handler[r].num
  <2>1. CASE Trouble(q)
    <3>1. PICK status : Fail(q, status)
      BY <2>1 DEF Trouble, RefuseEarly, RespondFails, HandlerCrash, Refuse, StoreFails
    <3> QED
      BY <1>1, <3>1 DEF Fail, Handler
  <2>2. CASE Hangup(q)
    BY <1>1, <2>2 DEF Hangup, Handler
  <2>3. CASE CheckKey(q)
    <3>1. CASE q = r
      <4>1. PICK row \in KeyRows(r) \cup {NoRequest}, pc \in {"respond", "keyFree"} :
              \/ handler' = [handler EXCEPT ![r].pc = pc, ![r].num = row.num, ![r].sig = row.sig]
              \/ handler' = [handler EXCEPT ![r].pc = pc]
        BY <2>3, <3>1 DEF CheckKey
      <4>2. handler'[r].pc = pc
        BY <1>1, <4>1 DEF Handler
      <4> QED
        BY <4>2
    <3>2. CASE q # r
      BY <1>1, <2>3, <3>2 DEF CheckKey
    <3> QED
      BY <3>1, <3>2
  <2>4. CASE CheckNumber(q)
    BY <1>1, <2>4 DEF CheckNumber, Fail, Handler
  <2>5. CASE SignAndStore(q)
    BY <1>1, <2>5 DEF SignAndStore, Handler
  <2>6. CASE Commit(q)
    BY <1>1, <2>6 DEF Commit, Fail, Handler
  <2>7. CASE Respond(q)
    BY <1>1, <2>7 DEF Respond, Handler
  <2> QED
    BY <1>4, <2>1, <2>2, <2>3, <2>4, <2>5, <2>6, <2>7 DEF Progress
<1>5. ASSUME NEW q \in Reqs, NEW k \in Keys, NEW n \in Numbers, NEW v \in Versions,
             Submit(q, k, n, v)
      PROVE  \/ handler[r].pc \in {"cleared", "stored"} /\ handler'[r].num = handler[r].num
             \/ CheckNumber(r) /\ handler'[r].num = handler[r].num
  BY <1>1, <1>5 DEF Submit, Handler
<1> QED
  BY <1>2, <1>3, <1>4, <1>5 DEF ServerNext

(* The certificates there are stay; one that is new is that of a handler   *)
(* that had stored it.                                                     *)
LEMMA RowsGrow ==
  ASSUME [ServerNext]_serverVars
  PROVE  /\ rows \subseteq rows'
         /\ \A row \in rows' \ rows :
              \E r \in Reqs : handler[r].pc = "stored" /\ row.num = handler[r].num
<1>1. ASSUME NEW r \in Reqs, Commit(r)
      PROVE  /\ rows \subseteq rows'
             /\ \A row \in rows' \ rows : handler[r].pc = "stored" /\ row.num = handler[r].num
  BY <1>1 DEF Commit
<1>2. \/ \E r \in Reqs : Commit(r)
      \/ rows' = rows
  BY DEF ServerNext, serverVars, ReserveNumber, FetchPdf, Receipt, Submit, Progress, Trouble,
         Hangup, CheckKey, CheckNumber, SignAndStore, Respond, RefuseEarly, RespondFails,
         HandlerCrash, Refuse, StoreFails
<1> QED
  BY <1>1, <1>2

(* A handler cleared for a rejection has seen its verification issued.     *)
LEMMA ParentsSeen == ServerSpec => [](ParentSeen /\ RejectionHasParent)
<1>1. ServerInit => ParentSeen /\ RejectionHasParent
  BY IdleType DEF ServerInit, ParentSeen, RejectionHasParent
<1>2. ASSUME IInv, ParentSeen, RejectionHasParent, [ServerNext]_serverVars
      PROVE  ParentSeen' /\ RejectionHasParent'
  <2>1. \A n : IsIssued(n) => IsIssued(n)'
    BY <1>2, RowsGrow DEF IsIssued
  <2>2. ASSUME NEW r \in Reqs, handler'[r].pc \in {"cleared", "stored"},
               ParentOf[handler'[r].num] # 0
        PROVE  IsIssued(ParentOf[handler'[r].num])
    <3>1. CASE handler[r].pc \in {"cleared", "stored"} /\ handler'[r].num = handler[r].num
      BY <1>2, <2>2, <3>1 DEF ParentSeen
    <3>2. CASE CheckNumber(r) /\ handler'[r].num = handler[r].num
      BY <1>2, <2>2, <3>2 DEF CheckNumber, Fail, IInv, ServiceTypeOK, Handler
    <3> QED
      BY <1>2, <2>2, <3>1, <3>2, ClearedBefore
  <2>3. ParentSeen'
    BY <2>1, <2>2 DEF ParentSeen, IsIssued
  <2>4. RejectionHasParent'
    <3> SUFFICES ASSUME NEW row \in rows', ParentOf[row.num] # 0
                 PROVE  IsIssued(ParentOf[row.num])'
      BY DEF RejectionHasParent, IsIssued
    <3>1. CASE row \in rows
      BY <1>2, <2>1, <3>1 DEF RejectionHasParent
    <3>2. CASE row \notin rows
      <4>1. PICK r \in Reqs : handler[r].pc = "stored" /\ row.num = handler[r].num
        BY <1>2, <3>2, RowsGrow
      <4> QED
        BY <1>2, <2>1, <4>1 DEF ParentSeen
    <3> QED
      BY <3>1, <3>2
  <2> QED
    BY <2>3, <2>4
<1> QED
  BY <1>1, <1>2, ServiceInductive, PTL DEF ServerSpec

(* A rejection certificate is never issued before the verification it      *)
(* rejects, however the two overlap and whatever is retried.               *)
THEOREM RejectionsHaveParents == ServerSpec => []RejectionHasParent
BY ParentsSeen, PTL

(* Adding a row adds its key and number to the abstract state.             *)
LEMMA ProjectAdded ==
  ASSUME NEW S, NEW x, NEW T, T = S \cup {x}
  PROVE  {[key |-> y.key, num |-> y.num] : y \in T}
           = {[key |-> y.key, num |-> y.num] : y \in S} \cup {[key |-> x.key, num |-> x.num]}
<1> DEFINE f(y) == [key |-> y.key, num |-> y.num]
<1> HIDE DEF f
<1>1. {f(y) : y \in T} = {f(y) : y \in S} \cup {f(x)}
  OBVIOUS
<1> QED
  BY <1>1 DEF f

(* Every step of the service is an Issue of the abstract specification or  *)
(* leaves the set of certificates alone: a certificate is issued once.     *)
THEOREM ServiceImplementsIssue == ServerSpec => IssuedOnce
<1> DEFINE abs == {[key |-> row.key, num |-> row.num] : row \in rows}
<1>1. ServerInit => Abstract!Init
  BY DEF ServerInit, Abstract!Init
<1>2. ASSUME IInv, ParentSeen, [ServerNext]_serverVars
      PROVE  [Abstract!Next]_abs
  <2>1. CASE rows' = rows
    BY <2>1
  <2>2. ASSUME NEW r \in Reqs, Commit(r), rows' # rows
        PROVE  Abstract!Next
    <3>1. PICK k \in Keys, n \in Numbers, new \in rows' :
            /\ new.key = k /\ new.num = n
            /\ \A row \in rows : row.key # k /\ row.num # n
            /\ ParentOf[n] # 0 => \E row \in rows : row.num = ParentOf[n]
            /\ rows' = rows \cup {new}
      <4> DEFINE h == handler[r]
                 rec == [key |-> h.key, num |-> h.num, ver |-> h.ver, sig |-> h.sig]
      <4>1. h.key \in Keys /\ h.num \in Numbers
        BY <1>2, <2>2 DEF IInv, HasSubmission, Commit
      <4>2. /\ \A row \in rows : row.key # h.key /\ row.num # h.num
            /\ rows' = rows \cup {rec}
        BY <2>2 DEF Commit
      <4>3. rec \in rows' /\ rec.key = h.key /\ rec.num = h.num
        BY <4>2
      <4>4. ParentOf[h.num] # 0 => \E row \in rows : row.num = ParentOf[h.num]
        BY <1>2, <2>2 DEF ParentSeen, IsIssued, Commit
      <4> HIDE DEF rec
      <4> QED
        BY <4>1, <4>2, <4>3, <4>4
    <3>2. \A c \in abs : c.key # k /\ c.num # n
      BY <3>1
    <3>3. abs' = abs \cup {[key |-> k, num |-> n]}
      BY <3>1, ProjectAdded
    <3>4. ParentOf[n] # 0 => \E c \in abs : c.num = ParentOf[n]
      <4> SUFFICES ASSUME ParentOf[n] # 0 PROVE \E c \in abs : c.num = ParentOf[n]
        OBVIOUS
      <4>1. PICK row \in rows : row.num = ParentOf[n]
        BY <3>1
      <4>2. [key |-> row.key, num |-> row.num] \in abs
        BY <4>1
      <4>3. [key |-> row.key, num |-> row.num].num = ParentOf[n]
        BY <4>1
      <4> QED
        BY <4>2, <4>3
    <3>5. Abstract!Issue(k, n)
      BY <3>2, <3>3, <3>4 DEF Abstract!Issue
    <3> QED
      BY <3>5 DEF Abstract!Next
  <2>3. \/ UNCHANGED serverVars
        \/ \E n \in Numbers : ReserveNumber(n) \/ FetchPdf(n) \/ Receipt(n)
        \/ \E r \in Reqs : Progress(r) \/ Trouble(r) \/ Hangup(r)
        \/ \E r \in Reqs, k \in Keys, n \in Numbers, v \in Versions : Submit(r, k, n, v)
    BY <1>2 DEF ServerNext
  <2>4. rows' = rows \/ \E r \in Reqs : Commit(r)
    BY <2>3 DEF serverVars, ReserveNumber, FetchPdf, Receipt, Progress, Trouble, Hangup, Submit,
                CheckKey, CheckNumber, SignAndStore, Respond, RefuseEarly, Refuse, StoreFails,
                RespondFails, HandlerCrash
  <2> QED
    BY <2>1, <2>2, <2>4
<1> QED
  BY <1>1, <1>2, ServiceInductive, ParentsSeen, PTL DEF ServerSpec, IssuedOnce, Abstract!Spec


-----------------------------------------------------------------------------
(* The archive is write-once as long as requests do not overlap.           *)

InFlight == {"received", "keyFree", "cleared", "stored"}

\* At most one handler is between its arrival and its commit.
NoOverlap ==
  \A q, r \in Reqs : handler[q].pc \in InFlight /\ handler[r].pc \in InFlight => q = r

(* What the check of the number found still holds when the object is put,  *)
(* and the object put is the one whose hash the row will record.           *)
NumberStillFree ==
  \A r \in Reqs :
    /\ handler[r].pc \in {"cleared", "stored"} => ~IsIssued(handler[r].num)
    /\ handler[r].pc = "stored" => object[handler[r].num] = handler[r].sig

LEMMA ArchiveKept ==
  ASSUME StoredMatchesRow, NumberStillFree, rows' = rows, object' = object,
         \A r \in Reqs : handler'[r].pc \in {"cleared", "stored"} => handler'[r] = handler[r]
  PROVE  StoredMatchesRow' /\ NumberStillFree'
BY DEF StoredMatchesRow, NumberStillFree, IsIssued

LEMMA ArchiveStep ==
  ASSUME IInv, NoOverlap, StoredMatchesRow, NumberStillFree, [ServerNext]_serverVars
  PROVE  StoredMatchesRow' /\ NumberStillFree'
<1>1. /\ handler \in [Reqs -> Handler] /\ NoRequest \in Handler /\ NoRequest.pc = "idle"
      /\ object \in [Numbers -> Nat] /\ rows \subseteq CertificateRow
  BY IdleType DEF IInv, ServiceTypeOK
<1>2. CASE \/ UNCHANGED serverVars
           \/ \E n \in Numbers : ReserveNumber(n) \/ FetchPdf(n) \/ Receipt(n)
  <2>1. rows' = rows /\ object' = object /\ handler' = handler
    BY <1>2 DEF serverVars, ReserveNumber, FetchPdf, Receipt
  <2> QED
    BY <2>1, ArchiveKept
<1>3. ASSUME NEW q \in Reqs, NEW k \in Keys, NEW n \in Numbers, NEW v \in Versions,
             Submit(q, k, n, v)
      PROVE  StoredMatchesRow' /\ NumberStillFree'
  <2>1. /\ rows' = rows /\ object' = object
        /\ \A r \in Reqs : handler'[r].pc \in {"cleared", "stored"} => handler'[r] = handler[r]
    BY <1>1, <1>3 DEF Submit, Handler
  <2> QED
    BY <2>1, ArchiveKept
<1>4. ASSUME NEW q \in Reqs,
             \/ CheckKey(q) \/ Respond(q) \/ RefuseEarly(q) \/ RespondFails(q)
             \/ HandlerCrash(q) \/ Hangup(q) \/ \E why \in LateRefusals : Refuse(q, why)
      PROVE  StoredMatchesRow' /\ NumberStillFree'
  <2>1. rows' = rows /\ object' = object
    BY <1>4 DEF CheckKey, Respond, RefuseEarly, RespondFails, HandlerCrash, Hangup, Refuse
  <2>2. ASSUME NEW r \in Reqs, handler'[r].pc \in {"cleared", "stored"}
        PROVE  handler'[r] = handler[r]
    <3>1. CASE q # r
      BY <1>1, <1>4, <3>1 DEF CheckKey, Respond, RefuseEarly, RespondFails, HandlerCrash,
                              Hangup, Refuse, Fail
    <3>2. CASE q = r
      <4>1. \/ \E row \in KeyRows(q) :
                 handler' = [handler EXCEPT ![q].pc = "respond", ![q].num = row.num,
                                            ![q].sig = row.sig]
            \/ handler' = [handler EXCEPT ![q].pc = "keyFree"]
            \/ Respond(q) \/ Hangup(q) \/ \E status : Fail(q, status)
        BY <1>4 DEF CheckKey, RefuseEarly, RespondFails, HandlerCrash, Refuse
      <4>2. ASSUME NEW row, handler' = [handler EXCEPT ![q].pc = "respond", ![q].num = row.num,
                                                       ![q].sig = row.sig]
            PROVE  handler'[q].pc = "respond"
        BY <1>1, <4>2 DEF Handler
      <4>3. CASE Respond(q) \/ Hangup(q)
        BY <1>1, <2>2, <3>2, <4>3 DEF Respond, Hangup, Handler
      <4>4. CASE handler' = [handler EXCEPT ![q].pc = "keyFree"]
        BY <1>1, <2>2, <3>2, <4>4 DEF Handler
      <4>5. CASE \E status : Fail(q, status)
        BY <1>1, <2>2, <3>2, <4>5 DEF Fail, Handler
      <4> QED
        BY <2>2, <3>2, <4>1, <4>2, <4>3, <4>4, <4>5
    <3> QED
      BY <3>1, <3>2
  <2> QED
    BY <2>1, <2>2, ArchiveKept
<1>5. ASSUME NEW q \in Reqs, CheckNumber(q)
      PROVE  StoredMatchesRow' /\ NumberStillFree'
  <2>1. CASE Fail(q, "conflict") \/ Fail(q, "refused")
    <3>1. /\ rows' = rows /\ object' = object
          /\ \A r \in Reqs : handler'[r].pc \in {"cleared", "stored"} => handler'[r] = handler[r]
      BY <1>1, <1>5, <2>1 DEF CheckNumber, Fail, Handler
    <3> QED
      BY <3>1, ArchiveKept
  <2>2. CASE ~IsIssued(handler[q].num) /\ handler' = [handler EXCEPT ![q].pc = "cleared"]
    <3>1. /\ rows' = rows /\ object' = object
          /\ handler'[q].pc = "cleared" /\ handler'[q].num = handler[q].num
          /\ \A r \in Reqs : r # q => handler'[r] = handler[r]
      BY <1>1, <1>5, <2>2 DEF CheckNumber, Handler
    <3> QED
      BY <2>2, <3>1 DEF StoredMatchesRow, NumberStillFree, IsIssued
  <2> QED
    BY <1>5, <2>1, <2>2 DEF CheckNumber
<1>6. ASSUME NEW q \in Reqs, SignAndStore(q) \/ StoreFails(q)
      PROVE  StoredMatchesRow' /\ NumberStillFree'
  <2>1. /\ handler[q].pc = "cleared" /\ rows' = rows
        /\ handler[q].num \in Numbers /\ ~IsIssued(handler[q].num) /\ nextSig \in Nat
    BY <1>6 DEF SignAndStore, StoreFails, IInv, HasSubmission, NumberStillFree, ServiceTypeOK
  <2>2. \A n \in Numbers : n # handler[q].num => object'[n] = object[n]
    BY <1>1, <1>6, <2>1 DEF SignAndStore, StoreFails
  <2>3. StoredMatchesRow'
    BY <1>1, <2>1, <2>2 DEF StoredMatchesRow, IsIssued, CertificateRow
  <2>4. ASSUME NEW r \in Reqs, r # q
        PROVE  handler'[r].pc \notin {"cleared", "stored"}
    <3>1. handler'[r] = handler[r]
      BY <1>1, <1>6, <2>4 DEF SignAndStore, StoreFails, Fail
    <3> QED
      BY <2>1, <2>4, <3>1 DEF NoOverlap, InFlight
  <2>5. \/ /\ handler'[q].pc = "stored" /\ handler'[q].num = handler[q].num
           /\ object'[handler[q].num] = handler'[q].sig
        \/ handler'[q].pc = "done"
    BY <1>1, <1>6, <2>1 DEF SignAndStore, StoreFails, Fail, Handler
  <2>6. ASSUME NEW r \in Reqs
        PROVE  /\ handler'[r].pc \in {"cleared", "stored"} => ~IsIssued(handler[r].num)
               /\ handler'[r].pc \in {"cleared", "stored"} =>
                    /\ handler'[r].num = handler[r].num
                    /\ object'[handler'[r].num] = handler'[r].sig
    BY <2>1, <2>4, <2>5
  <2> QED
    BY <2>1, <2>3, <2>6 DEF NumberStillFree, IsIssued
<1>7. ASSUME NEW q \in Reqs, Commit(q)
      PROVE  StoredMatchesRow' /\ NumberStillFree'
  <2>1. /\ handler[q].pc = "stored" /\ object' = object
        /\ object[handler[q].num] = handler[q].sig
    BY <1>7 DEF Commit, NumberStillFree
  <2>2. \A row \in rows' \ rows : row.num = handler[q].num /\ row.sig = handler[q].sig
    BY <1>7 DEF Commit
  <2>3. StoredMatchesRow'
    BY <2>1, <2>2 DEF StoredMatchesRow
  <2>4. ASSUME NEW r \in Reqs
        PROVE  handler'[r].pc \notin {"cleared", "stored"}
    <3>1. CASE r # q
      <4>1. handler'[r] = handler[r]
        BY <1>1, <1>7, <3>1 DEF Commit, Fail
      <4> QED
        BY <2>1, <3>1, <4>1 DEF NoOverlap, InFlight
    <3>2. CASE r = q
      BY <1>1, <1>7, <3>2 DEF Commit, Fail, Handler
    <3> QED
      BY <3>1, <3>2
  <2> QED
    BY <2>3, <2>4 DEF NumberStillFree
<1> QED
  BY <1>2, <1>3, <1>4, <1>5, <1>6, <1>7 DEF ServerNext, Progress, Trouble

(* While no two sign requests overlap, the stored PDF is the one whose     *)
(* hash the row records: put() never meets an issued number.  Two handlers *)
(* that pass the check of one number together break it.                    *)
THEOREM ArchiveIsWriteOnce == ServerSpec /\ []NoOverlap => []StoredMatchesRow
<1>1. ServerInit => StoredMatchesRow /\ NumberStillFree
  BY IdleType DEF ServerInit, StoredMatchesRow, NumberStillFree
<1>2. /\ IInv /\ NoOverlap /\ StoredMatchesRow /\ NumberStillFree /\ [ServerNext]_serverVars
      => (StoredMatchesRow /\ NumberStillFree)'
  BY ArchiveStep
<1> QED
  BY <1>1, <1>2, ServiceInductive, PTL DEF ServerSpec
=============================================================================
