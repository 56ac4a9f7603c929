----------------------------- MODULE SignService -----------------------------
(***************************************************************************)
(* The backend's certificate endpoints (backend/app/routers/certificates.py*)
(* with pdf_store.py, audit.py and the unique constraints of models.py):   *)
(* reserve-number, sign (verification and rejection certificates), the     *)
(* archived PDF and the receipt.                                           *)
(*                                                                         *)
(* Handlers of several requests run at once.  Each has a database session  *)
(* of its own (READ COMMITTED, autoflush off), so what it read about other *)
(* requests may be stale when it commits; the PDF store is not in the      *)
(* transaction at all.  One action is one point where another handler, a   *)
(* crash or a failing dependency can come in between.                      *)
(***************************************************************************)
EXTENDS Naturals

CONSTANTS Reqs,         \* handler slots: the requests that can be in progress together
          Keys,         \* idempotency keys
          Numbers,      \* certificate numbers
          Versions,     \* contents a form can have
          ParentOf,     \* number of a rejection certificate -> number of its verification, else 0
          MaxSignings,  \* bound: PAdES signatures ever made
          MaxNumber     \* bound: numbers ever reserved

ASSUME VersionsAssumption == Versions # {}
ASSUME KeysAssumption     == Keys \subseteq Nat \ {0}
ASSUME NumbersAssumption  == Numbers \subseteq Nat \ {0}
ASSUME ParentAssumption   == ParentOf \in [Numbers -> Numbers \cup {0}]
ASSUME SigningsAssumption == MaxSignings \in Nat
ASSUME MaxNumberAssumption == MaxNumber \in Nat

\* The verification (or rejection) payload: its certificate number (0: none yet) and its content.
Form == [num : Numbers \cup {0}, ver : Versions]

\* Why the service turns a submission down after the uniqueness checks.
LateRefusals  == {"subject", "device", "readiness", "hash", "crosscheck"}
\* The refusals that leave a certificate.sign_rejected event behind.
AuditedRefusals == {"device", "readiness", "crosscheck"}

VARIABLES
  rows,       \* certificates: committed rows [key, num, ver, sig]; sig is the signed PDF's SHA-256
  object,     \* the bucket: number -> sig of the stored signed PDF, 0 when there is no object
  handler,    \* Reqs -> the request a slot serves
  nextSig,    \* the next signature; every PAdES signature differs from all earlier ones
  nextNumber, \* sequence_counters.next_value of the branch
  audit       \* audit_events: set of [kind, num, sig]

serverVars == <<rows, object, handler, nextSig, nextNumber, audit>>

CertificateRow == [key : Keys, num : Numbers, ver : Versions, sig : Nat \ {0}]

Kinds == {"sign_requested", "issued", "sign_rejected", "sync_confirmed", "pdf_fetched"}

(***************************************************************************)
(* A handler: where it stands, its submission, the signature it made or    *)
(* the one of the row it found (sig), and, once done, the status and the   *)
(* PDF of its response.                                                    *)
(***************************************************************************)
Phases   == {"idle", "received", "keyFree", "cleared", "stored", "respond", "done"}
Statuses == {"none", "issued", "conflict", "refused", "error"}

Handler == [pc : Phases, key : Keys \cup {0}, num : Numbers \cup {0}, ver : Versions,
            sig : Nat, status : Statuses, pdf : Nat]

NoRequest == [pc |-> "idle", key |-> 0, num |-> 0, ver |-> CHOOSE v \in Versions : TRUE,
         sig |-> 0, status |-> "none", pdf |-> 0]

ServiceTypeOK ==
  /\ rows \subseteq CertificateRow
  /\ object \in [Numbers -> Nat]
  /\ handler \in [Reqs -> Handler]
  /\ nextSig \in Nat \ {0}
  /\ nextNumber \in Nat \ {0}
  /\ audit \subseteq [kind : Kinds, num : Numbers, sig : Nat]

ServerInit ==
  /\ rows = {}
  /\ object = [n \in Numbers |-> 0]
  /\ handler = [r \in Reqs |-> NoRequest]
  /\ nextSig = 1
  /\ nextNumber = 1
  /\ audit = {}

Event(kind, n, s) == [kind |-> kind, num |-> n, sig |-> s]

\* The handler answers with an error and its transaction is rolled back.
Fail(r, status) ==
  handler' = [handler EXCEPT ![r].pc = "done", ![r].status = status]

-----------------------------------------------------------------------------
(* POST /v1/certificates/reserve-number: the counter row is locked for the *)
(* whole transaction, so an allocation is one step.                        *)
ReserveNumber(n) ==
  /\ n = nextNumber
  /\ nextNumber <= MaxNumber
  /\ nextNumber' = nextNumber + 1
  /\ UNCHANGED <<rows, object, handler, nextSig, audit>>

(* POST /v1/certificates/sign arrives.  A verification certificate carries *)
(* a reserved number, a rejection certificate the one made from its parent.*)
Submit(r, k, n, v) ==
  /\ handler[r].pc = "idle"
  /\ ParentOf[n] = 0 => n < nextNumber
  /\ handler' = [handler EXCEPT ![r] = [NoRequest EXCEPT !.pc = "received", !.key = k,
                                                    !.num = n, !.ver = v]]
  /\ UNCHANGED <<rows, object, nextSig, nextNumber, audit>>

\* 1, 1b: the payload fails the schema or its test plan; nothing is recorded.
RefuseEarly(r) ==
  /\ handler[r].pc = "received"
  /\ Fail(r, "refused")
  /\ UNCHANGED <<rows, object, nextSig, nextNumber, audit>>

\* Bug: the replay looks the certificate up by number.
KeyRowsByNumber(r) == {row \in rows : row.num = handler[r].num}

\* 2: a committed row with this key is replayed, otherwise the handler goes on.
KeyRows(r) == {row \in rows : row.key = handler[r].key}

CheckKey(r) ==
  /\ handler[r].pc = "received"
  /\ \/ \E row \in KeyRows(r) :
          handler' = [handler EXCEPT ![r].pc = "respond", ![r].num = row.num, ![r].sig = row.sig]
     \/ /\ KeyRows(r) = {}
        /\ handler' = [handler EXCEPT ![r].pc = "keyFree"]
  /\ UNCHANGED <<rows, object, nextSig, nextNumber, audit>>

\* 3: the number must be free too, and a rejection's parent must have been issued.
IsIssued(n) == \E row \in rows : row.num = n

CheckNumber(r) ==
  LET n == handler[r].num IN
  /\ handler[r].pc = "keyFree"
  /\ \/ /\ IsIssued(n)
        /\ Fail(r, "conflict")
     \/ /\ ~IsIssued(n)
        /\ ParentOf[n] # 0
        /\ ~IsIssued(ParentOf[n])
        /\ Fail(r, "refused")
     \/ /\ ~IsIssued(n)
        /\ ParentOf[n] # 0 => IsIssued(ParentOf[n])
        /\ handler' = [handler EXCEPT ![r].pc = "cleared"]
  /\ UNCHANGED <<rows, object, nextSig, nextNumber, audit>>

\* 4 to 7: subject, device binding, readiness, hash and text-layer checks.
Refuse(r, why) ==
  /\ handler[r].pc = "cleared"
  /\ Fail(r, "refused")
  /\ audit' = IF why \in AuditedRefusals
              THEN audit \cup {Event("sign_rejected", handler[r].num, 0)}
              ELSE audit
  /\ UNCHANGED <<rows, object, nextSig, nextNumber>>

\* Bug: an object that is already there is taken for this one.
SignKeepOrphan(r) ==
  LET n == handler[r].num IN
  /\ handler[r].pc = "cleared"
  /\ nextSig <= MaxSignings
  /\ object' = IF object[n] = 0 THEN [object EXCEPT ![n] = nextSig] ELSE object
  /\ handler' = [handler EXCEPT ![r].pc = "stored", ![r].sig = nextSig]
  /\ nextSig' = nextSig + 1
  /\ UNCHANGED <<rows, nextNumber, audit>>

(* 8: sign, and put the signed PDF in the bucket before the row exists.    *)
(* put() first tries x-upsert:false and, told 409, overwrites the object:  *)
(* whatever was there, it is replaced.                                     *)
SignAndStore(r) ==
  /\ handler[r].pc = "cleared"
  /\ nextSig <= MaxSignings
  /\ object' = [object EXCEPT ![handler[r].num] = nextSig]
  /\ handler' = [handler EXCEPT ![r].pc = "stored", ![r].sig = nextSig]
  /\ nextSig' = nextSig + 1
  /\ UNCHANGED <<rows, nextNumber, audit>>

\* Bug: the exception of put() is swallowed and the row is committed all the same.
StoreFailsIgnored(r) ==
  /\ handler[r].pc = "cleared"
  /\ nextSig <= MaxSignings
  /\ nextSig' = nextSig + 1
  /\ handler' = [handler EXCEPT ![r].pc = "stored", ![r].sig = nextSig]
  /\ UNCHANGED <<rows, object, nextNumber, audit>>

\* put() raises: the object may or may not have been written; no row is.
StoreFails(r) ==
  /\ handler[r].pc = "cleared"
  /\ nextSig <= MaxSignings
  /\ object' \in {object, [object EXCEPT ![handler[r].num] = nextSig]}
  /\ nextSig' = nextSig + 1
  /\ Fail(r, "error")
  /\ UNCHANGED <<rows, nextNumber, audit>>

\* Bug: no unique constraints.
CommitUnconstrained(r) ==
  LET h == handler[r] IN
  /\ h.pc = "stored"
  /\ rows' = rows \cup {[key |-> h.key, num |-> h.num, ver |-> h.ver, sig |-> h.sig]}
  /\ handler' = [handler EXCEPT ![r].pc = "respond"]
  /\ UNCHANGED <<object, nextSig, nextNumber, audit>>

(* flush + commit.  The unique constraints on idempotency_key and          *)
(* certificate_number turn the loser of a race into a 500; the row and its *)
(* audit events become visible together.                                   *)
Commit(r) ==
  LET h == handler[r] IN
  /\ h.pc = "stored"
  /\ \/ /\ \A row \in rows : row.key # h.key /\ row.num # h.num
        /\ rows' = rows \cup {[key |-> h.key, num |-> h.num, ver |-> h.ver, sig |-> h.sig]}
        /\ audit' = audit \cup {Event("sign_requested", h.num, h.sig), Event("issued", h.num, h.sig)}
        /\ handler' = [handler EXCEPT ![r].pc = "respond"]
     \/ /\ \E row \in rows : row.key = h.key \/ row.num = h.num
        /\ Fail(r, "error")
        /\ UNCHANGED <<rows, audit>>
  /\ UNCHANGED <<object, nextSig, nextNumber>>

\* _response_for: the row's hash, with the bytes the bucket holds at this moment.
Respond(r) ==
  LET h == handler[r] IN
  /\ h.pc = "respond"
  /\ object[h.num] # 0
  /\ handler' = [handler EXCEPT ![r].pc = "done", ![r].status = "issued", ![r].pdf = object[h.num]]
  /\ UNCHANGED <<rows, object, nextSig, nextNumber, audit>>

\* The bucket cannot be read: the certificate is issued, the answer is a 500.
RespondFails(r) ==
  /\ handler[r].pc = "respond"
  /\ Fail(r, "error")
  /\ UNCHANGED <<rows, object, nextSig, nextNumber, audit>>

\* The process serving r dies; its transaction is rolled back.
HandlerCrash(r) ==
  /\ handler[r].pc \notin {"idle", "done"}
  /\ Fail(r, "error")
  /\ UNCHANGED <<rows, object, nextSig, nextNumber, audit>>

\* The answer of r has left (or its client is gone): the slot is free.
Hangup(r) ==
  /\ handler[r].pc = "done"
  /\ handler' = [handler EXCEPT ![r] = NoRequest]
  /\ UNCHANGED <<rows, object, nextSig, nextNumber, audit>>

\* GET /{number}/pdf and GET /{number}/receipt, for a certificate that exists.
FetchPdf(n) ==
  /\ IsIssued(n)
  /\ object[n] # 0
  /\ audit' = audit \cup {Event("pdf_fetched", n, 0)}
  /\ UNCHANGED <<rows, object, handler, nextSig, nextNumber>>

Receipt(n) ==
  /\ IsIssued(n)
  /\ audit' = audit \cup {Event("sync_confirmed", n, 0)}
  /\ UNCHANGED <<rows, object, handler, nextSig, nextNumber>>

-----------------------------------------------------------------------------
Progress(r) ==
  \/ CheckKey(r)
  \/ CheckNumber(r)
  \/ SignAndStore(r)
  \/ Commit(r)
  \/ Respond(r)

Trouble(r) ==
  \/ RefuseEarly(r)
  \/ \E why \in LateRefusals : Refuse(r, why)
  \/ StoreFails(r)
  \/ RespondFails(r)
  \/ HandlerCrash(r)

\* On its own the service meets any client: any key with any reserved number and content.
ServerNext ==
  \/ \E n \in Numbers : ReserveNumber(n) \/ FetchPdf(n) \/ Receipt(n)
  \/ \E r \in Reqs : Progress(r) \/ Trouble(r) \/ Hangup(r)
  \/ \E r \in Reqs, k \in Keys, n \in Numbers, v \in Versions : Submit(r, k, n, v)

ServerSpec == ServerInit /\ [][ServerNext]_serverVars

-----------------------------------------------------------------------------
(* No two certificates share an idempotency key or a number, whatever the  *)
(* handlers had read when they started ("retries never double-issue").     *)
UniqueIssue ==
  \A a, b \in rows : a.key = b.key \/ a.num = b.num => a = b

(* An issued certificate can always be fetched: the store is written before*)
(* the row is committed and nothing ever removes the object.               *)
IssuedRetrievable == \A row \in rows : object[row.num] # 0

(* A 200 answers with the certificate of the key that was sent: its number,*)
(* and the hash recorded in its row, also on a replay that raced a commit. *)
AnswersOwnCertificate ==
  \A r \in Reqs : handler[r].status = "issued" =>
    \E row \in rows : /\ row.key = handler[r].key
                      /\ row.num = handler[r].num
                      /\ row.sig = handler[r].sig

(* A rejection certificate exists only for a verification certificate that *)
(* was issued before it.                                                   *)
RejectionHasParent ==
  \A row \in rows : ParentOf[row.num] # 0 => IsIssued(ParentOf[row.num])

(* The archive is write-once: the stored PDF is the one whose hash the row *)
(* records.  Holds when no two sign requests overlap.                      *)
StoredMatchesRow == \A row \in rows : object[row.num] = row.sig

(* Once a certificate is committed, put() is never called again for it     *)
(* (pdf_store.py, the comment on the 409 branch).                          *)
IssuedPdfImmutable ==
  [][\A n \in Numbers : IsIssued(n) => object'[n] = object[n]]_serverVars

(* The service implements the abstract promise of CertificateIssue.        *)
Abstract == INSTANCE CertificateIssue
              WITH issued <- {[key |-> row.key, num |-> row.num] : row \in rows}

IssuedOnce == Abstract!Spec
=============================================================================
