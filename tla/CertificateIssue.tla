-------------------------- MODULE CertificateIssue --------------------------
(***************************************************************************)
(* What the signing service promises its clients, whatever they send and   *)
(* however often they send it: a certificate is issued once.               *)
(*                                                                         *)
(* README.md of the repository: "Retries are idempotent: a certificate is  *)
(* issued exactly once."  SignService implements this specification.       *)
(***************************************************************************)
CONSTANTS Keys,     \* idempotency keys clients draw
          Numbers,  \* certificate numbers
          ParentOf  \* Numbers -> the verification a rejection rejects, or 0

VARIABLE issued     \* set of [key, num]: the certificates that exist

Certificate == [key : Keys, num : Numbers]

Init == issued = {}

(***************************************************************************)
(* A certificate comes into being for a key and a number neither of which  *)
(* has one, a rejection after the verification it rejects.  Nothing else   *)
(* ever happens: no certificate is withdrawn, renumbered, or moved to      *)
(* another key.                                                            *)
(***************************************************************************)
Issue(k, n) ==
  /\ \A c \in issued : c.key # k /\ c.num # n
  /\ ParentOf[n] # 0 => \E c \in issued : c.num = ParentOf[n]
  /\ issued' = issued \cup {[key |-> k, num |-> n]}

Next == \E k \in Keys, n \in Numbers : Issue(k, n)

Spec == Init /\ [][Next]_issued
=============================================================================
