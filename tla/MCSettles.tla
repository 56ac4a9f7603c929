------------------------------- MODULE MCSettles ------------------------------
(***************************************************************************)
(* What a phone still has to deliver, on three sides: certificates to sign *)
(* (MCSignPipeline, attempts that do not overlap), the writes of two work  *)
(* orders (WriteOutbox) and those of the site register (SiteRegister).     *)
(* The three are delivered by drains of their own and share no state here: *)
(* a behaviour is of one side, and the others rest; so the fairness of a   *)
(* side is an antecedent of what it makes happen.                          *)
(***************************************************************************)
EXTENDS SiteRegister, MCSignPipeline, WriteOutbox

CONSTANTS break, j1, j2, screen1

ASSUME ActsAssumption == Acts \subseteq KnownActs

VARIABLE side

SettlesInit ==
  /\ side \in {"sign", "job", "site"} /\ Init /\ OutboxInit /\ RegisterInit
  /\ side # "site" => signal
SettlesNext ==
  /\ UNCHANGED side
  /\ \/ side = "sign" /\ Next         /\ UNCHANGED <<outboxVars, registerVars>>
     \/ side = "job"  /\ OutboxNext   /\ UNCHANGED <<vars, registerVars>>
     \/ side = "site" /\ RegisterNext /\ UNCHANGED <<vars, outboxVars>>
SettlesSpec == SettlesInit /\ [][SettlesNext]_<<side, vars, outboxVars, registerVars>>

(* With a drain that keeps coming back, every write of a job is delivered  *)
(* or held up by a refusal of that job.                                    *)
FairWritesAnswered == OutboxFairness => EveryWriteAnswered

(* With a drain that keeps coming back, what is queued is issued and       *)
(* confirmed.                                                              *)
FairQueuedGetsSynced == Fairness => QueuedGetsSynced

(* With a sync that keeps coming back, the register's writes are delivered *)
(* and the mirror ends up as the service.                                  *)
FairRegisterSettles == RegisterFairness => RegisterSettles
===============================================================================
