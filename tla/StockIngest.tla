----------------------------- MODULE StockIngest ------------------------------
(***************************************************************************)
(* The Syspro stock ingest (syspro/ingest.py, syspro/client.py): the       *)
(* catalogue of an ERP that other people change all the time is streamed   *)
(* into `syspro_stock`, one batch and one commit at a time.                *)
(*                                                                         *)
(* A full load reads everything and removes what did not come.  An         *)
(* incremental load reads the rows whose version is above the watermark    *)
(* and cannot see a deletion: "incremental for freshness, full for truth". *)
(* A row is known here by its version; `readable` says whether its         *)
(* quantity survives the cast.  Versions become visible in their order: a  *)
(* row whose version Syspro has given out and not committed when the mark  *)
(* is read is not modelled.                                                *)
(***************************************************************************)
EXTENDS Integers, FiniteSets

CONSTANTS
  Items,        \* rows of InvWarehouse: a stock code in a warehouse
  Warehouses,   \* what `verified` is chosen from
  Home,         \* Items -> the warehouse of the row
  MaxVersion, MaxLoads

ASSUME StockBounds ==
  /\ IsFiniteSet(Items) /\ Home \in [Items -> Warehouses]
  /\ MaxVersion \in Nat \ {0} /\ MaxLoads \in Nat

VARIABLES
  syspro,    \* InvWarehouse, and the last row version given out
  stock,     \* syspro_stock: the version a row holds, the load that stamped it
  water,     \* syspro_watermark.high_water
  verified,  \* the verified warehouses of technician_warehouses
  load,      \* the load in the backend's process
  loads,     \* syspro_loads: per load the state its record is in
  covered    \* history: the warehouses every load since the last full one read

stockVars == <<syspro, stock, water, verified, load, loads, covered>>

Absent  == 0
NoWater == 0

StockRow == [version : 0 .. MaxVersion, readable : BOOLEAN]   \* version Absent: no row

-----------------------------------------------------------------------------
(* Syspro and the people who confirm vans.                                 *)

InSyspro(i) == syspro.row[i].version # Absent

Change(i, readable) ==
  /\ syspro.last < MaxVersion
  /\ syspro' = [last |-> syspro.last + 1,
                row |-> [syspro.row EXCEPT
                           ![i] = [version |-> syspro.last + 1, readable |-> readable]]]
  /\ UNCHANGED <<stock, water, verified, load, loads, covered>>

(* A deleted row takes its version with it.                                *)
Delete(i) ==
  /\ InSyspro(i)
  /\ syspro' = [syspro EXCEPT !.row[i] = [version |-> Absent, readable |-> FALSE]]
  /\ UNCHANGED <<stock, water, verified, load, loads, covered>>

Verify(w) ==
  /\ verified' = (verified \ {w}) \cup ({w} \ verified)
  /\ UNCHANGED <<syspro, stock, water, load, loads, covered>>

-----------------------------------------------------------------------------
(* load_stock.                                                             *)

NoLoad == [at |-> "none", id |-> 0, full |-> FALSE, wanted |-> {}, mark |-> NoWater,
           since |-> NoWater, todo |-> {}, delivered |-> {}]

(* One at a time in the process (run_load); whatever record still says     *)
(* "running" was left by a process that died.                              *)
BeginLoad(full) ==
  LET id == Cardinality(DOMAIN loads) + 1 IN
  /\ load.at = "none" /\ id <= MaxLoads
  /\ loads' = [k \in 1 .. id |-> IF k = id THEN "running"
                                 ELSE IF loads[k] = "running" THEN "abandoned"
                                 ELSE loads[k]]
  /\ load' = [NoLoad EXCEPT !.at = "begun", !.id = id, !.full = full]
  /\ UNCHANGED <<syspro, stock, water, verified, covered>>

(* No warehouse: the refusal is raised before the block that would record  *)
(* it, so the load's record goes on saying "running".                      *)
NothingWanted ==
  /\ load.at = "begun" /\ verified = {}
  /\ load' = NoLoad
  /\ UNCHANGED <<syspro, stock, water, verified, loads, covered>>

Versions == {syspro.row[i].version : i \in Items}
HighWater(v) == v \in Versions /\ \A u \in Versions : u <= v

(* The mark is read before the rows; a failure to read it costs only the   *)
(* mark.  With no watermark to go on from the load is a full one.          *)
ReadMark(mark) ==
  /\ load.at = "begun" /\ verified # {}
  /\ HighWater(mark) \/ mark = NoWater
  /\ load' = [load EXCEPT !.at = "streaming", !.wanted = verified, !.mark = mark,
                          !.since = IF load.full THEN NoWater ELSE water,
                          !.full = load.full \/ water = NoWater,
                          !.todo = Items]
  /\ UNCHANGED <<syspro, stock, water, verified, loads, covered>>

(* The rows of a batch that are kept: asked for, of a wanted van, with a   *)
(* quantity that is a number.                                              *)
Asked(i)  == InSyspro(i) /\ syspro.row[i].version > load.since
Kept(S)   == {i \in S : Asked(i) /\ Home[i] \in load.wanted /\ syspro.row[i].readable}

(* _upsert_many: an incremental load does not touch an equal row, a full   *)
(* one stamps every row it saw.                                            *)
Written(i) == IF ~load.full /\ stock[i].version = syspro.row[i].version THEN stock[i]
              ELSE [version |-> syspro.row[i].version, seen |-> load.id]

(* A batch is streamed, filtered, written and committed.  Between fetching *)
(* and committing nobody else writes `syspro_stock`, so one step.          *)
Batch(S) ==
  /\ load.at = "streaming" /\ S # {} /\ S \subseteq load.todo
  /\ stock' = [i \in Items |-> IF i \in Kept(S) THEN Written(i) ELSE stock[i]]
  /\ load' = [load EXCEPT !.todo = @ \ S, !.delivered = @ \cup Kept(S)]
  /\ UNCHANGED <<syspro, water, verified, loads, covered>>

(* The stream is at its end: in one transaction the watermark moves, and a *)
(* full load removes the rows of the vans it covered that it did not stamp.*)
(* The parts register is derived from the table with it and not modelled.  *)
Unstamped(i) == stock[i].seen < load.id   \* bug: whatever van was covered
Unseen(i) == Home[i] \in load.wanted /\ stock[i].seen < load.id

MaximumAfterwards == CHOOSE v \in Versions : HighWater(v)   \* bug: read after the rows
NewWater == IF load.mark = NoWater THEN water ELSE load.mark

FinishLoad ==
  /\ load.at = "streaming" /\ load.todo = {}
  /\ water' = NewWater
  /\ stock' = [i \in Items |-> IF load.full /\ Unseen(i)
                               THEN [version |-> Absent, seen |-> 0] ELSE stock[i]]
  /\ covered' = IF load.full THEN load.wanted ELSE covered \cap load.wanted
  /\ load' = [load EXCEPT !.at = "complete"]
  /\ UNCHANGED <<syspro, verified, loads>>

(* The record of the load is closed in a transaction of its own.           *)
Close(state) ==
  /\ \/ load.at = "complete" /\ state = "succeeded"
     \/ load.at \in {"streaming", "complete"} /\ state = "failed"   \* an exception
  /\ loads' = [loads EXCEPT ![load.id] = state]
  /\ load' = NoLoad
  /\ UNCHANGED <<syspro, stock, water, verified, covered>>

(* The process dies; the record stays as it is.                            *)
Die ==
  /\ load.at # "none"
  /\ load' = NoLoad
  /\ UNCHANGED <<syspro, stock, water, verified, loads, covered>>

-----------------------------------------------------------------------------
StockInit ==
  /\ syspro = [last |-> 1, row |-> [i \in Items |-> [version |-> 1, readable |-> TRUE]]]
  /\ stock = [i \in Items |-> [version |-> Absent, seen |-> 0]]
  /\ water = NoWater
  /\ verified = {} /\ covered = {}
  /\ load = NoLoad
  /\ loads = <<>>

StockNext ==
  \/ \E i \in Items : (\E r \in BOOLEAN : Change(i, r)) \/ Delete(i)
  \/ \E w \in Warehouses : Verify(w)
  \/ \E full \in BOOLEAN : BeginLoad(full)
  \/ \E mark \in 0 .. MaxVersion : ReadMark(mark)
  \/ \E S \in SUBSET load.todo : Batch(S)
  \/ \E state \in {"succeeded", "failed"} : Close(state)
  \/ NothingWanted \/ FinishLoad \/ Die

StockSpec == StockInit /\ [][StockNext]_stockVars

-----------------------------------------------------------------------------
(* Types.                                                                  *)
StockTypeOK ==
  /\ syspro \in [last : 0 .. MaxVersion, row : [Items -> StockRow]]
  /\ stock \in [Items -> [version : 0 .. MaxVersion, seen : 0 .. MaxLoads]]
  /\ water \in 0 .. MaxVersion
  /\ verified \subseteq Warehouses /\ covered \subseteq Warehouses
  /\ load \in [at : {"none", "begun", "streaming", "complete"}, id : 0 .. MaxLoads,
               full : BOOLEAN, wanted : SUBSET Warehouses, mark : 0 .. MaxVersion,
               since : 0 .. MaxVersion, todo : SUBSET Items, delivered : SUBSET Items]

(* "Read the high-water mark BEFORE the rows ... Taking the maximum        *)
(* afterwards would step over exactly those rows": whatever Syspro held    *)
(* up to the watermark is stored, for the vans no load has passed over;    *)
(* the next incremental load may go on from there.                         *)
WatermarkCovers ==
  water # NoWater =>
    \A i \in Items :
      \/ ~InSyspro(i) \/ syspro.row[i].version > water
      \/ ~syspro.row[i].readable
      \/ Home[i] \notin covered
      \/ stock[i].version = syspro.row[i].version

(* "Pruning a partial one deletes stock that had simply not arrived yet":  *)
(* a row disappears only when a load read all of Syspro for its van and    *)
(* Syspro did not have it, or not as a number.                             *)
PruneTakesOnlyTheGone ==
  [][\A i \in Items :
       stock[i].version # Absent /\ stock'[i].version = Absent
         => /\ load.full /\ load.todo = {}
            /\ Home[i] \in load.wanted /\ i \notin load.delivered]_stockVars
=============================================================================
