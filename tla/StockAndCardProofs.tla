--------------------------- MODULE StockAndCardProofs ---------------------------
(***************************************************************************)
(* The ingest of the stock a technician books from (StockIngest), and the  *)
(* screens that book it on a job card (JobCardScreens).                    *)
(*                                                                         *)
(* The watermark covers what it claims and a prune takes only what is      *)
(* gone, for any number of rows, vans, versions and loads.                 *)
(* Both are about a load in progress.  Reach is the version up to which    *)
(* the load answers for the rows it has read: the mark it took before them,*)
(* or the old watermark when it could not take one.  Rows read are stored  *)
(* up to Reach (ReadIsStored), because a row that changes under the load   *)
(* gets a version above it (MarksAreOld); and a full load has stamped what *)
(* it delivered (DeliveredIsStamped).                                      *)
(*                                                                         *)
(* A technician who waits for each answer loses no entry, for any number   *)
(* of parts and entries.  While he waits (Patient) one request besides the *)
(* question for work tasks is under way, so an answer to a read is what    *)
(* the server still has (ReadsFit); and each editor, before it may write   *)
(* the whole card, holds the other's part as it was entered last           *)
(* (PageCurrent, SparesCurrent), although neither the cached bundle nor    *)
(* the page underneath does.                                               *)
(***************************************************************************)
EXTENDS StockIngest, JobCardScreens, FiniteSetTheorems, TLAPS

(***************************************************************************)
(* The ingest.                                                             *)
(***************************************************************************)
LoadRecord == [at : {"none", "begun", "streaming", "complete"}, id : 0 .. MaxLoads,
               full : BOOLEAN, wanted : SUBSET Warehouses, mark : 0 .. MaxVersion,
               since : 0 .. MaxVersion, todo : SUBSET Items, delivered : SUBSET Items]

LoadsNumbered == \E n \in 0 .. MaxLoads : DOMAIN loads = 1 .. n

Reach == IF load.mark = NoWater THEN water ELSE load.mark

MarksAreOld ==
  /\ syspro.last \in 0 .. MaxVersion
  /\ \A i \in Items : syspro.row[i].version <= syspro.last
  /\ water <= syspro.last
  /\ load.mark <= syspro.last

Since ==
  load.at = "streaming" =>
    /\ load.full => load.since = NoWater
    /\ ~load.full => load.since = water /\ water # NoWater

ReadIsStored ==
  load.at = "streaming" =>
    \A i \in Items \ load.todo :
      /\ InSyspro(i) /\ syspro.row[i].version <= Reach /\ syspro.row[i].version > load.since
      /\ syspro.row[i].readable /\ Home[i] \in load.wanted
      => /\ stock[i].version = syspro.row[i].version
         /\ load.full => stock[i].seen = load.id

DeliveredIsStamped ==
  /\ load.at = "begun" => load.delivered = {}
  /\ load.at = "streaming" /\ load.full => \A i \in load.delivered : stock[i].seen = load.id

IInv == /\ StockTypeOK /\ LoadsNumbered /\ MarksAreOld /\ Since /\ ReadIsStored
        /\ DeliveredIsStamped /\ WatermarkCovers

LEMMA IdleLoad == NoLoad \in LoadRecord /\ NoLoad.at = "none" /\ NoLoad.mark = NoWater
BY StockBounds DEF NoLoad, LoadRecord, NoWater

LEMMA TypeFacts ==
  ASSUME IInv
  PROVE  /\ syspro \in [last : 0 .. MaxVersion, row : [Items -> StockRow]]
         /\ stock \in [Items -> [version : 0 .. MaxVersion, seen : 0 .. MaxLoads]]
         /\ water \in 0 .. MaxVersion /\ verified \subseteq Warehouses /\ covered \subseteq Warehouses
         /\ load \in LoadRecord
BY DEF IInv, StockTypeOK, LoadRecord

-----------------------------------------------------------------------------
(* What the parts of IInv that look at a load say when none is streaming.  *)
Quiet(l) == l.at # "streaming" /\ (l.at = "begun" => l.delivered = {})

LEMMA QuietLoad ==
  ASSUME Quiet(load')
  PROVE  Since' /\ ReadIsStored' /\ DeliveredIsStamped'
BY DEF Quiet, Since, ReadIsStored, DeliveredIsStamped

LEMMA InitIInv == StockInit => IInv
<1> SUFFICES ASSUME StockInit PROVE IInv
  OBVIOUS
<1>1. StockTypeOK /\ MarksAreOld
  BY IdleLoad, StockBounds DEF StockInit, StockTypeOK, LoadRecord, StockRow, MarksAreOld, Absent,
                               NoWater
<1>2. LoadsNumbered
  <2>1. DOMAIN loads = 1 .. 0 /\ 0 \in 0 .. MaxLoads
    BY StockBounds DEF StockInit
  <2> QED
    BY <2>1 DEF LoadsNumbered
<1>3. Since /\ ReadIsStored /\ DeliveredIsStamped /\ WatermarkCovers
  BY IdleLoad DEF StockInit, Since, ReadIsStored, DeliveredIsStamped, WatermarkCovers
<1> QED
  BY <1>1, <1>2, <1>3 DEF IInv

-----------------------------------------------------------------------------
(* Syspro moves on: the row that changes is not one the load or the        *)
(* watermark answers for any more.                                         *)
LEMMA SysproKeeps ==
  ASSUME IInv, NEW i \in Items, NEW new \in StockRow, NEW last \in 0 .. MaxVersion,
         syspro' = [last |-> last, row |-> [syspro.row EXCEPT ![i] = new]],
         syspro.last <= last, new.version <= last,
         new.version = Absent \/ new.version > syspro.last,
         UNCHANGED <<stock, water, verified, load, loads, covered>>
  PROVE  IInv'
<1>1. /\ syspro'.last = last /\ syspro'.row \in [Items -> StockRow]
      /\ syspro'.row[i] = new /\ \A j \in Items \ {i} : syspro'.row[j] = syspro.row[j]
  BY TypeFacts
<1>2. StockTypeOK' /\ LoadsNumbered'
  BY <1>1 DEF IInv, StockTypeOK, LoadsNumbered
<1>3. MarksAreOld'
  BY <1>1, TypeFacts DEF IInv, MarksAreOld, StockRow, LoadRecord
<1>4. Reach <= syspro.last /\ Reach' = Reach /\ water <= syspro.last /\ Reach \in Nat
  BY TypeFacts DEF IInv, MarksAreOld, Reach, LoadRecord
<1>5. ReadIsStored'
  <2> SUFFICES ASSUME load.at = "streaming", NEW j \in Items \ load.todo, InSyspro(j)',
                      syspro'.row[j].version <= Reach, syspro'.row[j].version > load.since,
                      syspro'.row[j].readable, Home[j] \in load.wanted
               PROVE  /\ stock[j].version = syspro'.row[j].version
                      /\ load.full => stock[j].seen = load.id
    BY <1>4 DEF ReadIsStored
  <2>1. j # i
    BY <1>1, <1>4, TypeFacts DEF InSyspro, StockRow, IInv, MarksAreOld
  <2> QED
    BY <1>1, <2>1 DEF IInv, ReadIsStored, InSyspro
<1>6. WatermarkCovers'
  <2> SUFFICES ASSUME water # NoWater, NEW j \in Items, InSyspro(j)',
                      ~(syspro'.row[j].version > water), syspro'.row[j].readable,
                      Home[j] \in covered
               PROVE  stock[j].version = syspro'.row[j].version
    BY DEF WatermarkCovers, InSyspro
  <2>1. j # i
    BY <1>1, <1>4, TypeFacts DEF InSyspro, StockRow, IInv, MarksAreOld
  <2> QED
    BY <1>1, <2>1 DEF IInv, WatermarkCovers, InSyspro
<1>7. Since' /\ DeliveredIsStamped'
  BY DEF IInv, Since, DeliveredIsStamped
<1> QED
  BY <1>2, <1>3, <1>5, <1>6, <1>7 DEF IInv

LEMMA ChangeKeeps ==
  ASSUME IInv, NEW i \in Items, NEW readable \in BOOLEAN, Change(i, readable)
  PROVE  IInv'
<1>1. syspro.last \in 0 .. MaxVersion /\ syspro.last + 1 \in 0 .. MaxVersion
  BY TypeFacts, StockBounds DEF Change
<1>2. [version |-> syspro.last + 1, readable |-> readable] \in StockRow
  BY <1>1 DEF StockRow
<1> QED
  BY <1>1, <1>2, SysproKeeps DEF Change

LEMMA DeleteKeeps ==
  ASSUME IInv, NEW i \in Items, Delete(i)
  PROVE  IInv'
<1>1. [version |-> Absent, readable |-> FALSE] \in StockRow /\ Absent <= syspro.last
  BY TypeFacts, StockBounds DEF StockRow, Absent
<1>2. syspro' = [last |-> syspro.last,
                 row |-> [syspro.row EXCEPT ![i] = [version |-> Absent, readable |-> FALSE]]]
  BY TypeFacts DEF Delete
<1>3. /\ syspro.last \in 0 .. MaxVersion /\ syspro.last <= syspro.last
      /\ [version |-> Absent, readable |-> FALSE].version = Absent
      /\ UNCHANGED <<stock, water, verified, load, loads, covered>>
  BY TypeFacts DEF Delete
<1> QED
  BY <1>1, <1>2, <1>3, SysproKeeps

LEMMA VerifyKeeps ==
  ASSUME IInv, NEW w \in Warehouses, Verify(w)
  PROVE  IInv'
<1>1. verified' \subseteq Warehouses
  BY TypeFacts DEF Verify
<1>2. UNCHANGED <<syspro, stock, water, load, loads, covered>>
  BY DEF Verify
<1>3. StockTypeOK'
  BY <1>1, <1>2 DEF IInv, StockTypeOK
<1>4. UNCHANGED Reach
  BY <1>2 DEF Reach
<1> QED
  BY <1>2, <1>3, <1>4 DEF IInv, LoadsNumbered, MarksAreOld, Since, ReadIsStored, InSyspro,
                         DeliveredIsStamped, WatermarkCovers

-----------------------------------------------------------------------------
(* Steps at which the load is not streaming afterwards and nothing but the *)
(* load and its records changes.                                           *)
LEMMA QuietKeeps ==
  ASSUME IInv, load' \in LoadRecord, Quiet(load'), load'.mark <= syspro.last, LoadsNumbered',
         UNCHANGED <<syspro, stock, water, verified, covered>>
  PROVE  IInv'
<1>1. StockTypeOK'
  BY DEF IInv, StockTypeOK, LoadRecord
<1>2. MarksAreOld'
  BY DEF IInv, MarksAreOld
<1>3. WatermarkCovers'
  BY DEF IInv, WatermarkCovers, InSyspro
<1> QED
  BY <1>1, <1>2, <1>3, QuietLoad DEF IInv

LEMMA BeginKeeps ==
  ASSUME IInv, NEW full \in BOOLEAN, BeginLoad(full)
  PROVE  IInv'
<1>1. PICK n \in 0 .. MaxLoads : DOMAIN loads = 1 .. n
  BY DEF IInv, LoadsNumbered
<1>2. Cardinality(DOMAIN loads) = n
  BY <1>1, FS_Interval, StockBounds
<1>3. n + 1 \in 0 .. MaxLoads /\ DOMAIN loads' = 1 .. n + 1
  BY <1>2, StockBounds DEF BeginLoad
<1>4. load' = [NoLoad EXCEPT !.at = "begun", !.id = n + 1, !.full = full]
  BY <1>2 DEF BeginLoad
<1>5. load' = [at |-> "begun", id |-> n + 1, full |-> full, wanted |-> {}, mark |-> NoWater,
               since |-> NoWater, todo |-> {}, delivered |-> {}]
  BY <1>4 DEF NoLoad
<1>6. NoWater \in 0 .. MaxVersion /\ full \in BOOLEAN
  BY StockBounds DEF NoWater
<1>7. load' \in LoadRecord /\ load'.at = "begun" /\ load'.delivered = {} /\ load'.mark = NoWater
  BY <1>3, <1>5, <1>6 DEF LoadRecord
<1>8. NoWater <= syspro.last
  BY TypeFacts, StockBounds DEF NoWater
<1> QED
  BY <1>3, <1>7, <1>8, QuietKeeps DEF BeginLoad, Quiet, LoadsNumbered

LEMMA EndKeeps ==
  ASSUME IInv, NothingWanted \/ Die \/ \E state \in {"succeeded", "failed"} : Close(state)
  PROVE  IInv'
<1>1. load' = NoLoad /\ DOMAIN loads' = DOMAIN loads
      /\ UNCHANGED <<syspro, stock, water, verified, covered>>
  BY DEF NothingWanted, Die, Close
<1>2. NoWater <= syspro.last
  BY TypeFacts, StockBounds DEF NoWater
<1>3. LoadsNumbered'
  BY <1>1 DEF IInv, LoadsNumbered
<1> QED
  BY <1>1, <1>2, <1>3, IdleLoad, QuietKeeps DEF Quiet

-----------------------------------------------------------------------------
LEMMA ReadMarkKeeps ==
  ASSUME IInv, NEW mark \in 0 .. MaxVersion, ReadMark(mark)
  PROVE  IInv'
<1>1. /\ load.at = "begun" /\ load.delivered = {} /\ load \in LoadRecord
      /\ UNCHANGED <<syspro, stock, water, verified, loads, covered>>
  BY TypeFacts DEF ReadMark, IInv, DeliveredIsStamped
<1>2. mark <= syspro.last
  <2>1. CASE mark = NoWater
    BY <2>1, TypeFacts, StockBounds DEF NoWater
  <2>2. CASE HighWater(mark)
    BY <2>2 DEF HighWater, Versions, IInv, MarksAreOld
  <2> QED
    BY <2>1, <2>2 DEF ReadMark
<1>3. /\ load'.at = "streaming" /\ load'.mark = mark /\ load'.todo = Items
      /\ load'.full = (load.full \/ water = NoWater)
      /\ load'.since = IF load.full THEN NoWater ELSE water
      /\ load'.delivered = {}
  BY <1>1 DEF ReadMark, LoadRecord
<1>4. load' \in LoadRecord
  <2> DEFINE since == IF load.full THEN NoWater ELSE water
             full  == load.full \/ water = NoWater
  <2>1. since \in 0 .. MaxVersion /\ full \in BOOLEAN /\ verified \in SUBSET Warehouses
    BY <1>1, TypeFacts, StockBounds DEF LoadRecord, NoWater
  <2>2. load' = [load EXCEPT !.at = "streaming", !.wanted = verified, !.mark = mark,
                             !.since = since, !.full = full, !.todo = Items]
    BY DEF ReadMark
  <2> HIDE DEF since, full
  <2> QED
    BY <1>1, <2>1, <2>2 DEF LoadRecord
<1>5. StockTypeOK'
  BY <1>1, <1>4 DEF IInv, StockTypeOK, LoadRecord
<1>6. MarksAreOld'
  BY <1>1, <1>2, <1>3 DEF IInv, MarksAreOld
<1>7. Since' /\ ReadIsStored' /\ DeliveredIsStamped'
  BY <1>1, <1>3, TypeFacts DEF Since, ReadIsStored, DeliveredIsStamped, LoadRecord
<1>8. LoadsNumbered' /\ WatermarkCovers'
  BY <1>1 DEF IInv, LoadsNumbered, WatermarkCovers, InSyspro
<1> QED
  BY <1>5, <1>6, <1>7, <1>8 DEF IInv

(* A row kept by a batch is stored in the version Syspro has; the others   *)
(* are left alone.                                                         *)
LEMMA BatchStores ==
  ASSUME IInv, NEW S, Batch(S), NEW i \in Items
  PROVE  /\ stock'[i] \in [version : 0 .. MaxVersion, seen : 0 .. MaxLoads]
         /\ i \notin Kept(S) => stock'[i] = stock[i]
         /\ i \in Kept(S) => /\ stock'[i].version = syspro.row[i].version
                             /\ load.full => stock'[i].seen = load.id
<1>1. stock[i] \in [version : 0 .. MaxVersion, seen : 0 .. MaxLoads]
      /\ syspro.row[i].version \in 0 .. MaxVersion /\ load.id \in 0 .. MaxLoads
      /\ load.full \in BOOLEAN
  BY TypeFacts DEF StockRow, LoadRecord
<1>2. stock'[i] = IF i \in Kept(S) THEN Written(i) ELSE stock[i]
  BY DEF Batch
<1>3. /\ Written(i) \in [version : 0 .. MaxVersion, seen : 0 .. MaxLoads]
      /\ Written(i).version = syspro.row[i].version
      /\ load.full => Written(i).seen = load.id
  BY <1>1 DEF Written
<1> QED
  BY <1>1, <1>2, <1>3

LEMMA BatchKeeps ==
  ASSUME IInv, NEW S \in SUBSET load.todo, Batch(S)
  PROVE  IInv'
<1>1. /\ load.at = "streaming" /\ load \in LoadRecord
      /\ UNCHANGED <<syspro, water, verified, loads, covered>>
  BY TypeFacts DEF Batch
<1>2. /\ load'.at = "streaming" /\ load'.todo = load.todo \ S
      /\ load'.delivered = load.delivered \cup Kept(S)
      /\ load'.id = load.id /\ load'.full = load.full /\ load'.wanted = load.wanted
      /\ load'.mark = load.mark /\ load'.since = load.since
  BY <1>1 DEF Batch, LoadRecord
<1>3. Kept(S) \subseteq Items /\ S \subseteq Items
  BY <1>1 DEF Kept, LoadRecord
<1>4. load' \in LoadRecord
  BY <1>1, <1>3 DEF Batch, LoadRecord
<1>5. stock' \in [Items -> [version : 0 .. MaxVersion, seen : 0 .. MaxLoads]]
  <2>1. stock' = [i \in Items |-> IF i \in Kept(S) THEN Written(i) ELSE stock[i]]
    BY DEF Batch
  <2>2. \A i \in Items : stock'[i] \in [version : 0 .. MaxVersion, seen : 0 .. MaxLoads]
    BY BatchStores
  <2> QED
    BY <2>1, <2>2
<1>6. StockTypeOK'
  BY <1>1, <1>4, <1>5 DEF IInv, StockTypeOK, LoadRecord
<1>7. MarksAreOld' /\ LoadsNumbered' /\ Since'
  BY <1>1, <1>2 DEF IInv, MarksAreOld, LoadsNumbered, Since
<1>8. ReadIsStored'
  <2> SUFFICES ASSUME NEW i \in Items \ (load.todo \ S), InSyspro(i),
                      syspro.row[i].version <= Reach, syspro.row[i].version > load.since,
                      syspro.row[i].readable, Home[i] \in load.wanted
               PROVE  /\ stock'[i].version = syspro.row[i].version
                      /\ load.full => stock'[i].seen = load.id
    BY <1>1, <1>2 DEF ReadIsStored, InSyspro, Reach
  <2>1. CASE i \in Kept(S)
    BY <2>1, BatchStores
  <2>2. CASE i \notin Kept(S)
    <3>1. i \notin load.todo
      BY <2>2 DEF Kept, Asked
    <3> QED
      BY <1>1, <2>2, <3>1, BatchStores DEF IInv, ReadIsStored
  <2> QED
    BY <2>1, <2>2
<1>9. DeliveredIsStamped'
  <2> SUFFICES ASSUME load.full, NEW i \in load.delivered \cup Kept(S)
               PROVE  stock'[i].seen = load.id
    BY <1>2 DEF DeliveredIsStamped
  <2>1. i \in Items
    BY <1>1, <1>3 DEF LoadRecord
  <2> QED
    BY <1>1, <2>1, BatchStores DEF IInv, DeliveredIsStamped
<1>10. WatermarkCovers'
  <2> SUFFICES ASSUME water # NoWater, NEW i \in Items, InSyspro(i),
                      ~(syspro.row[i].version > water), syspro.row[i].readable,
                      Home[i] \in covered
               PROVE  stock'[i].version = syspro.row[i].version
    BY <1>1 DEF WatermarkCovers, InSyspro
  <2> QED
    BY BatchStores DEF IInv, WatermarkCovers
<1> QED
  BY <1>6, <1>7, <1>8, <1>9, <1>10 DEF IInv

(* The end of the stream: what the new watermark covers was read up to it  *)
(* now, or covered by the watermark the load went on from.                 *)
LEMMA FinishKeeps ==
  ASSUME IInv, FinishLoad
  PROVE  IInv'
<1>1. /\ load.at = "streaming" /\ load.todo = {} /\ load \in LoadRecord
      /\ water' = Reach
      /\ covered' = IF load.full THEN load.wanted ELSE covered \cap load.wanted
      /\ UNCHANGED <<syspro, verified, loads>>
  BY TypeFacts DEF FinishLoad, NewWater, Reach
<1>2. load'.at = "complete" /\ load'.mark = load.mark /\ load' \in LoadRecord
  BY <1>1 DEF FinishLoad, LoadRecord
<1>3. Reach \in 0 .. MaxVersion /\ Reach <= syspro.last
  BY TypeFacts DEF Reach, LoadRecord, IInv, MarksAreOld
<1>4. \A i \in Items : stock'[i] = IF load.full /\ Unseen(i)
                                   THEN [version |-> Absent, seen |-> 0] ELSE stock[i]
  BY DEF FinishLoad
<1>5. stock' \in [Items -> [version : 0 .. MaxVersion, seen : 0 .. MaxLoads]]
  <2>1. [version |-> Absent, seen |-> 0] \in [version : 0 .. MaxVersion, seen : 0 .. MaxLoads]
    BY StockBounds DEF Absent
  <2> QED
    BY <2>1, TypeFacts DEF FinishLoad
<1>6. StockTypeOK'
  BY <1>1, <1>2, <1>3, <1>5, TypeFacts DEF StockTypeOK, LoadRecord
<1>7. MarksAreOld' /\ LoadsNumbered'
  BY <1>1, <1>2, <1>3 DEF IInv, MarksAreOld, LoadsNumbered
<1>8. WatermarkCovers'
  <2> SUFFICES ASSUME NEW i \in Items, InSyspro(i), syspro.row[i].version <= Reach,
                      syspro.row[i].readable, Home[i] \in covered'
               PROVE  stock'[i].version = syspro.row[i].version
    <3>1. \A i \in Items : syspro.row[i].version \in Nat
      BY TypeFacts, StockBounds DEF StockRow
    <3> QED
      BY <1>1, <1>3, <3>1 DEF WatermarkCovers, InSyspro
  <2>1. Home[i] \in load.wanted /\ syspro.row[i].version \in Nat \ {0}
    BY <1>1, TypeFacts, StockBounds DEF StockRow, InSyspro, Absent
  <2>2. CASE syspro.row[i].version > load.since
    <3>1. /\ stock[i].version = syspro.row[i].version
          /\ load.full => stock[i].seen = load.id
      BY <1>1, <2>1, <2>2 DEF IInv, ReadIsStored
    <3> QED
      BY <1>1, <1>4, <3>1, TypeFacts DEF Unseen, LoadRecord
  <2>3. CASE ~(syspro.row[i].version > load.since)
    <3>1. ~load.full /\ load.since = water /\ water # NoWater
      BY <1>1, <2>1, <2>3, TypeFacts DEF IInv, Since, LoadRecord, NoWater
    <3>2. stock[i].version = syspro.row[i].version
      BY <1>1, <2>3, <3>1 DEF IInv, WatermarkCovers
    <3> QED
      BY <1>4, <3>1, <3>2
  <2> QED
    BY <2>2, <2>3
<1> QED
  BY <1>2, <1>6, <1>7, <1>8, QuietLoad DEF IInv, Quiet

LEMMA NextKeeps == IInv /\ [StockNext]_stockVars => IInv'
<1> SUFFICES ASSUME IInv, [StockNext]_stockVars PROVE IInv'
  OBVIOUS
<1>1. CASE UNCHANGED stockVars
  BY <1>1 DEF stockVars, IInv, StockTypeOK, LoadsNumbered, MarksAreOld, Since, ReadIsStored,
              Reach, InSyspro, DeliveredIsStamped, WatermarkCovers
<1>2. CASE StockNext
  BY <1>2, ChangeKeeps, DeleteKeeps, VerifyKeeps, BeginKeeps, EndKeeps, ReadMarkKeeps,
     BatchKeeps, FinishKeeps DEF StockNext
<1> QED
  BY <1>1, <1>2

(* Whatever Syspro held up to the watermark is stored for the vans no load *)
(* has passed over, so that an incremental load may go on from it.         *)
THEOREM WatermarkIsHonest == StockSpec => []WatermarkCovers
<1>1. IInv => WatermarkCovers
  BY DEF IInv
<1> QED
  BY <1>1, InitIInv, NextKeeps, PTL DEF StockSpec

(* The state of the ingest has its type whatever Syspro, the admins and a  *)
(* dying process do.                                                       *)
THEOREM StockTypes == StockSpec => []StockTypeOK
<1>1. IInv => StockTypeOK
  BY DEF IInv
<1> QED
  BY <1>1, InitIInv, NextKeeps, PTL DEF StockSpec

(* A row of the store disappears only in a full load that has read all of  *)
(* Syspro for its van without meeting it.                                  *)
THEOREM PruneIsFounded == StockSpec => PruneTakesOnlyTheGone
<1> DEFINE P == \A i \in Items :
                  stock[i].version # Absent /\ stock'[i].version = Absent
                    => /\ load.full /\ load.todo = {}
                       /\ Home[i] \in load.wanted /\ i \notin load.delivered
<1>1. ASSUME IInv, [StockNext]_stockVars PROVE P
  <2>1. CASE stock' = stock
    BY <2>1
  <2>2. ASSUME NEW S \in SUBSET load.todo, Batch(S) PROVE P
    <3>1. \A i \in Kept(S) : syspro.row[i].version # Absent
      BY DEF Kept, Asked, InSyspro
    <3> QED
      BY <1>1, <2>2, <3>1, BatchStores
  <2>3. CASE FinishLoad
    <3> SUFFICES ASSUME NEW i \in Items, stock[i].version # Absent, stock'[i].version = Absent
                 PROVE  /\ load.full /\ load.todo = {}
                        /\ Home[i] \in load.wanted /\ i \notin load.delivered
      OBVIOUS
    <3>1. load.full /\ Unseen(i) /\ load.todo = {} /\ load.at = "streaming"
      BY <2>3 DEF FinishLoad
    <3>2. stock[i].seen # load.id
      BY <1>1, <3>1, TypeFacts DEF Unseen, LoadRecord
    <3> QED
      BY <1>1, <3>1, <3>2 DEF Unseen, IInv, DeliveredIsStamped
  <2> QED
    BY <1>1, <2>1, <2>2, <2>3 DEF StockNext, stockVars, Change, Delete, Verify, BeginLoad,
       ReadMark, Close, NothingWanted, Die
<1> QED
  BY <1>1, InitIInv, NextKeeps, PTL DEF StockSpec, PruneTakesOnlyTheGone

-----------------------------------------------------------------------------
(***************************************************************************)
(* The screens of a job card.                                              *)
(***************************************************************************)
Kinds   == {"get", "save", "sign", "tasks"}
Screens == {"none", "job", "spares", "signoff"}
IsRequest(r) ==
  r \in [kind : Kinds, to : Screens, sent : {r.sent}, answer : Bundles]
\* No screen, bundle or answer is anything but what it is read as.
ShapesFit ==
  /\ jobCard \in Cards
  /\ \A r \in requests : IsRequest(r)
  /\ cached \in Bundles
  /\ job \in JobPages \cup {Blank}
  /\ spares \in SparesPages \cup {Blank}
  /\ entered \in [work : Nat, parts : SUBSET Parts] /\ entries \in Nat

Main      == {r \in requests : r.kind # "tasks"}
Typing    == job # Blank /\ job.typing
Unserved  == \E r \in requests : r.kind = "save" /\ r.answer = Blank
Reading(to) == \E r \in requests : r.kind = "get" /\ r.to = to
Signing   == \E r \in requests : r.kind = "sign"

\* One thing at a time.
OneAtATime ==
  /\ kept = << >>
  /\ \A r, q \in Main : r = q
  /\ Typing => Main = {} /\ job.dirty /\ spares = Blank
\* The two pages on top of the work order's are never both there.
OnePage ==
  /\ signoff # Blank => spares = Blank /\ job # Blank
  /\ spares # Blank => job # Blank
\* The card is what was entered last, but for what has not reached the server.
CardHasEntries ==
  ~Typing /\ ~Unserved => jobCard.work = entered.work /\ jobCard.parts = entered.parts
SavesCurrent ==
  \A r \in requests : r.kind = "save" /\ r.answer = Blank =>
    r.sent.work = entered.work /\ r.sent.parts = entered.parts
\* A read says what the server has; what the screen showed meanwhile is what it was sent with.
ReadsFit ==
  \A r \in requests : r.kind = "get" =>
    /\ r.answer \in {Blank, jobCard}
    /\ r.to = "job" /\ job # Blank /\ r.sent # Blank => job.parts = r.sent.parts
    /\ r.to = "spares" /\ spares # Blank /\ r.sent # Blank =>
         spares.parts = r.sent.parts /\ spares.bundle = r.sent
    /\ r.to = "spares" /\ spares # Blank => ~spares.dirty
\* The copies of the two editors are current when they are written from.
PageCurrent ==
  job # Blank =>
    /\ job.dirty => job.work = entered.work
    /\ spares = Blank /\ ~Reading("job") => job.parts = entered.parts
SparesCurrent ==
  spares # Blank /\ ~Reading("spares") =>
    /\ spares.bundle # Blank
    /\ spares.parts = entered.parts /\ spares.bundle.work = entered.work
\* No edit is under way on a signed card.
SignedIsDone ==
  /\ jobCard.signed => done \/ Signing
  /\ Typing \/ Unserved \/ spares # Blank => ~jobCard.signed /\ ~Signing
Patient == /\ ShapesFit /\ OneAtATime /\ OnePage /\ CardHasEntries /\ SavesCurrent /\ ReadsFit
           /\ PageCurrent /\ SparesCurrent /\ SignedIsDone
CardInv == ~hurried => Patient

-----------------------------------------------------------------------------
LEMMA InitCard == CardInit => CardInv
BY DEF CardInit, CardInv, Patient, ShapesFit, OneAtATime, OnePage, CardHasEntries, SavesCurrent,
       ReadsFit, PageCurrent, SparesCurrent, SignedIsDone, Main, Typing, Unserved, Reading, Signing,
       BlankCard, Cards, Bundles

(* What a screen makes of a bundle.                                        *)
LEMMA Applied ==
  ASSUME NEW b \in Cards, NEW j \in JobPages
  PROVE  LET k == ApplyBundle(b, j) IN
         /\ k \in JobPages /\ k.parts = b.parts /\ k.dirty = j.dirty /\ k.typing = j.typing
         /\ j.dirty => k.work = j.work
BY DEF ApplyBundle, JobPages, Cards, Bundles

LEMMA Taken ==
  ASSUME NEW b \in Cards, NEW s \in SparesPages
  PROVE  LET k == TakeParts(b, s) IN
         /\ k \in SparesPages /\ k.bundle = b /\ k.dirty = s.dirty
         /\ ~s.dirty => k.parts = b.parts
BY DEF TakeParts, SparesPages, Cards, Bundles

(* A step of the technician who waits: nothing was under way.              *)
LEMMA Waits ==
  ASSUME CardInv, Hurry, ~hurried'
  PROVE  /\ ~hurried /\ Patient /\ requests = {} /\ ~Typing /\ ~Unserved /\ ~Signing
         /\ \A to : ~Reading(to)
         /\ jobCard.work = entered.work /\ jobCard.parts = entered.parts
<1>1. ~hurried /\ Patient /\ requests = {} /\ (job = Blank \/ ~job.typing)
  BY DEF Hurry, Calm, CardInv
<1> QED
  BY <1>1 DEF Patient, CardHasEntries, Typing, Unserved, Signing, Reading

(* The screens, one action at a time.                                      *)
LEMMA OpenJobKeeps == ASSUME CardInv, OpenJob PROVE CardInv'
<1> SUFFICES ASSUME ~hurried' PROVE Patient'
  BY DEF CardInv
<1> DEFINE get == [kind |-> "get", to |-> "job", sent |-> cached, answer |-> Blank]
<1>1. /\ ~hurried /\ Patient /\ requests = {} /\ ~Signing
      /\ jobCard.work = entered.work /\ jobCard.parts = entered.parts
  BY Waits DEF OpenJob
<1>2. /\ requests' = {get} /\ job = Blank
      /\ job' = IF cached = Blank THEN FreshJob ELSE ApplyBundle(cached, FreshJob)
      /\ UNCHANGED <<jobCard, cached, spares, signoff, kept, done, entered, entries>>
  BY <1>1 DEF OpenJob, Get, Request, Read
<1>3. FreshJob \in JobPages /\ ~FreshJob.dirty /\ ~FreshJob.typing
  BY DEF FreshJob, JobPages, Bundles
<1>4. /\ job' \in JobPages /\ ~job'.dirty /\ ~job'.typing
      /\ cached # Blank => job'.parts = cached.parts
  BY <1>1, <1>2, <1>3, Applied DEF Patient, ShapesFit, Bundles
<1>5. /\ get.kind = "get" /\ get.to = "job" /\ get.sent = cached /\ get.answer = Blank
      /\ IsRequest(get)
  BY DEF IsRequest, Kinds, Screens, Bundles
<1> HIDE DEF get
<1>6. ShapesFit'
  BY <1>1, <1>2, <1>4, <1>5 DEF Patient, ShapesFit
<1>7. ~Typing' /\ ~Unserved' /\ ~Signing' /\ Reading("job")' /\ ~Reading("spares")'
  BY <1>2, <1>4, <1>5 DEF Typing, Unserved, Signing, Reading
<1>8. OneAtATime' /\ CardHasEntries' /\ SavesCurrent'
  BY <1>1, <1>2, <1>5, <1>7 DEF Patient, OneAtATime, Main, CardHasEntries, SavesCurrent
<1>9. ReadsFit'
  BY <1>1, <1>2, <1>4, <1>5 DEF Patient, ReadsFit
<1>10. PageCurrent' /\ SparesCurrent' /\ SignedIsDone'
  <2>1. ~Reading("spares")
    BY <1>1 DEF Reading
  <2> QED
    BY <1>1, <1>2, <1>4, <1>7, <2>1 DEF Patient, PageCurrent, SparesCurrent, SignedIsDone
<1>page. OnePage'
  <2>1. job' # Blank
    BY <1>4, BlankAssumption
  <2> QED
    BY <1>1, <1>2, <2>1 DEF Patient, OnePage
<1> QED
  BY <1>6, <1>8, <1>9, <1>10, <1>page DEF Patient

LEMMA EditWorkKeeps == ASSUME CardInv, EditWork PROVE CardInv'
<1> SUFFICES ASSUME ~hurried' PROVE Patient'
  BY DEF CardInv
<1>1. /\ ~hurried /\ Patient /\ requests = {} /\ ~Signing /\ \A to : ~Reading(to)
      /\ jobCard.work = entered.work /\ jobCard.parts = entered.parts
  BY Waits DEF EditWork
<1>2. /\ job # Blank /\ spares = Blank /\ ~done /\ entries' = entries + 1
      /\ job' = [job EXCEPT !.work = entries', !.dirty = TRUE, !.typing = TRUE]
      /\ entered' = [entered EXCEPT !.work = entries']
      /\ UNCHANGED <<jobCard, cached, spares, signoff, requests, kept, done>>
  BY DEF EditWork, OnJob, Editable
<1>3. /\ job' \in JobPages /\ job' # Blank
      /\ job'.dirty /\ job'.typing /\ job'.work = entries' /\ job'.parts = job.parts
  <2>1. job \in JobPages /\ entries' \in Nat
    BY <1>1, <1>2 DEF Patient, ShapesFit
  <2>2. /\ job' \in JobPages /\ job'.dirty /\ job'.typing /\ job'.work = entries'
        /\ job'.parts = job.parts
    BY <1>2, <2>1 DEF JobPages
  <2> QED
    BY <2>2, BlankAssumption
<1>4. /\ entered' \in [work : Nat, parts : SUBSET Parts] /\ entries' \in Nat
      /\ entered'.work = entries' /\ entered'.parts = entered.parts
  BY <1>1, <1>2 DEF Patient, ShapesFit
<1>5. ShapesFit'
  BY <1>1, <1>2, <1>3, <1>4 DEF Patient, ShapesFit
<1>6. requests' = {} /\ ~Unserved' /\ ~Signing' /\ \A to : ~Reading(to)'
  BY <1>1, <1>2 DEF Unserved, Signing, Reading
<1>7. OneAtATime' /\ SavesCurrent' /\ ReadsFit'
  BY <1>1, <1>2, <1>3, <1>6 DEF Patient, OneAtATime, Main, SavesCurrent, ReadsFit
<1>8. ~jobCard.signed
  BY <1>1, <1>2 DEF Patient, SignedIsDone
<1>9. CardHasEntries' /\ SignedIsDone'
  BY <1>2, <1>3, <1>6, <1>8 DEF CardHasEntries, SignedIsDone, Typing
<1>10. PageCurrent' /\ SparesCurrent'
  BY <1>1, <1>2, <1>3, <1>4, <1>6 DEF Patient, PageCurrent, SparesCurrent
<1>page. OnePage'
  BY <1>1, <1>2, <1>3 DEF Patient, OnePage
<1> QED
  BY <1>5, <1>7, <1>9, <1>10, <1>page DEF Patient

LEMMA PersistKeeps == ASSUME CardInv, PersistJob PROVE CardInv'
<1> SUFFICES ASSUME ~hurried' PROVE Patient'
  BY DEF CardInv
<1> DEFINE save == [kind |-> "save", to |-> "none",
                    sent |-> [work |-> job.work, parts |-> job.parts], answer |-> Blank]
<1>1. /\ ~hurried /\ Patient /\ Typing /\ job # Blank
      /\ requests' = requests \cup {save} /\ job' = [job EXCEPT !.typing = FALSE]
      /\ UNCHANGED <<jobCard, cached, spares, signoff, kept, done, entered, entries>>
  BY DEF CardInv, PersistJob, Request, Typing
<1>2. /\ job' \in JobPages /\ job'.dirty = job.dirty /\ ~job'.typing /\ job'.work = job.work
      /\ job'.parts = job.parts
  BY <1>1 DEF Patient, ShapesFit, JobPages
<1>3. Main = {} /\ job.dirty /\ spares = Blank /\ kept = << >>
  BY <1>1 DEF Patient, OneAtATime
<1>4. \A r \in requests : r.kind = "tasks"
  BY <1>3 DEF Main
<1>5. /\ save.kind = "save" /\ save.answer = Blank /\ IsRequest(save)
      /\ save.sent.work = job.work /\ save.sent.parts = job.parts
  BY DEF IsRequest, Kinds, Screens, Bundles
<1> HIDE DEF save
<1>6. job.work = entered.work /\ job.parts = entered.parts /\ \A to : ~Reading(to)
  BY <1>1, <1>3, <1>4 DEF Patient, PageCurrent, Reading
<1>7. ShapesFit'
  BY <1>1, <1>2, <1>5 DEF Patient, ShapesFit
<1>8. ~Typing' /\ Unserved' /\ ~Signing' /\ \A to : ~Reading(to)'
  BY <1>1, <1>2, <1>4, <1>5 DEF Typing, Unserved, Signing, Reading
<1>9. Main' = {save}
  BY <1>1, <1>4, <1>5 DEF Main
<1>10. OneAtATime' /\ CardHasEntries' /\ SavesCurrent' /\ ReadsFit'
  BY <1>1, <1>3, <1>4, <1>5, <1>6, <1>8, <1>9
     DEF OneAtATime, CardHasEntries, SavesCurrent, ReadsFit
<1>11. PageCurrent' /\ SparesCurrent' /\ SignedIsDone'
  BY <1>1, <1>2, <1>3, <1>6, <1>8 DEF Patient, PageCurrent, SparesCurrent, SignedIsDone
<1>page. OnePage'
  <2>1. job' # Blank
    BY <1>2, BlankAssumption
  <2> QED
    BY <1>1, <2>1 DEF Patient, OnePage
<1> QED
  BY <1>7, <1>10, <1>11, <1>page DEF Patient

LEMMA OpenSparesKeeps == ASSUME CardInv, OpenSpares PROVE CardInv'
<1> SUFFICES ASSUME ~hurried' PROVE Patient'
  BY DEF CardInv
<1> DEFINE get == [kind |-> "get", to |-> "spares", sent |-> cached, answer |-> Blank]
           new == [parts |-> {}, dirty |-> FALSE, bundle |-> Blank]
<1>1. /\ ~hurried /\ Patient /\ requests = {} /\ ~Signing /\ \A to : ~Reading(to)
      /\ ~Typing /\ jobCard.work = entered.work /\ jobCard.parts = entered.parts
  BY Waits DEF OpenSpares
<1>2. /\ requests' = {get} /\ job # Blank /\ spares = Blank /\ ~done
      /\ spares' = IF cached = Blank THEN new ELSE TakeParts(cached, new)
      /\ UNCHANGED <<jobCard, cached, job, signoff, kept, done, entered, entries>>
  BY <1>1 DEF OpenSpares, Get, Request, Read, OnJob, Editable
<1>3. new \in SparesPages /\ ~new.dirty
  BY DEF SparesPages, Bundles
<1>4. get.kind = "get" /\ get.to = "spares" /\ get.sent = cached /\ get.answer = Blank
      /\ IsRequest(get)
  BY DEF IsRequest, Kinds, Screens, Bundles
<1> HIDE DEF get, new
<1>5. /\ spares' \in SparesPages /\ ~spares'.dirty
      /\ cached # Blank => spares'.parts = cached.parts /\ spares'.bundle = cached
  BY <1>1, <1>2, <1>3, Taken DEF Patient, ShapesFit, Bundles
<1>6. ShapesFit'
  BY <1>1, <1>2, <1>4, <1>5 DEF Patient, ShapesFit
<1>7. ~Typing' /\ ~Unserved' /\ ~Signing' /\ Reading("spares")' /\ ~Reading("job")'
  BY <1>1, <1>2, <1>4 DEF Typing, Unserved, Signing, Reading
<1>8. OneAtATime' /\ CardHasEntries' /\ SavesCurrent' /\ ReadsFit'
  BY <1>1, <1>2, <1>4, <1>5, <1>7
     DEF Patient, OneAtATime, Main, CardHasEntries, SavesCurrent, ReadsFit
<1>9. ~jobCard.signed
  BY <1>1, <1>2 DEF Patient, SignedIsDone
<1>10. PageCurrent'
  <2>1. spares' = Blank => job.parts = entered.parts
    BY <1>1, <1>2 DEF Patient, PageCurrent
  <2> QED
    BY <1>1, <1>2, <2>1 DEF Patient, PageCurrent
<1>11. SparesCurrent' /\ SignedIsDone'
  BY <1>1, <1>2, <1>7, <1>9 DEF SparesCurrent, SignedIsDone
<1>page. OnePage'
  BY <1>1, <1>2 DEF Patient, OnePage, OpenSpares, OnJob
<1> QED
  BY <1>6, <1>8, <1>10, <1>11, <1>page DEF Patient

LEMMA BookKeeps == ASSUME CardInv, BookParts PROVE CardInv'
<1> SUFFICES ASSUME ~hurried' PROVE Patient'
  BY DEF CardInv
<1>1. /\ ~hurried /\ Patient /\ requests = {} /\ ~Signing /\ \A to : ~Reading(to)
      /\ ~Typing /\ jobCard.work = entered.work /\ jobCard.parts = entered.parts
  BY Waits DEF BookParts
<1>2. /\ spares # Blank /\ spares.parts = entered.parts /\ spares.bundle # Blank
      /\ spares.bundle.work = entered.work /\ ~jobCard.signed
      /\ spares \in SparesPages
      /\ entered \in [work : Nat, parts : SUBSET Parts] /\ entries \in Nat
  BY <1>1 DEF BookParts, Bookable, Patient, SparesCurrent, SignedIsDone, ShapesFit
<1>3. PICK p \in Parts :
        LET change(booked) == IF p \in spares.parts THEN booked \ {p} ELSE booked \cup {p} IN
        /\ spares' = [spares EXCEPT !.parts = change(@), !.dirty = TRUE]
        /\ entered' = [entered EXCEPT !.parts = change(@)]
        /\ requests' = {[kind |-> "save", to |-> "none",
                         sent |-> [work |-> spares.bundle.work, parts |-> change(spares.parts)],
                         answer |-> Blank]}
  BY <1>1 DEF BookParts, Request
<1> DEFINE booked == IF p \in spares.parts THEN spares.parts \ {p} ELSE spares.parts \cup {p}
           save == [kind |-> "save", to |-> "none",
                    sent |-> [work |-> spares.bundle.work, parts |-> booked], answer |-> Blank]
<1>4. /\ spares' = [spares EXCEPT !.parts = booked, !.dirty = TRUE]
      /\ entered' = [entered EXCEPT !.parts = booked] /\ requests' = {save}
      /\ booked \in SUBSET Parts
      /\ entries' = entries + 1
      /\ UNCHANGED <<jobCard, cached, job, signoff, kept, done>>
  BY <1>2, <1>3 DEF BookParts
<1>5. /\ save.kind = "save" /\ save.answer = Blank /\ IsRequest(save)
      /\ save.sent.work = entered.work /\ save.sent.parts = booked
  BY <1>2 DEF IsRequest, Kinds, Screens, Bundles
<1> HIDE DEF booked, save
<1>6. /\ spares' \in SparesPages /\ spares' # Blank
      /\ spares'.parts = booked /\ spares'.bundle = spares.bundle
      /\ entered' \in [work : Nat, parts : SUBSET Parts]
      /\ entered'.parts = booked /\ entered'.work = entered.work
  BY <1>2, <1>4, BlankAssumption DEF SparesPages
<1>7. ShapesFit'
  BY <1>1, <1>2, <1>4, <1>5, <1>6 DEF Patient, ShapesFit
<1>8. ~Typing' /\ Unserved' /\ ~Signing' /\ \A to : ~Reading(to)'
  BY <1>1, <1>4, <1>5 DEF Typing, Unserved, Signing, Reading
<1>9. OneAtATime' /\ CardHasEntries' /\ SavesCurrent' /\ ReadsFit'
  BY <1>1, <1>4, <1>5, <1>6, <1>8
     DEF Patient, OneAtATime, Main, CardHasEntries, SavesCurrent, ReadsFit
<1>10. SparesCurrent' /\ SignedIsDone'
  BY <1>1, <1>2, <1>4, <1>6, <1>8 DEF SparesCurrent, SignedIsDone
<1>11. PageCurrent'
  BY <1>1, <1>2, <1>4, <1>6 DEF Patient, PageCurrent
<1>page. OnePage'
  BY <1>1, <1>2, <1>4 DEF Patient, OnePage
<1> QED
  BY <1>7, <1>9, <1>10, <1>11, <1>page DEF Patient

LEMMA SignOffKeeps == ASSUME CardInv, OpenSignOff \/ PressSeal PROVE CardInv'
<1> SUFFICES ASSUME ~hurried' PROVE Patient'
  BY DEF CardInv
<1>1. /\ ~hurried /\ Patient /\ requests = {} /\ ~Signing /\ \A to : ~Reading(to)
      /\ ~Typing /\ jobCard.work = entered.work /\ jobCard.parts = entered.parts
  BY Waits DEF OpenSignOff, PressSeal
<1>2. PICK r : /\ IsRequest(r) /\ r.answer = Blank /\ requests' = {r}
              /\ \/ r.kind = "get" /\ r.to = "signoff"
                 \/ r.kind = "sign" /\ signoff # Blank
  <2>1. CASE OpenSignOff
    <3> DEFINE get == [kind |-> "get", to |-> "signoff", sent |-> cached, answer |-> Blank]
    <3>1. requests' = {get}
      BY <1>1, <2>1 DEF OpenSignOff, Get, Request
    <3>2. IsRequest(get) /\ get.kind = "get" /\ get.to = "signoff" /\ get.answer = Blank
      BY DEF IsRequest, Kinds, Screens, Bundles
    <3> HIDE DEF get
    <3> QED
      BY <3>1, <3>2
  <2>2. CASE PressSeal
    <3> DEFINE seal == [kind |-> "sign", to |-> "none", sent |-> Blank, answer |-> Blank]
    <3>1. requests' = {seal} /\ signoff # Blank
      BY <1>1, <2>2 DEF PressSeal, Request
    <3>2. IsRequest(seal) /\ seal.kind = "sign" /\ seal.answer = Blank
      BY DEF IsRequest, Kinds, Screens, Bundles
    <3> HIDE DEF seal
    <3> QED
      BY <3>1, <3>2
  <2> QED
    BY <2>1, <2>2
<1>3. UNCHANGED <<jobCard, cached, job, spares, kept, done, entered, entries>>
  BY DEF OpenSignOff, PressSeal
<1>4. ShapesFit'
  BY <1>1, <1>2, <1>3 DEF Patient, ShapesFit
<1>5. ~Typing' /\ ~Unserved' /\ ~Reading("job")' /\ ~Reading("spares")'
  BY <1>1, <1>2, <1>3 DEF Typing, Unserved, Reading
<1>6. OneAtATime' /\ CardHasEntries' /\ SavesCurrent' /\ ReadsFit' /\ PageCurrent'
      /\ SparesCurrent'
  BY <1>1, <1>2, <1>3, <1>5
     DEF Patient, OneAtATime, Main, CardHasEntries, SavesCurrent, ReadsFit, PageCurrent,
         SparesCurrent
<1>7. SignedIsDone'
  <2>1. r.kind = "sign" => spares = Blank
    BY <1>1, <1>2 DEF Patient, OnePage
  <2> QED
    BY <1>1, <1>2, <1>3, <1>5, <2>1 DEF Patient, SignedIsDone, Signing
<1>page. OnePage'
  <2>1. signoff' = signoff \/ (job # Blank /\ spares = Blank)
    BY DEF OpenSignOff, PressSeal, OnJob
  <2> QED
    BY <1>1, <1>3, <2>1 DEF Patient, OnePage
<1> QED
  BY <1>4, <1>6, <1>7, <1>page DEF Patient

LEMMA BackKeeps == ASSUME CardInv, BackToJob PROVE CardInv'
<1> SUFFICES ASSUME ~hurried' PROVE Patient'
  BY DEF CardInv
<1> DEFINE get == [kind |-> "get", to |-> "job", sent |-> cached, answer |-> Blank]
<1>1. /\ ~hurried /\ Patient /\ requests = {} /\ ~Signing /\ \A to : ~Reading(to)
      /\ ~Typing /\ jobCard.work = entered.work /\ jobCard.parts = entered.parts
  BY Waits DEF BackToJob
<1>2. /\ requests' = {get} /\ spares' = Blank
      /\ job' = IF cached = Blank THEN job ELSE ApplyBundle(cached, job)
      /\ UNCHANGED <<jobCard, cached, kept, done, entered, entries>>
  BY <1>1 DEF BackToJob, Read
<1>3. job # Blank
  BY <1>1 DEF BackToJob, Patient, OnePage
<1>4. /\ job' \in JobPages /\ job'.dirty = job.dirty /\ ~job'.typing
      /\ job.dirty => job'.work = job.work
      /\ cached # Blank => job'.parts = cached.parts
  BY <1>1, <1>2, <1>3, Applied DEF Patient, ShapesFit, Bundles, Typing
<1>5. get.kind = "get" /\ get.to = "job" /\ get.sent = cached /\ get.answer = Blank
      /\ IsRequest(get)
  BY DEF IsRequest, Kinds, Screens, Bundles
<1> HIDE DEF get
<1>6. ShapesFit'
  BY <1>1, <1>2, <1>4, <1>5 DEF Patient, ShapesFit
<1>7. ~Typing' /\ ~Unserved' /\ ~Signing' /\ Reading("job")' /\ ~Reading("spares")'
  BY <1>2, <1>4, <1>5 DEF Typing, Unserved, Signing, Reading
<1>8. OneAtATime' /\ CardHasEntries' /\ SavesCurrent' /\ ReadsFit'
  BY <1>1, <1>2, <1>4, <1>5, <1>7
     DEF Patient, OneAtATime, Main, CardHasEntries, SavesCurrent, ReadsFit
<1>9. PageCurrent' /\ SparesCurrent' /\ SignedIsDone'
  BY <1>1, <1>2, <1>3, <1>4, <1>7 DEF Patient, PageCurrent, SparesCurrent, SignedIsDone
<1>page. OnePage'
  <2>1. job' # Blank /\ signoff' = Blank
    BY <1>4, BlankAssumption DEF BackToJob
  <2> QED
    BY <1>2, <2>1 DEF OnePage
<1> QED
  BY <1>6, <1>8, <1>9, <1>page DEF Patient

LEMMA LeaveKeeps == ASSUME CardInv, LeaveJob PROVE CardInv'
<1> SUFFICES ASSUME ~hurried' PROVE Patient'
  BY DEF CardInv
<1>1. /\ ~hurried /\ Patient /\ requests = {} /\ ~Signing
      /\ jobCard.work = entered.work /\ jobCard.parts = entered.parts
  BY Waits DEF LeaveJob
<1>2. /\ requests' = {} /\ spares' = Blank /\ job' = Blank /\ signoff' = Blank
      /\ UNCHANGED <<jobCard, cached, kept, done, entered, entries>>
  BY <1>1 DEF LeaveJob
<1> QED
  BY <1>1, <1>2
     DEF Patient, ShapesFit, OneAtATime, OnePage, CardHasEntries, SavesCurrent, ReadsFit,
         PageCurrent, SparesCurrent, SignedIsDone, Main, Typing, Unserved, Signing

LEMMA AskKeeps == ASSUME CardInv, AskTasks PROVE CardInv'
<1> SUFFICES ASSUME ~hurried' PROVE Patient'
  BY DEF CardInv
<1> DEFINE ask == [kind |-> "tasks", to |-> "job", sent |-> Blank, answer |-> Blank]
<1>1. /\ ~hurried /\ Patient /\ job # Blank /\ job' = [job EXCEPT !.tasked = TRUE]
      /\ requests' = requests \cup {ask}
      /\ UNCHANGED <<jobCard, cached, spares, signoff, kept, done, entered, entries>>
  BY DEF CardInv, AskTasks, Request
<1>2. /\ job' \in JobPages /\ job'.dirty = job.dirty /\ job'.typing = job.typing
      /\ job'.work = job.work /\ job'.parts = job.parts
  BY <1>1 DEF Patient, ShapesFit, JobPages
<1>3. ask.kind = "tasks" /\ IsRequest(ask)
  BY DEF IsRequest, Kinds, Screens, Bundles
<1> HIDE DEF ask
<1>4. ShapesFit'
  BY <1>1, <1>2, <1>3 DEF Patient, ShapesFit
<1>5. /\ Typing' => Typing
      /\ Unserved' = Unserved /\ Signing' = Signing /\ \A to : Reading(to)' = Reading(to)
      /\ Main' = Main
  BY <1>1, <1>2, <1>3 DEF Typing, Unserved, Signing, Reading, Main
<1>6. OneAtATime' /\ SavesCurrent' /\ ReadsFit'
  BY <1>1, <1>2, <1>3, <1>5 DEF Patient, OneAtATime, SavesCurrent, ReadsFit
<1>card. CardHasEntries'
  <2>1. Typing' = Typing
    <3>1. job' # Blank
      BY <1>2, BlankAssumption
    <3> QED
      BY <1>1, <1>2, <3>1 DEF Typing
  <2> QED
    BY <1>1, <1>5, <2>1 DEF Patient, CardHasEntries
<1>7. PageCurrent' /\ SparesCurrent' /\ SignedIsDone'
  BY <1>1, <1>2, <1>3, <1>5
     DEF Patient, PageCurrent, SparesCurrent, SignedIsDone
<1>page. OnePage'
  <2>1. job' # Blank
    BY <1>2, BlankAssumption
  <2> QED
    BY <1>1, <2>1 DEF Patient, OnePage
<1> QED
  BY <1>4, <1>6, <1>7, <1>page, <1>card DEF Patient

(* The server has answered one request; nothing else it is asked changes   *)
(* the card meanwhile.                                                     *)
LEMMA Effects ==
  ASSUME Patient, NEW r \in requests, r.answer = Blank
  PROVE  /\ Effect(r) \in Cards
         /\ r.kind = "save" =>
              /\ Effect(r).work = entered.work /\ Effect(r).parts = entered.parts
              /\ Effect(r).signed = FALSE
         /\ r.kind = "sign" =>
              Effect(r).work = jobCard.work /\ Effect(r).parts = jobCard.parts
         /\ r.kind \in {"get", "tasks"} => Effect(r) = jobCard
<1>1. /\ jobCard \in Cards /\ entered \in [work : Nat, parts : SUBSET Parts] /\ IsRequest(r)
  BY DEF Patient, ShapesFit
<1>2. r.kind \in Kinds
  BY <1>1 DEF IsRequest
<1>3. CASE r.kind = "save"
  <2>1. Unserved
    BY <1>3 DEF Unserved
  <2>2. /\ r.sent.work = entered.work /\ r.sent.parts = entered.parts /\ ~jobCard.signed
    BY <1>3, <2>1 DEF Patient, SavesCurrent, SignedIsDone
  <2>3. Effect(r) = [work |-> r.sent.work, parts |-> r.sent.parts, signed |-> FALSE]
    BY <1>3, <2>2 DEF Effect
  <2> QED
    BY <1>1, <1>3, <2>2, <2>3 DEF Cards
<1>4. CASE r.kind = "sign"
  <2>1. Effect(r) = [jobCard EXCEPT !.signed = TRUE]
    BY <1>4 DEF Effect
  <2> QED
    BY <1>1, <1>4, <2>1 DEF Cards
<1>5. CASE r.kind \in {"get", "tasks"}
  BY <1>1, <1>5 DEF Effect
<1> QED
  BY <1>2, <1>3, <1>4, <1>5 DEF Kinds

LEMMA ServeKeeps ==
  ASSUME CardInv, NEW r \in requests, Serve(r)
  PROVE  CardInv'
<1> SUFFICES ASSUME ~hurried' PROVE Patient'
  BY DEF CardInv
<1> DEFINE n == [r EXCEPT !.answer = Effect(r)]
<1>1. /\ ~hurried /\ Patient /\ r.answer = Blank /\ jobCard' = Effect(r)
      /\ requests' = (requests \ {r}) \cup {n}
      /\ UNCHANGED <<cached, job, spares, signoff, kept, done, entered, entries>>
  BY DEF CardInv, Serve
<1>2. IsRequest(r) /\ Effect(r) \in Cards
  BY <1>1, Effects DEF Patient, ShapesFit
<1>3. /\ n.kind = r.kind /\ n.to = r.to /\ n.sent = r.sent /\ n.answer = Effect(r)
      /\ IsRequest(n) /\ n.answer # Blank
  BY <1>2, BlankAssumption DEF IsRequest, Bundles
<1> HIDE DEF n
<1>4. \A to : Reading(to)' <=> Reading(to)
  BY <1>1, <1>3 DEF Reading
<1>5. (Signing' <=> Signing) /\ (Typing' <=> Typing)
  BY <1>1, <1>3 DEF Signing, Typing
<1>6. Unserved' => Unserved
  BY <1>1, <1>3 DEF Unserved
<1>7. \A q \in requests : r.kind # "tasks" /\ q # r => q.kind = "tasks"
  BY <1>1 DEF Patient, OneAtATime, Main
<1>8. ShapesFit'
  BY <1>1, <1>2, <1>3 DEF Patient, ShapesFit
<1>9. OneAtATime' /\ OnePage'
  <2>1. \A p, q \in Main' : p = q
    BY <1>1, <1>3, <1>7 DEF Main, Patient, OneAtATime
  <2>2. Typing => Main' = {}
    BY <1>1, <1>3 DEF Main, Patient, OneAtATime
  <2> QED
    BY <1>1, <1>5, <2>1, <2>2 DEF Patient, OneAtATime, OnePage, Typing
<1>10. SavesCurrent'
  BY <1>1, <1>3 DEF Patient, SavesCurrent
<1>11. ReadsFit'
  <2> SUFFICES ASSUME NEW q \in requests', q.kind = "get"
               PROVE  /\ q.answer \in {Blank, jobCard'}
                      /\ q.to = "job" /\ job # Blank /\ q.sent # Blank => job.parts = q.sent.parts
                      /\ q.to = "spares" /\ spares # Blank /\ q.sent # Blank =>
                           spares.parts = q.sent.parts /\ spares.bundle = q.sent
                      /\ q.to = "spares" /\ spares # Blank => ~spares.dirty
    BY <1>1 DEF ReadsFit
  <2>1. CASE q = n
    BY <1>1, <1>3, <2>1 DEF Patient, ReadsFit
  <2>2. CASE q # n
    <3>1. q \in requests /\ q # r
      BY <1>1, <2>2
    <3>2. r.kind = "tasks"
      BY <1>7, <3>1
    <3>3. jobCard' = jobCard
      BY <1>1, <3>2, Effects
    <3> QED
      BY <1>1, <3>1, <3>3 DEF Patient, ReadsFit
  <2> QED
    BY <2>1, <2>2
<1>12. CardHasEntries' /\ SignedIsDone'
  <2>1. CASE r.kind = "save"
    <3>1. Unserved /\ ~Signing
      BY <1>1, <2>1 DEF Unserved, Patient, SignedIsDone
    <3>2. /\ jobCard'.work = entered.work /\ jobCard'.parts = entered.parts
          /\ jobCard'.signed = FALSE
      BY <1>1, <2>1, Effects
    <3> QED
      BY <1>1, <1>5, <3>1, <3>2 DEF CardHasEntries, SignedIsDone
  <2>2. CASE r.kind = "sign"
    <3>1. Signing
      BY <2>2 DEF Signing
    <3>2. ~Typing /\ ~Unserved /\ spares = Blank
      BY <1>1, <3>1 DEF Patient, SignedIsDone
    <3>3. jobCard'.work = jobCard.work /\ jobCard'.parts = jobCard.parts
      BY <1>1, <2>2, Effects
    <3> QED
      BY <1>1, <1>5, <1>6, <3>1, <3>2, <3>3 DEF Patient, CardHasEntries, SignedIsDone
  <2>3. CASE r.kind \in {"get", "tasks"}
    <3>1. jobCard' = jobCard
      BY <1>1, <2>3, Effects
    <3>2. Unserved' <=> Unserved
      BY <1>1, <1>3, <2>3 DEF Unserved
    <3> QED
      BY <1>1, <1>5, <3>1, <3>2 DEF Patient, CardHasEntries, SignedIsDone
  <2> QED
    BY <1>2, <2>1, <2>2, <2>3 DEF IsRequest, Kinds
<1>13. PageCurrent' /\ SparesCurrent'
  BY <1>1, <1>4 DEF Patient, PageCurrent, SparesCurrent
<1> QED
  BY <1>8, <1>9, <1>10, <1>11, <1>12, <1>13 DEF Patient

LEMMA AnsweredKeeps ==
  ASSUME CardInv, NEW r \in requests, Answered(r)
  PROVE  CardInv'
<1> SUFFICES ASSUME ~hurried' PROVE Patient'
  BY DEF CardInv
<1> DEFINE shown == r.kind = "get" /\ r.answer # r.sent
<1>1. /\ ~hurried /\ Patient /\ r.answer # Blank /\ requests' = requests \ {r}
      /\ job' = IF shown /\ r.to = "job" /\ job # Blank THEN ApplyBundle(r.answer, job) ELSE job
      /\ spares' = IF shown /\ r.to = "spares" /\ spares # Blank
                   THEN TakeParts(r.answer, spares) ELSE spares
      /\ signoff' = IF shown /\ r.to = "signoff" /\ signoff # Blank
                   THEN TakeBundle(r.answer, signoff) ELSE signoff
      /\ cached' \in {r.answer, cached} \/ (job # Blank /\ cached' = job.bundle)
      /\ done' = (done \/ r.kind = "sign")
      /\ UNCHANGED <<jobCard, kept, entered, entries>>
  BY DEF CardInv, Answered
<1>2. /\ IsRequest(r) /\ r.answer \in Cards /\ r.kind \in Kinds
      /\ r.kind = "get" => r.answer = jobCard
  BY <1>1 DEF Patient, ShapesFit, IsRequest, Bundles, ReadsFit
<1>3. job # Blank => /\ job \in JobPages
                     /\ ApplyBundle(r.answer, job) \in JobPages
                     /\ ApplyBundle(r.answer, job).parts = r.answer.parts
                     /\ ApplyBundle(r.answer, job).dirty = job.dirty
                     /\ ApplyBundle(r.answer, job).typing = job.typing
                     /\ job.dirty => ApplyBundle(r.answer, job).work = job.work
  BY <1>1, <1>2, Applied DEF Patient, ShapesFit
<1>4. spares # Blank => /\ spares \in SparesPages
                        /\ TakeParts(r.answer, spares) \in SparesPages
                        /\ TakeParts(r.answer, spares).bundle = r.answer
                        /\ TakeParts(r.answer, spares).dirty = spares.dirty
                        /\ ~spares.dirty => TakeParts(r.answer, spares).parts = r.answer.parts
  BY <1>1, <1>2, Taken DEF Patient, ShapesFit
<1>5. /\ job = Blank => job' = Blank
      /\ job # Blank => /\ job' \in JobPages /\ job' # Blank
                        /\ job'.dirty = job.dirty /\ job'.typing = job.typing
                        /\ job.dirty => job'.work = job.work
                        /\ ~(shown /\ r.to = "job") => job' = job
                        /\ shown /\ r.to = "job" => job'.parts = r.answer.parts
  BY <1>1, <1>3, BlankAssumption
<1>6. /\ spares = Blank => spares' = Blank
      /\ spares # Blank => /\ spares' \in SparesPages /\ spares' # Blank
                           /\ spares'.dirty = spares.dirty
                           /\ ~(shown /\ r.to = "spares") => spares' = spares
                           /\ shown /\ r.to = "spares" /\ ~spares.dirty =>
                                spares'.bundle = r.answer /\ spares'.parts = r.answer.parts
  BY <1>1, <1>4, BlankAssumption
<1>7. signoff = Blank => signoff' = Blank
  BY <1>1
<1>8. ShapesFit'
  <2>1. cached' \in Bundles
    BY <1>1, <1>2, <1>3 DEF Patient, ShapesFit, Bundles, JobPages
  <2>2. job' \in JobPages \cup {Blank} /\ spares' \in SparesPages \cup {Blank}
    BY <1>5, <1>6
  <2> QED
    BY <1>1, <2>1, <2>2 DEF Patient, ShapesFit
<1>9. (Typing' <=> Typing) /\ (Unserved' <=> Unserved)
  <2>1. Typing' <=> Typing
    BY <1>5 DEF Typing
  <2>2. Unserved' <=> Unserved
    BY <1>1 DEF Unserved
  <2> QED
    BY <2>1, <2>2
<1>10. OneAtATime' /\ OnePage'
  <2>1. Main' \subseteq Main
    BY <1>1 DEF Main
  <2>2. OneAtATime'
    BY <1>1, <1>5, <1>6, <1>9, <2>1 DEF Patient, OneAtATime, Typing
  <2> QED
    BY <1>1, <1>5, <1>6, <1>7, <2>2 DEF Patient, OnePage
<1>11. CardHasEntries' /\ SavesCurrent'
  BY <1>1, <1>9 DEF Patient, CardHasEntries, SavesCurrent
<1>12. \A q \in requests' : q.kind = "get" => r.kind = "tasks"
  BY <1>1 DEF Patient, OneAtATime, Main
<1>13. ReadsFit'
  <2> SUFFICES ASSUME NEW q \in requests', q.kind = "get"
               PROVE  /\ q.answer \in {Blank, jobCard}
                      /\ q.to = "job" /\ job' # Blank /\ q.sent # Blank => job'.parts = q.sent.parts
                      /\ q.to = "spares" /\ spares' # Blank /\ q.sent # Blank =>
                           spares'.parts = q.sent.parts /\ spares'.bundle = q.sent
                      /\ q.to = "spares" /\ spares' # Blank => ~spares'.dirty
    BY <1>1 DEF ReadsFit
  <2>1. job' = job /\ spares' = spares /\ q \in requests
    BY <1>1, <1>12
  <2> QED
    BY <1>1, <2>1 DEF Patient, ReadsFit
<1>14. PageCurrent'
  <2> SUFFICES ASSUME job' # Blank, spares' = Blank, ~Reading("job")'
               PROVE  job'.parts = entered.parts
    BY <1>1, <1>5 DEF Patient, PageCurrent
  <2>1. job # Blank /\ spares = Blank
    BY <1>5, <1>6
  <2>2. CASE r.kind = "get" /\ r.to = "job"
    <3>1. jobCard.work = entered.work /\ jobCard.parts = entered.parts
      <4>1. Main = {r}
        BY <1>1, <2>2 DEF Patient, OneAtATime, Main
      <4>2. ~Typing /\ ~Unserved
        BY <1>1, <2>2, <4>1 DEF Patient, OneAtATime, Unserved, Main
      <4> QED
        BY <1>1, <4>2 DEF Patient, CardHasEntries
    <3>2. CASE r.answer # r.sent
      BY <1>2, <1>5, <2>1, <2>2, <3>1, <3>2
    <3>3. CASE r.answer = r.sent
      BY <1>1, <1>2, <2>1, <2>2, <3>1, <3>3 DEF Patient, ReadsFit
    <3> QED
      BY <3>2, <3>3
  <2>3. CASE ~(r.kind = "get" /\ r.to = "job")
    <3>1. ~Reading("job")
      BY <1>1, <2>3 DEF Reading
    <3> QED
      BY <1>1, <1>5, <2>1, <2>3, <3>1 DEF Patient, PageCurrent
  <2> QED
    BY <2>2, <2>3
<1>15. SparesCurrent'
  <2> SUFFICES ASSUME spares' # Blank, ~Reading("spares")'
               PROVE  /\ spares'.bundle # Blank
                      /\ spares'.parts = entered.parts /\ spares'.bundle.work = entered.work
    BY <1>1 DEF SparesCurrent
  <2>1. spares # Blank
    BY <1>6
  <2>2. CASE r.kind = "get" /\ r.to = "spares"
    <3>1. jobCard.work = entered.work /\ jobCard.parts = entered.parts
      <4>1. Main = {r}
        BY <1>1, <2>2 DEF Patient, OneAtATime, Main
      <4>2. ~Typing /\ ~Unserved
        BY <1>1, <2>2, <4>1 DEF Patient, OneAtATime, Unserved, Main
      <4> QED
        BY <1>1, <4>2 DEF Patient, CardHasEntries
    <3>2. ~spares.dirty /\ jobCard # Blank
      BY <1>1, <2>1, <2>2, BlankAssumption DEF Patient, ReadsFit, ShapesFit
    <3>3. CASE r.answer # r.sent
      BY <1>2, <1>6, <2>1, <2>2, <3>1, <3>2, <3>3
    <3>4. CASE r.answer = r.sent
      BY <1>1, <1>2, <2>1, <2>2, <3>1, <3>2, <3>4 DEF Patient, ReadsFit
    <3> QED
      BY <3>3, <3>4
  <2>3. CASE ~(r.kind = "get" /\ r.to = "spares")
    <3>1. ~Reading("spares")
      BY <1>1, <2>3 DEF Reading
    <3> QED
      BY <1>1, <1>6, <2>1, <2>3, <3>1 DEF Patient, SparesCurrent
  <2> QED
    BY <2>2, <2>3
<1>16. SignedIsDone'
  <2>1. Signing' => Signing
    BY <1>1 DEF Signing
  <2>2. Signing => done' \/ Signing'
    BY <1>1 DEF Signing
  <2>3. spares' # Blank => spares # Blank
    BY <1>6
  <2> QED
    BY <1>1, <1>9, <2>1, <2>2, <2>3 DEF Patient, SignedIsDone
<1> QED
  BY <1>8, <1>10, <1>11, <1>13, <1>14, <1>15, <1>16 DEF Patient

-----------------------------------------------------------------------------
LEMMA CardStep == CardInv /\ [CardNext]_cardVars => CardInv'
<1> SUFFICES ASSUME CardInv, [CardNext]_cardVars PROVE CardInv'
  OBVIOUS
<1>1. CASE UNCHANGED cardVars
  BY <1>1 DEF cardVars, CardInv, Patient, ShapesFit, OneAtATime, OnePage, CardHasEntries,
     SavesCurrent, ReadsFit, PageCurrent, SparesCurrent, SignedIsDone, Main, Typing, Unserved,
     Reading, Signing
<1>2. ASSUME NEW r \in requests, Unanswered(r)
      PROVE  CardInv'
  BY <1>2 DEF Unanswered, CardInv
<1>3. CASE Replay
  BY <1>3 DEF Replay, CardInv, Patient, OneAtATime
<1> QED
  BY <1>1, <1>2, <1>3, OpenJobKeeps, EditWorkKeeps, PersistKeeps, OpenSparesKeeps, BookKeeps,
     SignOffKeeps, BackKeeps, LeaveKeeps, AskKeeps, ServeKeeps, AnsweredKeeps DEF CardNext

(* Neither editor's whole-card save writes an older copy of the other's    *)
(* part over it, as long as nothing is done before the last answer came    *)
(* (wo/[id].tsx persist, spares/[id].tsx addPart, app_job_card_save).      *)
THEOREM PatienceKeepsEntries == CardSpec => []EntriesKept
<1>1. CardInv => EntriesKept
  BY DEF CardInv, EntriesKept, Patient, CardHasEntries, Calm, Typing, Unserved
<1> QED
  BY <1>1, InitCard, CardStep, PTL DEF CardSpec
================================================================================
