------------------------------ MODULE ReadSync -------------------------------
(***************************************************************************)
(* The OnKey read sync (workorders/onkey_sync.py, routers/onkey.py): work  *)
(* orders are exported from OnKey, kept as raw snapshots, and mined into   *)
(* the register the app's work list is seeded from.                        *)
(*                                                                         *)
(* Five lanes do it.  Three re-read a window of dates, one ("delta") asks  *)
(* a probe whether anything moved and reads on from a cursor, one derives  *)
(* the register from what is stored.  Each is single-flight, but nothing   *)
(* in this code keeps two different lanes apart.  (A derive run is inline, *)
(* without the flag, and may meet another of its kind: not modelled.)      *)
(***************************************************************************)
EXTENDS Integers, FiniteSets

CONSTANTS
  NumOrders,   \* OnKey's work orders, by their Id
  Cap,         \* onkey_max_records: the rows of one page
  Overlap,     \* DELTA_OVERLAP, on OnKey's clock
  Lag,         \* the longest OnKey takes to show an edit it has stamped
  FirstReach,  \* DELTA_FIRST_RUN_DAYS
  Lanes,       \* the lanes in use
  BandOf,      \* the window each order's date falls in at the start
  MaxEdits, MaxClock, MaxExtras

Orders   == 1 .. NumOrders
Versions == 0 .. NumOrders + MaxEdits    \* 0: no such work order
AllLanes == {"delta", "recent", "incremental", "backfill", "derive"}
Bands    == 0 .. 2

ASSUME SyncBounds ==
  /\ {NumOrders, Cap} \subseteq Nat \ {0}
  /\ Lanes \subseteq AllLanes /\ "delta" \in Lanes
  /\ BandOf \in [Orders -> Bands]
  /\ {FirstReach, MaxEdits, MaxClock, MaxExtras} \subseteq Nat

\* "so clock skew between probe and export can never lose an edit"
ASSUME OverlapAssumption == Overlap \in Nat /\ Lag \in Nat /\ Lag <= Overlap

VARIABLES
  onkey,   \* OnKey: clock, what its exports show, edits stamped but not shown
  raw,     \* onkey_woe001: per work order the rows stored and the one seen last
  reg,     \* onkey_workorders: the version each work order's row came from
  cursor,  \* onkey_config.woe_delta_cursor
  lane,    \* the backend's running syncs
  floor,   \* history: how far the first delta run reached back
  extras   \* failures, crashes and runs asked for by hand so far

syncVars == <<onkey, raw, reg, cursor, lane, floor, extras>>

-----------------------------------------------------------------------------
(* OnKey.  An order is dated by its last queue transition; the bands are   *)
(* the windows of the lanes: the last days, the sweep's, anything older.   *)

Nothing == [o \in Orders |-> 0]
NoMark  == -1

Shown(o)     == onkey.ver[o] > 0
Total        == Cardinality({o \in Orders : Shown(o)})
Watermark    == CHOOSE s \in {onkey.stamp[o] : o \in {p \in Orders : Shown(p)}} :
                   \A o \in Orders : Shown(o) => onkey.stamp[o] <= s

EditOrder(o) ==
  /\ \A e \in onkey.open : e.o # o
  /\ onkey.edits < MaxEdits
  /\ \E moved \in BOOLEAN :
       onkey' = [onkey EXCEPT !.edits = @ + 1,
                   !.open = @ \cup {[o |-> o, stamp |-> onkey.now, moved |-> moved]}]
  /\ UNCHANGED <<raw, reg, cursor, lane, floor, extras>>

ShowEdit(e) ==
  /\ e \in onkey.open
  /\ onkey' = [onkey EXCEPT !.open = @ \ {e},
                            !.ver[e.o] = @ + 1,
                            !.stamp[e.o] = e.stamp,
                            !.band[e.o] = IF e.moved \/ ~Shown(e.o) THEN 0 ELSE @]
  /\ UNCHANGED <<raw, reg, cursor, lane, floor, extras>>

OnKeyTick ==
  /\ onkey.now < MaxClock
  /\ \A e \in onkey.open : onkey.now < e.stamp + Lag
  /\ onkey' = [onkey EXCEPT !.now = @ + 1]
  /\ UNCHANGED <<raw, reg, cursor, lane, floor, extras>>

-----------------------------------------------------------------------------
(* A lane at rest and a lane that runs: `next` is the Id or the band the   *)
(* export goes on from, `held` the rows in memory, `pick` what a           *)
(* derivation has read.                                                    *)

AtRest == [pc |-> "idle", since |-> 0, mark |-> NoMark, total |-> 0, next |-> 0,
           held |-> Nothing, more |-> FALSE, derived |-> FALSE,
           pick |-> Nothing]

Running == {m \in Lanes : lane[m].pc # "idle"}

Reach(m) == CASE m = "recent" -> 0 [] m = "incremental" -> 1 [] OTHER -> 2

FirstStep(m) == CASE m = "delta"  -> "probe"
                  [] m = "derive" -> "derive"
                  [] OTHER        -> "fetch"

Scheduled == {"delta", "recent", "incremental"}   \* by pg_cron; the others by hand

(* POST /v1/onkey/sync: refused while the lane runs.                       *)
StartLane(m) ==
  /\ lane[m].pc = "idle"
  /\ lane' = [lane EXCEPT ![m] = [AtRest EXCEPT !.pc = FirstStep(m),
                                                !.next = IF m = "delta" THEN 1 ELSE 0]]
  /\ extras' = IF m \in Scheduled THEN extras ELSE extras + 1
  /\ extras' <= MaxExtras
  /\ UNCHANGED <<onkey, raw, reg, cursor, floor>>

(* The run ends, its outcome is reported, and the lane is free again.      *)
LaneEnds(m) == lane' = [lane EXCEPT ![m] = AtRest]

(* An exception anywhere: what was committed stays, the rest is gone.      *)
LaneFails(m) ==
  /\ lane[m].pc # "idle" /\ extras < MaxExtras
  /\ extras' = extras + 1
  /\ LaneEnds(m)
  /\ UNCHANGED <<onkey, raw, reg, cursor, floor>>

(* The process dies, and every run with it.                                *)
BackendRestarts ==
  /\ Running # {} /\ extras < MaxExtras
  /\ extras' = extras + 1
  /\ lane' = [m \in DOMAIN lane |-> AtRest]
  /\ UNCHANGED <<onkey, raw, reg, cursor, floor>>

-----------------------------------------------------------------------------
(* The delta lane: probe, then pages by Id from the cursor.                *)

Unchanged == /\ cursor.mark # NoMark
             /\ Watermark <= cursor.mark
             /\ Total = cursor.total

Since(mark) == (IF cursor.mark = NoMark THEN mark - FirstReach ELSE cursor.mark) - Overlap

Probe ==
  LET m == "delta" IN
  /\ lane[m].pc = "probe"
  /\ \E o \in Orders : Shown(o)            \* else: "probe returned no watermark"
  /\ IF Unchanged
       THEN LaneEnds(m) /\ UNCHANGED floor
       ELSE /\ lane' = [lane EXCEPT ![m].pc = "fetch", ![m].mark = Watermark,
                                    ![m].total = Total, ![m].since = Since(Watermark)]
            /\ floor' = IF cursor.mark = NoMark THEN Since(Watermark) ELSE floor
  /\ UNCHANGED <<onkey, raw, reg, cursor, extras>>

(* The next page: at most Cap of the orders modified since, by Id.         *)
Page(L) ==
  LET rows == {o \in Orders : o >= L.next /\ Shown(o) /\ onkey.stamp[o] >= L.since}
  IN  {o \in rows : Cardinality({p \in rows : p < o}) < Cap}

LastHeld(L) == CHOOSE o \in Orders :
                 L.held[o] # 0 /\ \A p \in Orders : L.held[p] # 0 => p <= o

FetchPage ==
  LET m == "delta"  L == lane[m]  page == Page(L) IN
  /\ L.pc = "fetch"
  /\ lane' = [lane EXCEPT
       ![m].pc   = IF page = {} THEN "finish" ELSE "store",
       ![m].held = [o \in Orders |-> IF o \in page THEN onkey.ver[o] ELSE 0],
       ![m].more = Cardinality(page) = Cap]
  /\ UNCHANGED <<onkey, raw, reg, cursor, floor, extras>>

(* Bug: the cursor moves to what OnKey holds by now.                       *)
FinishAtLatest ==
  /\ lane["delta"].pc = "finish"
  /\ cursor' = [mark |-> Watermark, total |-> Total]
  /\ LaneEnds("delta")
  /\ UNCHANGED <<onkey, raw, reg, floor, extras>>

(* All pages are in: the cursor moves to what the probe reported before    *)
(* them.  In the same transaction what arrived is seeded into the app's    *)
(* list, which is a copy of the register and not modelled.                 *)
Finish ==
  LET m == "delta"  L == lane[m] IN
  /\ L.pc = "finish"
  /\ cursor' = [mark |-> L.mark, total |-> L.total]
  /\ LaneEnds(m)
  /\ UNCHANGED <<onkey, raw, reg, floor, extras>>

-----------------------------------------------------------------------------
(* The window lanes: chunks of dates, newest first.                        *)

Windowed == {"recent", "incremental", "backfill"}

FetchChunk(m) ==
  LET L == lane[m]
      rows == {o \in Orders : Shown(o) /\ onkey.band[o] = L.next}
  IN
  /\ m \in Windowed
  /\ L.pc = "fetch" /\ L.next <= Reach(m)
  /\ lane' = [lane EXCEPT
       ![m].pc   = IF rows = {} THEN "fetch" ELSE "store",
       ![m].next = IF rows = {} THEN @ + 1 ELSE @,
       ![m].held = [o \in Orders |-> IF o \in rows THEN onkey.ver[o] ELSE 0]]
  /\ UNCHANGED <<onkey, raw, reg, cursor, floor, extras>>

(* No chunk is left.  A wide pass that fetched nothing derives once.       *)
EndWindow(m) ==
  LET L == lane[m] IN
  /\ m \in Windowed
  /\ L.pc = "fetch" /\ L.next > Reach(m)
  /\ IF L.derived \/ m = "recent"
       THEN LaneEnds(m)
       ELSE lane' = [lane EXCEPT ![m].pc = "derive"]
  /\ UNCHANGED <<onkey, raw, reg, cursor, floor, extras>>

-----------------------------------------------------------------------------
(* upsert_rows: new rows are inserted; of the known ones those whose stamp *)
(* is more than an hour old are stamped again.  The row written last was   *)
(* seen last.  The delta and the recent lane derive from no more than the  *)
(* rows they just stored.                                                  *)

FromHeld == {"delta", "recent"}

Stored(o, v) == v \in raw[o].have

\* Bug: a known row is never stamped again.
UpsertNewOnly(r, v, aged) ==
  IF v = 0 \/ v \in r.have THEN r ELSE [have |-> r.have \cup {v}, top |-> v]
Upsert(r, v, aged) ==
  IF v = 0 \/ (v \in r.have /\ ~aged) THEN r
  ELSE [have |-> r.have \cup {v}, top |-> v]

StoreRows(m, aged) ==
  /\ lane[m].pc = "store"
  /\ raw' = [o \in Orders |-> Upsert(raw[o], lane[m].held[o], o \in aged)]
  /\ lane' = [lane EXCEPT ![m].pc = IF m \in FromHeld THEN "write" ELSE "derive",
                          ![m].pick = IF m \in FromHeld THEN lane[m].held ELSE Nothing]
  /\ UNCHANGED <<onkey, reg, cursor, floor, extras>>

Store(m) == \E aged \in SUBSET Orders : StoreRows(m, aged)

-----------------------------------------------------------------------------
(* derive_registers.  A statement reads the raw rows and writes the        *)
(* register's later, so another lane's rows can land in between; the row   *)
(* seen last wins.                                                         *)

DeriveRead(m) ==
  /\ lane[m].pc = "derive"
  /\ lane' = [lane EXCEPT ![m].pc = "write",
                          ![m].pick = [o \in Orders |-> raw[o].top]]
  /\ UNCHANGED <<onkey, raw, reg, cursor, floor, extras>>

DeriveWrite(m) ==
  LET L == lane[m]
      Onward(pc, next) == [L EXCEPT !.pc = pc, !.next = next, !.derived = TRUE,
                                    !.held = Nothing, !.pick = Nothing]
  IN
  /\ L.pc = "write"
  /\ reg' = [o \in Orders |-> IF L.pick[o] # 0 THEN L.pick[o] ELSE reg[o]]
  /\ lane' = [lane EXCEPT ![m] =
       CASE m = "derive"   -> AtRest
         [] m \in Windowed -> Onward("fetch", L.next + 1)
         [] m = "delta"    -> IF L.more THEN Onward("fetch", 1 + LastHeld(L))
                                        ELSE Onward("finish", L.next)]
  /\ UNCHANGED <<onkey, raw, cursor, floor, extras>>

-----------------------------------------------------------------------------
(* A backfill has stored what OnKey had; the delta lane is new.  At most   *)
(* one order may just be under edit, or being created.                     *)
SyncInit ==
  /\ \E e \in SUBSET Orders, v \in [Orders -> {0, 1}] :
       /\ Cardinality(e) <= 1 /\ \A o \in Orders \ e : v[o] = 1
       /\ onkey = [now |-> 0, ver |-> v, stamp |-> Nothing, edits |-> 0, band |-> BandOf,
                   open |-> [o : e, stamp : {0}, moved : {TRUE}]]
       /\ raw = [o \in Orders |-> [have |-> {v[o]} \ {0}, top |-> v[o]]]
       /\ reg = v
  /\ cursor = [mark |-> NoMark, total |-> 0]
  /\ lane = [m \in Lanes |-> AtRest]
  /\ floor = 0
  /\ extras = 0

LaneStep(m) == Store(m) \/ DeriveRead(m) \/ DeriveWrite(m) \/ FetchChunk(m) \/ EndWindow(m)

DeltaStep == Probe \/ FetchPage \/ Finish

SyncNext ==
  \/ \E o \in Orders : EditOrder(o)
  \/ \E e \in onkey.open : ShowEdit(e)
  \/ OnKeyTick
  \/ \E m \in Lanes : StartLane(m) \/ LaneFails(m) \/ LaneStep(m)
  \/ DeltaStep \/ BackendRestarts

SyncSpec == SyncInit /\ [][SyncNext]_syncVars

(* Lanes are kicked over and over and their steps end; hours pass, so now  *)
(* and then a lane finds the row of an order with a stamp an hour old.     *)
SyncFairness ==
  /\ \A m \in Scheduled \cap Lanes : WF_syncVars(StartLane(m))
  /\ \A m \in Lanes : WF_syncVars(LaneStep(m))
  /\ \A m \in Windowed \cap Lanes, o \in Orders :
       SF_syncVars(lane[m].held[o] # 0 /\ StoreRows(m, Orders))
  /\ WF_syncVars(DeltaStep)

SyncLiveSpec == SyncSpec /\ SyncFairness

-----------------------------------------------------------------------------
(* Types.                                                                  *)
SyncTypeOK ==
  /\ onkey.now \in 0 .. MaxClock /\ onkey.edits \in 0 .. MaxEdits
  /\ onkey.ver \in [Orders -> Versions] /\ onkey.stamp \in [Orders -> Nat]
  /\ onkey.band \in [Orders -> Bands]
  /\ onkey.open \subseteq [o : Orders, stamp : Nat, moved : BOOLEAN]
  /\ raw \in [Orders -> [have : SUBSET Versions, top : Versions]]
  /\ reg \in [Orders -> Versions]
  /\ cursor \in [mark : Int, total : Nat]
  /\ floor \in Int /\ extras \in 0 .. MaxExtras

(* "All timestamps live on OnKey's clock ... so clock skew between probe   *)
(* and export can never lose an edit": whatever fails, dies or overlaps,   *)
(* the cursor never passes an edit whose row is not stored by more than    *)
(* the overlap the next fetch goes back - except what the very first run   *)
(* did not reach back for.                                                 *)
CursorKeepsEdits ==
  cursor.mark # NoMark =>
    \A o \in Orders :
      \/ Stored(o, onkey.ver[o])
      \/ onkey.stamp[o] >= cursor.mark - Overlap
      \/ onkey.stamp[o] < floor
      \/ ~Shown(o)

(* When OnKey falls quiet, the register ends up with what OnKey has: the   *)
(* sweeps repair what overlapping lanes, failures and dates that did not   *)
(* move left behind, for every order they reach.                           *)
RegisterCatchesUp ==
  \A o \in Orders : <>[](onkey.band[o] = 2 \/ reg[o] = onkey.ver[o])
=============================================================================
