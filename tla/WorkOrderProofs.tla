--------------------------- MODULE WorkOrderProofs ---------------------------
(***************************************************************************)
(* Theorems of WorkOrder, OnKeyDrain and JobScreen, for any number of      *)
(* connections, reasons, contents and device clocks.                       *)
(*                                                                         *)
(* First what overlapping transactions cannot break: the start of the work *)
(* is recorded once, and a signed job never rests at stopped where no      *)
(* pause hands it back.  Both rest on the types, because the row an UPDATE *)
(* works on is not the row the transaction decided on, and on SealEnds.    *)
(*                                                                         *)
(* Then what needs calls that do not overlap (Alone), because nothing      *)
(* locks what they read: AInv speaks of the lifecycle row and the card,    *)
(* QInv of the queue as a chain of status changes.                         *)
(*                                                                         *)
(* Then the drain beside the calls: DTypes holds whatever overlaps, DFate  *)
(* while one invocation runs at a time (OneRun), the order of the rows     *)
(* (Stamps, HeadPicked) while calls do not overlap either; with AInv they  *)
(* give what OnKey books (BookedLanded).                                   *)
(*                                                                         *)
(* Last the page of the job (ScreenInv): what it shows and what is under   *)
(* way agree with the server while its technician waits for each answer.   *)
(***************************************************************************)
EXTENDS OnKeyDrain, JobScreen, FiniteSetTheorems, TLAPS

EventKnown == \A c \in Callers : tx[c].op = "transition" => tx[c].event \in Events

SealEnds == \A c \in Callers : tx[c].seal # 0 => tx[c].event \in {"stop", "sign_off"}

IInv == TypeOK /\ EventKnown /\ SealEnds

-----------------------------------------------------------------------------
(* The rules.                                                              *)

LEMMA ElapsedNat ==
  ASSUME NEW from \in MaybeTime, NEW to \in Int
  PROVE  Elapsed(from, to) \in Nat
BY NoTimeAssumption DEF Elapsed, MaybeTime

LEMMA ClampInt ==
  ASSUME NEW at \in Int, NEW row \in Lifecycle, NEW start \in Nat
  PROVE  Clamp(at, row, start) \in Int
BY NoTimeAssumption DEF Clamp, Lifecycle, MaybeTime, CreatedAt

LEMMA NoRowType == NoRow \in Lifecycle
BY DEF NoRow, Lifecycle, LifeStates, MaybeTime, NoReason

(* An event leaves a lifecycle row, with the start it had.                 *)
LEMMA ApplyType ==
  ASSUME NEW event \in Events, NEW reason \in Reasons \cup {NoReason},
         NEW cur \in Lifecycle, NEW row \in Lifecycle, NEW at \in Int
  PROVE  Apply(event, reason, cur, row, at) \in Lifecycle
<1>1. at \in MaybeTime /\ NoTime \in MaybeTime
  BY DEF MaybeTime
<1>2. Elapsed(row.pausedAt, at) \in Nat
  BY ElapsedNat DEF Lifecycle
<1>3. FirstStart(row, at) \in MaybeTime
  BY <1>1 DEF FirstStart, Lifecycle
<1>4. NoReason \in Reasons \cup {NoReason}
  OBVIOUS
<1>5. CASE event = "on_the_way"
  BY <1>1, <1>5 DEF Apply, Lifecycle, LifeStates
<1>6. CASE event = "start" /\ cur.state = "paused"
  <2>1. Apply(event, reason, cur, row, at) =
          [row EXCEPT !.state = "started", !.paused = @ + Elapsed(row.pausedAt, at),
                      !.pausedAt = NoTime, !.reason = NoReason, !.last = at]
    BY <1>6 DEF Apply
  <2>2. row.paused + Elapsed(row.pausedAt, at) \in Nat
    BY <1>2 DEF Lifecycle
  <2> QED
    BY <1>1, <1>4, <2>1, <2>2 DEF Lifecycle, LifeStates
<1>7. CASE event = "start" /\ cur.state # "paused"
  BY <1>1, <1>3, <1>7 DEF Apply, Lifecycle, LifeStates
<1>8. CASE event = "pause"
  BY <1>1, <1>8 DEF Apply, Lifecycle, LifeStates
<1>9. CASE event = "stop"
  <2>1. Apply(event, reason, cur, row, at) =
          [row EXCEPT !.state = "stopped", !.stoppedAt = at,
                      !.paused = @ + (IF cur.state = "paused"
                                      THEN Elapsed(row.pausedAt, at) ELSE 0),
                      !.pausedAt = NoTime, !.last = at]
    BY <1>9 DEF Apply
  <2>2. row.paused + (IF cur.state = "paused" THEN Elapsed(row.pausedAt, at) ELSE 0) \in Nat
    BY <1>2 DEF Lifecycle
  <2> QED
    BY <1>1, <2>1, <2>2 DEF Lifecycle, LifeStates
<1>10. CASE event = "sign_off"
  BY <1>1, <1>10 DEF Apply, Lifecycle, LifeStates
<1> QED
  BY <1>5, <1>6, <1>7, <1>8, <1>9, <1>10 DEF Events

LEMMA ApplyKeepsStart ==
  ASSUME NEW event \in Events, NEW reason, NEW cur, NEW row \in Lifecycle, NEW at,
         row.startedAt # NoTime
  PROVE  Apply(event, reason, cur, row, at).startedAt = row.startedAt
BY DEF Apply, Lifecycle, Events, FirstStart

LEMMA ApplyState ==
  ASSUME NEW event \in Events, NEW reason, NEW cur, NEW row \in Lifecycle, NEW at
  PROVE  /\ event = "sign_off" => Apply(event, reason, cur, row, at).state = "signed_off"
         /\ event # "stop" => Apply(event, reason, cur, row, at).state # "stopped"
BY DEF Apply, Lifecycle, Events

-----------------------------------------------------------------------------
(* The queue.                                                              *)

LEMMA CodesType ==
  ASSUME NEW event \in Events, NEW reason
  PROVE  Codes(event, reason) \in {<<>>, <<"WOR">>, <<"WPA">>, <<"WPA", "LSI">>, <<"WST">>,
                                   <<"WOS">>}
BY DEF Codes, Events

LEMMA CodesKnown ==
  ASSUME NEW event \in Events, NEW reason
  PROVE  LET codes == Codes(event, reason) IN
         /\ codes \in Seq(StatusCodes)
         /\ DOMAIN codes \subseteq {1, 2}
         /\ 2 \in DOMAIN codes => codes = <<"WPA", "LSI">>
<1> DEFINE codes == Codes(event, reason)
<1> SUFFICES /\ codes \in Seq(StatusCodes)
             /\ DOMAIN codes \subseteq {1, 2}
             /\ 2 \in DOMAIN codes => codes = <<"WPA", "LSI">>
  OBVIOUS
<1>0. codes \in {<<>>, <<"WOR">>, <<"WPA">>, <<"WPA", "LSI">>, <<"WST">>, <<"WOS">>}
  BY CodesType
<1> HIDE DEF codes
<1>1. CASE codes = <<>>
  BY <1>1
<1>2. CASE codes \in {<<"WOR">>, <<"WPA">>, <<"WST">>, <<"WOS">>}
  <2>1. PICK code \in {"WOR", "WPA", "WST", "WOS"} : codes = <<code>>
    BY <1>2
  <2>2. DOMAIN codes = {1}
    BY <2>1
  <2> QED
    BY <2>1, <2>2 DEF StatusCodes
<1>3. CASE codes = <<"WPA", "LSI">>
  BY <1>3 DEF StatusCodes
<1> QED
  BY <1>0, <1>1, <1>2, <1>3

LEMMA HopRowsType ==
  ASSUME NEW event \in Events, NEW reason \in Reasons \cup {NoReason},
         NEW start \in StatusCodes, NEW created \in Nat
  PROVE  HopRows(event, reason, start, created) \in Seq(Row)
<1> DEFINE codes == Codes(event, reason)
<1>1. /\ codes \in Seq(StatusCodes)
      /\ DOMAIN codes \subseteq {1, 2}
      /\ 2 \in DOMAIN codes => codes = <<"WPA", "LSI">>
  BY CodesKnown
<1> HIDE DEF codes
<1>3. ASSUME NEW i \in DOMAIN codes
      PROVE  /\ codes[i] \in StatusCodes
             /\ i # 1 => codes[i - 1] \in StatusCodes
  <2>1. codes[i] \in StatusCodes
    BY <1>1
  <2>2. i # 1 => i = 2 /\ codes = <<"WPA", "LSI">>
    BY <1>1
  <2> QED
    BY <2>1, <2>2 DEF StatusCodes
<1> DEFINE row(i) == [kind |-> "status_change", event |-> event,
                      from |-> IF i = 1 THEN start ELSE codes[i - 1], to |-> codes[i],
                      content |-> 0, created |-> created, seq |-> i,
                      state |-> "pending", attempts |-> 0, hold |-> FALSE]
<1>4. ASSUME NEW i \in DOMAIN codes
      PROVE  row(i) \in Row
  <2>1. i \in {1, 2}
    BY <1>1
  <2>2. (IF i = 1 THEN start ELSE codes[i - 1]) \in StatusCodes
    BY <1>3
  <2>3. codes[i] \in StatusCodes
    BY <1>3
  <2> QED
    BY <2>1, <2>2, <2>3 DEF Row, Events
<1>5. HopRows(event, reason, start, created) = [i \in DOMAIN codes |-> row(i)]
  BY DEF HopRows, codes
<1> HIDE DEF row
<1>6. DOMAIN codes = 1 .. Len(codes) /\ Len(codes) \in Nat
  BY <1>1
<1> QED
  BY <1>4, <1>5, <1>6

LEMMA CostingType ==
  ASSUME NEW content \in Nat, NEW created \in Nat, NEW costing \in CostingRows(content, created)
  PROVE  costing \in Seq(Row)
<1>1. CASE costing = <<>>
  BY <1>1
<1>2. CASE costing # <<>>
  <2>1. PICK s \in {"pending", "blocked"} : costing = <<CostingRow(content, created, s)>>
    BY <1>2, HasVanAssumption DEF CostingRows
  <2>2. CostingRow(content, created, s) \in Row
    BY DEF CostingRow, Row
  <2> QED
    BY <2>1, <2>2
<1> QED
  BY <1>1, <1>2

LEMMA StartType ==
  ASSUME NEW q \in Seq(Row), NEW code \in StatusCodes, NEW s \in StartStatuses(q, code)
  PROVE  s \in StatusCodes
<1>1. ASSUME NEW i \in Latest(q)
      PROVE  q[i].to \in StatusCodes \cup {NoCode}
  <2>1. i \in DOMAIN q
    BY DEF Latest, Unfinished
  <2>2. q[i] \in Row
    BY <2>1
  <2> QED
    BY <2>2 DEF Row
<1> QED
  BY <1>1 DEF StartStatuses

-----------------------------------------------------------------------------
(* The transactions.                                                       *)

LEMMA IdleType == Idle \in Tx /\ Idle.op = "idle" /\ Idle.seal = 0
BY NoRowType DEF Idle, Tx, StatusCodes, NoReason, CreatedAt

LEMMA InitIInv == Init => IInv
BY IdleType, NoRowType, MaxNowAssumption
   DEF Init, IInv, TypeOK, EventKnown, SealEnds, CreatedAt, NoCard, Card, StatusCodes

(* A transaction that reads: only its connection and the clock move.       *)
LEMMA BeginKeeps ==
  ASSUME IInv, NEW c \in Callers, NEW t \in Tx, Begin(c, t),
         t.op = "transition" => t.event \in Events, t.seal = 0
  PROVE  IInv'
<1>1. PICK skew \in Skews : Run(c, [t EXCEPT !.start = now + 1, !.at = now + 1 + skew])
  BY DEF Begin
<1> DEFINE u == [t EXCEPT !.start = now + 1, !.at = now + 1 + skew]
<1>2. now \in Nat /\ now + 1 \in Nat /\ now + 1 + skew \in Int
  BY SkewsAssumption, MaxNowAssumption DEF IInv, TypeOK, CreatedAt
<1>3. u \in Tx /\ u.op = t.op /\ u.event = t.event /\ u.seal = t.seal
  BY <1>2 DEF Tx
<1>4. tx' = [tx EXCEPT ![c] = u]
  BY <1>1 DEF Run
<1> HIDE DEF u
<1>5. TypeOK'
  <2>1. now' \in CreatedAt .. MaxNow
    BY MaxNowAssumption DEF IInv, TypeOK, Begin, CreatedAt
  <2>2. tx' \in [Callers -> Tx]
    BY <1>3, <1>4 DEF IInv, TypeOK
  <2> QED
    BY <2>1, <2>2 DEF IInv, TypeOK, Begin
<1>6. EventKnown' /\ SealEnds'
  BY <1>3, <1>4 DEF IInv, TypeOK, EventKnown, SealEnds
<1> QED
  BY <1>5, <1>6 DEF IInv

(* A transaction that ends.                                                *)
LEMMA IdleKeeps ==
  ASSUME IInv, NEW c \in Callers, Run(c, Idle),
         now' \in CreatedAt .. MaxNow, lc' \in Lifecycle, card' \in Card,
         mirror' \in StatusCodes, outbox' \in Seq(Row)
  PROVE  IInv'
<1>1. tx' = [tx EXCEPT ![c] = Idle]
  BY DEF Run
<1>2. TypeOK'
  BY <1>1, IdleType DEF IInv, TypeOK
<1>3. EventKnown' /\ SealEnds'
  BY <1>1, IdleType DEF IInv, TypeOK, EventKnown, SealEnds
<1> QED
  BY <1>2, <1>3 DEF IInv

LEMMA ConcatType ==
  ASSUME NEW q \in Seq(Row), NEW r \in Seq(Row)
  PROVE  q \o r \in Seq(Row)
OBVIOUS

LEMMA TransitionReadKeeps ==
  ASSUME IInv, NEW c \in Callers, TransitionRead(c)
  PROVE  IInv'
<1>1. PICK event \in {"on_the_way", "start", "pause", "stop"},
           reason \in Reasons \cup {NoReason} :
        Begin(c, [Idle EXCEPT !.op = "transition", !.event = event, !.reason = reason,
                              !.cur = lc, !.mirror = mirror])
  BY DEF TransitionRead
<1> DEFINE t == [Idle EXCEPT !.op = "transition", !.event = event, !.reason = reason,
                             !.cur = lc, !.mirror = mirror]
<1>2. t \in Tx /\ t.event = event /\ t.seal = 0
  BY IdleType DEF Tx, IInv, TypeOK, Events
<1>3. event \in Events
  BY DEF Events
<1> QED
  BY <1>1, <1>2, <1>3, BeginKeeps

LEMMA TransitionCommitType ==
  ASSUME IInv, NEW c \in Callers, TransitionCommit(c)
  PROVE  IInv'
<1> DEFINE t == tx[c]
           at    == Clamp(t.at, t.cur, t.start)
           first == Apply(t.event, t.reason, t.cur, lc, at)
           again == Clamp(at, first, t.start)
           last  == Apply("sign_off", NoReason, first, first, again)
<1>1. /\ t \in Tx /\ t.event \in Events
      /\ lc \in Lifecycle /\ card \in Card /\ mirror \in StatusCodes /\ outbox \in Seq(Row)
  BY DEF IInv, TypeOK, EventKnown, TransitionCommit
<1>2. /\ t.at \in Int /\ t.start \in Nat /\ t.cur \in Lifecycle /\ t.mirror \in StatusCodes
      /\ t.reason \in Reasons \cup {NoReason} /\ t.seal \in Contents \cup {0}
  BY <1>1 DEF Tx
<1> HIDE DEF t
<1>3. at \in Int
  BY <1>2, ClampInt
<1> HIDE DEF at
<1>4. first \in Lifecycle
  BY <1>1, <1>2, <1>3, ApplyType
<1> HIDE DEF first
<1>5. again \in Int
  BY <1>2, <1>3, <1>4, ClampInt
<1> HIDE DEF again
<1>6. last \in Lifecycle
  BY <1>4, <1>5, ApplyType DEF Events
<1> HIDE DEF last
<1>7. lc' \in Lifecycle
  BY <1>4, <1>6 DEF TransitionCommit, t, at, first, again, last
<1>8. card' \in Card
  BY <1>1 DEF TransitionCommit, SealCard, Card
<1>9. outbox' \in Seq(Row)
  <2>1. PICK costing \in Sealed(c) : \E s \in StartStatuses(outbox \o costing, t.mirror) :
          LET queued == outbox \o costing \o HopRows(t.event, t.reason, s, t.start) IN
          IF ~RollsOver(c) THEN outbox' = queued
          ELSE \E s2 \in StartStatuses(queued, mirror) :
                 outbox' = queued \o HopRows("sign_off", NoReason, s2, t.start)
    BY DEF TransitionCommit, t
  <2>2. costing \in Seq(Row)
    <3>1. CASE t.seal = 0
      BY <3>1, <2>1 DEF Sealed, t
    <3>2. CASE t.seal # 0
      <4>1. t.seal \in Nat
        BY <3>2, <1>2, ContentsAssumption
      <4>2. costing \in CostingRows(t.seal, t.start)
        BY <3>2, <2>1 DEF Sealed, t
      <4> QED
        BY <4>1, <4>2, <1>2, CostingType
    <3> QED
      BY <3>1, <3>2
  <2> DEFINE before == outbox \o costing
  <2>3. before \in Seq(Row)
    BY <1>1, <2>2, ConcatType
  <2>4. PICK s \in StartStatuses(before, t.mirror) :
          LET queued == before \o HopRows(t.event, t.reason, s, t.start) IN
          IF ~RollsOver(c) THEN outbox' = queued
          ELSE \E s2 \in StartStatuses(queued, mirror) :
                 outbox' = queued \o HopRows("sign_off", NoReason, s2, t.start)
    BY <2>1
  <2> HIDE DEF before
  <2> DEFINE queued == before \o HopRows(t.event, t.reason, s, t.start)
  <2>5. HopRows(t.event, t.reason, s, t.start) \in Seq(Row)
    <3>1. s \in StatusCodes
      BY <1>2, <2>3, <2>4, StartType
    <3> QED
      BY <3>1, <1>1, <1>2, HopRowsType
  <2>6. queued \in Seq(Row)
    BY <2>3, <2>5, ConcatType
  <2>7. CASE ~RollsOver(c)
    BY <2>4, <2>6, <2>7
  <2>8. CASE RollsOver(c)
    <3>1. PICK s2 \in StartStatuses(queued, mirror) :
            outbox' = queued \o HopRows("sign_off", NoReason, s2, t.start)
      BY <2>4, <2>8
    <3> HIDE DEF queued
    <3>2. s2 \in StatusCodes
      BY <1>1, <2>6, <3>1, StartType
    <3>3. HopRows("sign_off", NoReason, s2, t.start) \in Seq(Row)
      BY <3>2, <1>2, HopRowsType DEF Events
    <3> QED
      BY <3>1, <3>3, <2>6, ConcatType
  <2> QED
    BY <2>7, <2>8
<1>10. Run(c, Idle) /\ UNCHANGED <<now, mirror>>
  BY DEF TransitionCommit
<1>11. now' \in CreatedAt .. MaxNow /\ mirror' \in StatusCodes
  BY <1>10 DEF IInv, TypeOK
<1> QED
  BY <1>7, <1>8, <1>9, <1>10, <1>11, IdleKeeps

LEMMA StandDownReadKeeps ==
  ASSUME IInv, NEW c \in Callers, StandDownRead(c)
  PROVE  IInv'
<1> DEFINE t == [Idle EXCEPT !.op = "stand_down"]
<1>1. t \in Tx /\ t.op = "stand_down" /\ t.seal = 0
  BY IdleType DEF Tx
<1> QED
  BY <1>1, BeginKeeps DEF StandDownRead

LEMMA StandDownCommitKeeps ==
  ASSUME IInv, NEW c \in Callers, StandDownCommit(c)
  PROVE  IInv'
<1>1. tx[c] \in Tx /\ lc \in Lifecycle
  BY DEF IInv, TypeOK
<1>2. (IF tx[c].at > tx[c].start THEN tx[c].start ELSE tx[c].at) \in MaybeTime
  BY <1>1 DEF Tx, MaybeTime
<1>3. lc' \in Lifecycle
  BY <1>1, <1>2 DEF StandDownCommit, Lifecycle, LifeStates
<1> QED
  BY <1>3, IdleKeeps DEF StandDownCommit, IInv, TypeOK

LEMMA SaveReadKeeps ==
  ASSUME IInv, NEW c \in Callers, SaveRead(c)
  PROVE  IInv'
<1>1. PICK content \in Contents : Begin(c, [Idle EXCEPT !.op = "save", !.content = content])
  BY DEF SaveRead
<1> DEFINE t == [Idle EXCEPT !.op = "save", !.content = content]
<1>2. t \in Tx /\ t.op = "save" /\ t.seal = 0
  BY IdleType DEF Tx
<1> QED
  BY <1>1, <1>2, BeginKeeps

LEMMA SaveCommitKeeps ==
  ASSUME IInv, NEW c \in Callers, SaveCommit(c)
  PROVE  IInv'
<1>1. card' \in Card
  BY DEF SaveCommit, IInv, TypeOK, Card, Tx
<1> QED
  BY <1>1, IdleKeeps DEF SaveCommit, IInv, TypeOK

LEMMA SignReadKeeps ==
  ASSUME IInv, NEW c \in Callers, SignRead(c)
  PROVE  IInv'
<1> DEFINE t == [Idle EXCEPT !.op = "sign", !.content = card.content, !.cur = lc]
<1>1. t \in Tx /\ t.op = "sign" /\ t.seal = 0
  BY IdleType DEF Tx, IInv, TypeOK, Card
<1> QED
  BY <1>1, BeginKeeps DEF SignRead

(* A seal either ends the transaction or lets it go on as a stop or a      *)
(* sign-off.                                                               *)
LEMMA SealKeeps ==
  ASSUME IInv, NEW c \in Callers, Seal(c)
  PROVE  IInv'
<1> DEFINE t == tx[c]
<1>1. /\ t \in Tx /\ lc \in Lifecycle /\ card \in Card /\ mirror \in StatusCodes
      /\ outbox \in Seq(Row) /\ now \in CreatedAt .. MaxNow
  BY DEF IInv, TypeOK
<1>2. t.content \in Nat /\ t.content \in Contents \cup {0} /\ t.start \in Nat
  <2>1. t.content \in Contents \cup {0} /\ t.start \in Nat
    BY <1>1 DEF Tx
  <2>2. CASE t.content \in Contents
    BY <2>1, <2>2, ContentsAssumption
  <2>3. CASE t.content = 0
    BY <2>1, <2>3
  <2> QED
    BY <2>1, <2>2, <2>3
<1>3. CASE HandedBack(t.cur)
  <2>1. /\ card' = [card EXCEPT !.state = "signed"]
        /\ \E costing \in CostingRows(t.content, t.start) : outbox' = outbox \o costing
        /\ Run(c, Idle)
        /\ UNCHANGED <<now, lc, mirror>>
    BY <1>3 DEF Seal
  <2>2. card' \in Card
    BY <1>1, <2>1 DEF Card
  <2>3. outbox' \in Seq(Row)
    BY <1>1, <1>2, <2>1, CostingType, ConcatType
  <2> QED
    BY <1>1, <2>1, <2>2, <2>3, IdleKeeps
<1>4. CASE ~HandedBack(t.cur)
  <2> DEFINE u == [t EXCEPT !.op = "transition", !.event = SignEvent(t.cur), !.cur = lc,
                            !.mirror = mirror, !.seal = t.content]
  <2>1. tx' = [tx EXCEPT ![c] = u] /\ UNCHANGED <<now, lc, card, mirror, outbox>>
    BY <1>4 DEF Seal, Run
  <2>2. SignEvent(t.cur) \in {"stop", "sign_off"}
    BY DEF SignEvent
  <2>3. u \in Tx /\ u.op = "transition" /\ u.event \in {"stop", "sign_off"}
    BY <1>1, <1>2, <2>2 DEF Tx, Events
  <2> HIDE DEF u
  <2>4. TypeOK'
    BY <2>1, <2>3 DEF IInv, TypeOK
  <2>5. EventKnown' /\ SealEnds'
    BY <2>1, <2>3 DEF IInv, TypeOK, EventKnown, SealEnds, Events
  <2> QED
    BY <2>4, <2>5 DEF IInv
<1> QED
  BY <1>3, <1>4

LEMMA RollBackKeeps ==
  ASSUME IInv, NEW c \in Callers, RollBack(c)
  PROVE  IInv'
BY IdleKeeps DEF RollBack, IInv, TypeOK

LEMMA NextIInv == IInv /\ [Next]_vars => IInv'
<1> SUFFICES ASSUME IInv, [Next]_vars
             PROVE  IInv'
  OBVIOUS
<1>1. CASE UNCHANGED vars
  BY <1>1 DEF vars, IInv, TypeOK, EventKnown, SealEnds
<1>2. ASSUME NEW c \in Callers, TransitionRead(c)
      PROVE  IInv'
  BY <1>2, TransitionReadKeeps
<1>3. ASSUME NEW c \in Callers, TransitionClash(c)
      PROVE  IInv'
  BY <1>3, RollBackKeeps DEF TransitionClash
<1>4. ASSUME NEW c \in Callers, TransitionCommit(c)
      PROVE  IInv'
  BY <1>4, TransitionCommitType
<1>5. ASSUME NEW c \in Callers, StandDownRead(c)
      PROVE  IInv'
  BY <1>5, StandDownReadKeeps
<1>6. ASSUME NEW c \in Callers, StandDownCommit(c)
      PROVE  IInv'
  BY <1>6, StandDownCommitKeeps
<1>7. ASSUME NEW c \in Callers, SaveRead(c)
      PROVE  IInv'
  BY <1>7, SaveReadKeeps
<1>8. ASSUME NEW c \in Callers, SaveCommit(c)
      PROVE  IInv'
  BY <1>8, SaveCommitKeeps
<1>9. ASSUME NEW c \in Callers, SignRead(c)
      PROVE  IInv'
  BY <1>9, SignReadKeeps
<1>10. ASSUME NEW c \in Callers, Seal(c)
       PROVE  IInv'
  BY <1>10, SealKeeps
<1>11. ASSUME NEW c \in Callers, SealRefused(c)
       PROVE  IInv'
  BY <1>11, RollBackKeeps DEF SealRefused
<1> QED
  BY <1>1, <1>2, <1>3, <1>4, <1>5, <1>6, <1>7, <1>8, <1>9, <1>10, <1>11 DEF Next

-----------------------------------------------------------------------------
(* What an event writes on the lifecycle row, by the seal it carries.      *)
LEMMA CommitWrites ==
  ASSUME IInv, NEW c \in Callers, TransitionCommit(c)
  PROVE  /\ lc.startedAt # NoTime => lc'.startedAt = lc.startedAt
         /\ lc'.state = "stopped" => card' = card /\ card.state # "signed"
<1> DEFINE t == tx[c]
           at    == Clamp(t.at, t.cur, t.start)
           first == Apply(t.event, t.reason, t.cur, lc, at)
           again == Clamp(at, first, t.start)
           last  == Apply("sign_off", NoReason, first, first, again)
<1>1. t \in Tx /\ t.event \in Events /\ lc \in Lifecycle
  BY DEF IInv, TypeOK, EventKnown, TransitionCommit
<1>2. /\ t.at \in Int /\ t.start \in Nat /\ t.cur \in Lifecycle
      /\ t.reason \in Reasons \cup {NoReason}
  BY <1>1 DEF Tx
<1>3. t.seal # 0 => t.event \in {"stop", "sign_off"}
  BY DEF IInv, SealEnds
<1>4. first \in Lifecycle
  BY <1>1, <1>2, ClampInt, ApplyType
<1>5. lc' = IF RollsOver(c) THEN last ELSE first
  BY DEF TransitionCommit
<1>6. RollsOver(c) <=> t.event = "stop" /\ (card.state = "signed" \/ t.seal # 0)
  BY DEF RollsOver
<1>7. t.seal = 0 => card' = card
  BY DEF TransitionCommit, SealCard
<1>8. /\ lc.startedAt # NoTime => first.startedAt = lc.startedAt
      /\ t.event = "sign_off" => first.state = "signed_off"
      /\ t.event # "stop" => first.state # "stopped"
  BY <1>1, ApplyKeepsStart, ApplyState
<1>9. /\ first.startedAt # NoTime => last.startedAt = first.startedAt
      /\ last.state = "signed_off"
  BY <1>4, ApplyKeepsStart, ApplyState DEF Events
<1> HIDE DEF t, first, last
<1>10. lc.startedAt # NoTime => lc'.startedAt = lc.startedAt
  BY <1>5, <1>8, <1>9
<1>11. ASSUME lc'.state = "stopped"
       PROVE  card' = card /\ card.state # "signed"
  <2>1. ~RollsOver(c) /\ t.event = "stop"
    BY <1>11, <1>5, <1>8, <1>9
  <2> QED
    BY <2>1, <1>6, <1>7
<1> QED
  BY <1>10, <1>11

(* A step that is no commit of an event moves the row in two ways only: a  *)
(* stand-down, which writes not_started, or not at all.                    *)
LEMMA OthersKeepRow ==
  ASSUME IInv, [Next]_vars, \A c \in Callers : ~TransitionCommit(c)
  PROVE  /\ lc'.startedAt = lc.startedAt
         /\ lc' = lc \/ lc'.state = "not_started"
<1>1. lc \in Lifecycle
  BY DEF IInv, TypeOK
<1>2. ASSUME NEW c \in Callers, StandDownCommit(c)
      PROVE  lc'.startedAt = lc.startedAt /\ lc'.state = "not_started"
  BY <1>1, <1>2 DEF StandDownCommit, Lifecycle
<1>3. ASSUME NEW c \in Callers, Seal(c)
      PROVE  lc' = lc
  BY <1>3 DEF Seal
<1> QED
  BY <1>2, <1>3 DEF Next, vars, TransitionRead, TransitionClash, StandDownRead, SaveRead,
                    SaveCommit, SignRead, SealRefused, Begin, RollBack

(* Without a pause that hands the job back, only a commit that ends at     *)
(* signed_off makes a card signed.                                         *)
LEMMA OthersKeepUnsigned ==
  ASSUME IInv, [Next]_vars, Blocking = {}, \A c \in Callers : ~TransitionCommit(c)
  PROVE  card'.state = "signed" => card.state = "signed"
<1>1. ASSUME NEW c \in Callers, SaveCommit(c)
      PROVE  card'.state = "signed" => card.state = "signed"
  BY <1>1 DEF SaveCommit
<1>2. ASSUME NEW c \in Callers, Seal(c)
      PROVE  card' = card
  BY <1>2 DEF Seal, HandedBack
<1> QED
  BY <1>1, <1>2 DEF Next, vars, TransitionRead, TransitionClash, StandDownRead, SaveRead,
                    StandDownCommit, SignRead, SealRefused, Begin, RollBack

-----------------------------------------------------------------------------
(* The rows, the queue and the transactions keep their types: every queued *)
(* write has a status OnKey knows or none, whatever the calls.             *)
THEOREM WorkOrderTypes == Spec => []TypeOK
<1>1. IInv => TypeOK
  BY DEF IInv
<1> QED
  BY InitIInv, NextIInv, <1>1, PTL DEF Spec

(* The start of the work is recorded once (108's coalesce), however many   *)
(* calls overlap and whatever their clocks say.                            *)
THEOREM StartRecordedOnce == Spec => StartKept
<1>1. IInv /\ [Next]_vars => (lc.startedAt # NoTime => lc'.startedAt = lc.startedAt)
  BY CommitWrites, OthersKeepRow
<1>2. IInv /\ [Next]_vars => [lc.startedAt # NoTime => lc'.startedAt = lc.startedAt]_vars
  BY <1>1
<1> QED
  BY InitIInv, NextIInv, <1>2, PTL DEF Spec, StartKept

(* Complete lands the job in its final state (108): where no pause hands   *)
(* the job back, a signed job is never left stopped, though the stop and   *)
(* the signature decide on rows they have not locked.                      *)
THEOREM SignedNeverStopped == Spec => []StopRollsOver
<1>1. Init => StopRollsOver
  BY DEF Init, NoCard, StopRollsOver
<1>2. IInv /\ StopRollsOver /\ [Next]_vars => StopRollsOver'
  <2> SUFFICES ASSUME IInv, StopRollsOver, [Next]_vars, Blocking = {},
                      card'.state = "signed", lc'.state = "stopped"
               PROVE  FALSE
    BY DEF StopRollsOver
  <2>1. CASE \E c \in Callers : TransitionCommit(c)
    BY <2>1, CommitWrites
  <2>2. CASE \A c \in Callers : ~TransitionCommit(c)
    <3>1. lc' = lc /\ card.state = "signed"
      BY <2>2, OthersKeepRow, OthersKeepUnsigned
    <3> QED
      BY <3>1 DEF StopRollsOver
  <2> QED
    BY <2>1, <2>2
<1> QED
  BY InitIInv, NextIInv, <1>1, <1>2, PTL DEF Spec


-----------------------------------------------------------------------------
(* Calls one after another.                                                *)
(*                                                                         *)
(* Nothing locks what a call decides on, so the rest of what the work      *)
(* order promises holds when its calls do not overlap: then what a call    *)
(* read is what it finds (ReadsCurrent).                                   *)

Alone == \A c, d \in Callers : tx[c].op # "idle" /\ tx[d].op # "idle" => c = d

(* A running call t decided on the lifecycle row and the card as they are, *)
(* at the clock's time n.                                                  *)
Current(t, row, kard, n) ==
  /\ t.op = "transition" =>
       /\ t.cur = row /\ Allowed(t.event, row)
       /\ t.seal = 0 => t.event # "sign_off"
       /\ t.seal # 0 => t.seal = kard.content /\ kard.state = "draft"
  /\ t.op = "sign" => t.cur = row /\ kard.state = "draft" /\ t.content = kard.content
  /\ t.op = "save" => kard.state # "signed" /\ t.content \in Contents
  /\ t.op = "stand_down" => row.state = "on_the_way"
  /\ t.op # "idle" => t.start = n

ReadsCurrent == \A c \in Callers : Current(tx[c], lc, card, now)

DraftFilled == card.state = "draft" => card.content \in Contents

(* The times of a lifecycle row at time n: the work and its pauses fit     *)
(* into what lies between its start and its last event.                    *)
Timed(row, n) ==
  /\ row.last # NoTime => row.last <= n
  /\ row.state \in {"absent", "not_started", "on_the_way"} =>
       row.startedAt = NoTime /\ row.paused = 0
  /\ row.startedAt # NoTime =>
       /\ row.state \in {"started", "paused"} =>
            row.last # NoTime /\ row.startedAt + row.paused <= row.last
       /\ row.state = "paused" => row.pausedAt = row.last
       /\ row.state \in {"stopped", "signed_off"} =>
            row.stoppedAt # NoTime /\ row.startedAt + row.paused <= row.stoppedAt

TimesFit == Timed(lc, now)

(* The costings of a queue: none before the signature, then one at most.   *)
CostingsIn(q) == {i \in DOMAIN q : q[i].kind = "work_task_spares"}
Books(q, kard) ==
  \/ CostingsIn(q) = {}
  \/ /\ kard.state = "signed"
     /\ \E i \in CostingsIn(q) : CostingsIn(q) = {i} /\ q[i].content = kard.content

AInv ==
  /\ ReadsCurrent
  /\ DraftFilled
  /\ TimesFit
  /\ SealFinishes
  /\ Books(outbox, card)

(* The clamp: an event is no earlier than the one before it and no later   *)
(* than the call that reports it.                                          *)
LEMMA ClampOrders ==
  ASSUME NEW at \in Int, NEW row \in Lifecycle, NEW n \in Nat, Timed(row, n)
  PROVE  /\ Clamp(at, row, n) \in Int
         /\ Clamp(at, row, n) <= n
         /\ row.last # NoTime => row.last <= Clamp(at, row, n)
BY NoTimeAssumption DEF Clamp, Lifecycle, MaybeTime, CreatedAt, Timed

LEMMA ApplyTimes ==
  ASSUME NEW event \in Events, NEW reason \in Reasons \cup {NoReason},
         NEW row \in Lifecycle, NEW n \in Nat, NEW at \in Int, at <= n,
         row.last # NoTime => row.last <= at, Allowed(event, row), Timed(row, n)
  PROVE  Timed(Apply(event, reason, row, row, at), n)
<1>1. /\ row.state \in LifeStates \cup {"absent"} /\ row.paused \in Nat
      /\ row.startedAt \in MaybeTime /\ row.last \in MaybeTime
      /\ row.pausedAt \in MaybeTime /\ row.stoppedAt \in MaybeTime
  BY DEF Lifecycle
<1>2. at # NoTime
  BY NoTimeAssumption
<1>3. row.startedAt # NoTime => row.startedAt \in Int
  BY <1>1 DEF MaybeTime
<1>4. row.last # NoTime => row.last \in Int
  BY <1>1 DEF MaybeTime
<1> DEFINE new == Apply(event, reason, row, row, at)
<1> SUFFICES Timed(new, n)
  OBVIOUS
<1> HIDE DEF new
<1>5. CASE event = "on_the_way"
  <2>1. new = [row EXCEPT !.state = "on_the_way", !.last = at]
    BY <1>5 DEF Apply, new
  <2>2. /\ new.state = "on_the_way" /\ new.last = at /\ new.startedAt = row.startedAt
        /\ new.paused = row.paused
    BY <2>1 DEF Lifecycle
  <2>3. row.state \in {"absent", "not_started"}
    BY <1>5, <1>1 DEF Allowed, StateOf
  <2> QED
    BY <2>2, <2>3 DEF Timed
<1>6. CASE event = "start" /\ row.state = "paused"
  <2> DEFINE away == Elapsed(row.pausedAt, at)
  <2>1. new = [row EXCEPT !.state = "started", !.paused = @ + away,
                          !.pausedAt = NoTime, !.reason = NoReason, !.last = at]
    BY <1>6 DEF Apply, new
  <2>2. /\ new.state = "started" /\ new.last = at /\ new.startedAt = row.startedAt
        /\ new.paused = row.paused + away
    BY <2>1 DEF Lifecycle
  <2>3. row.startedAt # NoTime => away = at - row.last
    BY <1>6, <1>4 DEF Timed, Elapsed
  <2> HIDE DEF away
  <2>4. row.startedAt # NoTime => row.startedAt + (row.paused + away) <= at
    BY <1>1, <1>3, <1>4, <1>6, <2>3 DEF Timed
  <2> QED
    BY <1>2, <2>2, <2>4 DEF Timed
<1>7. CASE event = "start" /\ row.state # "paused"
  <2>1. new = [row EXCEPT !.state = "started", !.startedAt = FirstStart(row, at), !.last = at]
    BY <1>7 DEF Apply, new
  <2>2. row.startedAt = NoTime /\ row.paused = 0
    BY <1>1, <1>7 DEF Allowed, StateOf, Timed
  <2>3. /\ new.state = "started" /\ new.last = at /\ new.startedAt = at
        /\ new.paused = 0
    BY <2>1, <2>2 DEF Lifecycle, FirstStart
  <2> QED
    BY <1>2, <2>3 DEF Timed
<1>8. CASE event = "pause"
  <2>1. new = [row EXCEPT !.state = "paused", !.pausedAt = at, !.reason = reason, !.last = at]
    BY <1>8 DEF Apply, new
  <2>2. /\ new.state = "paused" /\ new.last = at /\ new.startedAt = row.startedAt
        /\ new.paused = row.paused /\ new.pausedAt = at
    BY <2>1 DEF Lifecycle
  <2>3. row.startedAt # NoTime => row.state = "started"
    BY <1>1, <1>8 DEF Allowed, StateOf, Timed
  <2>4. row.startedAt # NoTime => row.startedAt + row.paused <= at
    BY <1>1, <1>3, <1>4, <2>3 DEF Timed
  <2> QED
    BY <1>2, <2>2, <2>4 DEF Timed
<1>9. CASE event = "stop"
  <2> DEFINE away == IF row.state = "paused" THEN Elapsed(row.pausedAt, at) ELSE 0
  <2>1. new = [row EXCEPT !.state = "stopped", !.stoppedAt = at, !.paused = @ + away,
                          !.pausedAt = NoTime, !.last = at]
    BY <1>9 DEF Apply, new
  <2>2. /\ new.state = "stopped" /\ new.last = at /\ new.startedAt = row.startedAt
        /\ new.paused = row.paused + away /\ new.stoppedAt = at
    BY <2>1 DEF Lifecycle
  <2>3. row.state \in {"started", "paused"}
    BY <1>1, <1>9 DEF Allowed, StateOf
  <2>4. row.startedAt # NoTime =>
          away = IF row.state = "paused" THEN at - row.last ELSE 0
    BY <2>3, <1>4 DEF Timed, Elapsed
  <2> HIDE DEF away
  <2>5. row.startedAt # NoTime => row.startedAt + (row.paused + away) <= at
    BY <1>1, <1>3, <1>4, <2>3, <2>4 DEF Timed
  <2> QED
    BY <1>2, <2>2, <2>5 DEF Timed
<1>10. CASE event = "sign_off"
  <2>1. new = [row EXCEPT !.state = "signed_off", !.last = at]
    BY <1>10 DEF Apply, new
  <2>2. /\ new.state = "signed_off" /\ new.last = at /\ new.startedAt = row.startedAt
        /\ new.paused = row.paused /\ new.stoppedAt = row.stoppedAt
    BY <2>1 DEF Lifecycle
  <2>3. row.state = "stopped"
    BY <1>1, <1>10 DEF Allowed, StateOf
  <2> QED
    BY <2>2, <2>3 DEF Timed
<1> QED
  BY <1>5, <1>6, <1>7, <1>8, <1>9, <1>10 DEF Events


(* Time passing and standing down.                                         *)
LEMMA TimedLater ==
  ASSUME NEW row \in Lifecycle, NEW n \in Nat, NEW k \in Nat, n <= k, Timed(row, n)
  PROVE  Timed(row, k)
BY NoTimeAssumption DEF Timed, Lifecycle, MaybeTime

(* A queue that grows: the rows it had keep their places.                  *)
LEMMA Appended ==
  ASSUME NEW q \in Seq(Row), NEW r \in Seq(Row)
  PROVE  /\ DOMAIN q \subseteq DOMAIN (q \o r)
         /\ \A i \in DOMAIN q : (q \o r)[i] = q[i]
         /\ \A i \in DOMAIN (q \o r) \ DOMAIN q :
              i - Len(q) \in DOMAIN r /\ (q \o r)[i] = r[i - Len(q)]
OBVIOUS

LEMMA NoCostingAdded ==
  ASSUME NEW q \in Seq(Row), NEW r \in Seq(Row), CostingsIn(r) = {}
  PROVE  /\ CostingsIn(q \o r) = CostingsIn(q)
         /\ \A i \in CostingsIn(q) : (q \o r)[i] = q[i]
<1>1. ASSUME NEW i \in DOMAIN (q \o r) \ DOMAIN q
      PROVE  (q \o r)[i].kind # "work_task_spares"
  BY Appended DEF CostingsIn
<1> QED
  BY <1>1, Appended DEF CostingsIn

LEMMA HopsBookNothing ==
  ASSUME NEW event \in Events, NEW reason, NEW start, NEW created
  PROVE  CostingsIn(HopRows(event, reason, start, created)) = {}
BY DEF CostingsIn, HopRows

(* The costing of a signature joins a queue that has none.                 *)
LEMMA CostingBooked ==
  ASSUME NEW q \in Seq(Row), CostingsIn(q) = {}, NEW content \in Nat, NEW created \in Nat,
         NEW costing \in CostingRows(content, created), NEW kard,
         kard.state = "signed", kard.content = content
  PROVE  Books(q \o costing, kard)
<1>0. costing \in Seq(Row)
  BY CostingType
<1>1. CASE costing = <<>>
  BY <1>0, <1>1, NoCostingAdded DEF Books, CostingsIn
<1>2. CASE costing # <<>>
  <2>1. PICK s \in {"pending", "blocked"} : costing = <<CostingRow(content, created, s)>>
    BY <1>2, HasVanAssumption DEF CostingRows
  <2> DEFINE i == Len(q) + 1
             new == q \o costing
             row == CostingRow(content, created, s)
  <2>2. row.kind = "work_task_spares" /\ row.content = content
    BY DEF CostingRow
  <2>3. costing = <<row>>
    BY <2>1
  <2> HIDE DEF row
  <2>4. DOMAIN new = 1 .. Len(q) + 1 /\ new[i] = row /\ DOMAIN q = 1 .. Len(q)
    BY <2>3, <1>0
  <2>5. \A j \in DOMAIN q : new[j] = q[j] /\ q[j].kind # "work_task_spares"
    BY <1>0, Appended DEF CostingsIn
  <2> HIDE DEF new
  <2>6. CostingsIn(new) = {i}
    <3>1. \A j \in DOMAIN new : j # i => j \in DOMAIN q
      BY <2>4
    <3>2. i \in DOMAIN new
      BY <2>4
    <3> QED
      BY <2>2, <2>4, <2>5, <3>1, <3>2 DEF CostingsIn
  <2> QED
    BY <2>2, <2>4, <2>6 DEF Books, new
<1> QED
  BY <1>1, <1>2

LEMMA BooksMore ==
  ASSUME NEW q \in Seq(Row), NEW r \in Seq(Row), CostingsIn(r) = {}, NEW kard, Books(q, kard)
  PROVE  Books(q \o r, kard)
<1>1. CostingsIn(q \o r) = CostingsIn(q) /\ \A i \in CostingsIn(q) : (q \o r)[i] = q[i]
  BY NoCostingAdded
<1> QED
  BY <1>1 DEF Books

-----------------------------------------------------------------------------
(* The call that ends is the only one: afterwards none is running.         *)
LEMMA NoneRuns ==
  ASSUME IInv, Alone, NEW c \in Callers, tx[c].op # "idle", Run(c, Idle)
  PROVE  \A d \in Callers : tx'[d].op = "idle"
BY IdleType DEF IInv, TypeOK, Alone, Run

LEMMA LastCallEnds ==
  ASSUME IInv, Alone, NEW c \in Callers, tx[c].op # "idle", Run(c, Idle)
  PROVE  ReadsCurrent'
BY NoneRuns DEF ReadsCurrent, Current

(* The call that begins is the only one.                                   *)
LEMMA FirstCallBegins ==
  ASSUME IInv, AInv, Alone', NEW c \in Callers, NEW t \in Tx, Begin(c, t), t.op # "idle",
         \A u \in Tx : /\ u.op = t.op /\ u.event = t.event /\ u.content = t.content
                       /\ u.cur = t.cur /\ u.seal = t.seal /\ u.start = now'
                       => Current(u, lc', card', now')
  PROVE  AInv'
<1>1. PICK skew \in Skews : Run(c, [t EXCEPT !.start = now + 1, !.at = now + 1 + skew])
  BY DEF Begin
<1> DEFINE u == [t EXCEPT !.start = now + 1, !.at = now + 1 + skew]
<1>2. now \in Nat /\ now + 1 \in Nat /\ now + 1 + skew \in Int /\ now' = now + 1
  BY SkewsAssumption, MaxNowAssumption DEF IInv, TypeOK, CreatedAt, Begin
<1>3. /\ u \in Tx /\ u.op = t.op /\ u.event = t.event /\ u.content = t.content
      /\ u.cur = t.cur /\ u.seal = t.seal /\ u.start = now'
  BY <1>2 DEF Tx
<1> HIDE DEF u
<1>4. tx' = [tx EXCEPT ![c] = u]
  BY <1>1 DEF Run, u
<1>5. UNCHANGED <<lc, card, mirror, outbox>>
  BY DEF Begin
<1>6. Current(u, lc', card', now')
  BY <1>3
<1>7. ReadsCurrent'
  <2>1. tx'[c] = u /\ \A d \in Callers : d # c => tx'[d].op = "idle"
    BY <1>3, <1>4 DEF IInv, TypeOK, Alone
  <2>2. \A d \in Callers : d # c => Current(tx'[d], lc', card', now')
    BY <2>1 DEF Current
  <2>3. Current(tx'[c], lc', card', now')
    BY <1>6, <2>1
  <2> QED
    BY <2>2, <2>3 DEF ReadsCurrent
<1>8. TimesFit'
  BY <1>2, <1>5, TimedLater DEF AInv, TimesFit, IInv, TypeOK
<1> QED
  BY <1>5, <1>7, <1>8 DEF AInv, DraftFilled, SealFinishes, HandedBack


(* The calls that read.                                                    *)
LEMMA ReadsAlone ==
  ASSUME IInv, AInv, Alone', NEW c \in Callers,
         TransitionRead(c) \/ StandDownRead(c) \/ SaveRead(c) \/ SignRead(c)
  PROVE  AInv'
<1>0. UNCHANGED <<lc, card>>
  BY DEF TransitionRead, StandDownRead, SaveRead, SignRead, Begin
<1>1. CASE TransitionRead(c)
  <2>1. PICK event \in {"on_the_way", "start", "pause", "stop"},
             reason \in Reasons \cup {NoReason} :
          /\ Allowed(event, lc)
          /\ Begin(c, [Idle EXCEPT !.op = "transition", !.event = event, !.reason = reason,
                                   !.cur = lc, !.mirror = mirror])
    BY <1>1 DEF TransitionRead
  <2> DEFINE t == [Idle EXCEPT !.op = "transition", !.event = event, !.reason = reason,
                               !.cur = lc, !.mirror = mirror]
  <2>2. /\ t \in Tx /\ t.op = "transition" /\ t.event = event /\ t.seal = 0 /\ t.cur = lc
        /\ event # "sign_off"
    BY IdleType DEF Tx, IInv, TypeOK, Events
  <2>3. Begin(c, t)
    BY <2>1
  <2> HIDE DEF t
  <2> QED
    BY <1>0, <2>1, <2>2, <2>3, FirstCallBegins DEF Current
<1>2. CASE StandDownRead(c)
  <2> DEFINE t == [Idle EXCEPT !.op = "stand_down"]
  <2>1. t \in Tx /\ t.op = "stand_down"
    BY IdleType DEF Tx
  <2>2. Begin(c, t) /\ lc.state = "on_the_way"
    BY <1>2 DEF StandDownRead
  <2> HIDE DEF t
  <2> QED
    BY <1>0, <2>1, <2>2, FirstCallBegins DEF Current
<1>3. CASE SaveRead(c)
  <2>1. PICK content \in Contents :
          card.state # "signed" /\ Begin(c, [Idle EXCEPT !.op = "save", !.content = content])
    BY <1>3 DEF SaveRead
  <2> DEFINE t == [Idle EXCEPT !.op = "save", !.content = content]
  <2>2. t \in Tx /\ t.op = "save" /\ t.content = content
    BY IdleType DEF Tx
  <2>3. Begin(c, t)
    BY <2>1
  <2> HIDE DEF t
  <2> QED
    BY <1>0, <2>1, <2>2, <2>3, FirstCallBegins DEF Current
<1>4. CASE SignRead(c)
  <2> DEFINE t == [Idle EXCEPT !.op = "sign", !.content = card.content, !.cur = lc]
  <2>1. t \in Tx /\ t.op = "sign" /\ t.content = card.content /\ t.cur = lc
    BY IdleType DEF Tx, IInv, TypeOK, Card
  <2>2. Begin(c, t) /\ card.state = "draft"
    BY <1>4 DEF SignRead
  <2> HIDE DEF t
  <2> QED
    BY <1>0, <2>1, <2>2, FirstCallBegins DEF Current
<1> QED
  BY <1>1, <1>2, <1>3, <1>4

(* An event of a call that runs alone is applied to the row it decided on. *)
LEMMA CommitApplies ==
  ASSUME IInv, AInv, NEW c \in Callers, TransitionCommit(c)
  PROVE  /\ tx[c].start = now /\ tx[c].cur = lc /\ Allowed(tx[c].event, lc)
         /\ tx[c].seal = 0 => tx[c].event # "sign_off" /\ card' = card
         /\ tx[c].seal # 0 => /\ card.state = "draft" /\ card'.state = "signed"
                              /\ card'.content = card.content /\ tx[c].seal = card.content
                              /\ tx[c].event \in {"stop", "sign_off"}
BY DEF AInv, ReadsCurrent, Current, IInv, TypeOK, SealEnds, TransitionCommit, SealCard, Card

LEMMA CommitTimes ==
  ASSUME IInv, AInv, NEW c \in Callers, TransitionCommit(c)
  PROVE  TimesFit'
<1> DEFINE t     == tx[c]
           at    == Clamp(t.at, lc, now)
           first == Apply(t.event, t.reason, lc, lc, at)
           again == Clamp(at, first, now)
           last  == Apply("sign_off", NoReason, first, first, again)
<1>1. /\ t \in Tx /\ t.event \in Events /\ lc \in Lifecycle /\ now \in Nat
  BY MaxNowAssumption DEF IInv, TypeOK, EventKnown, TransitionCommit, CreatedAt
<1>2. t.at \in Int /\ t.reason \in Reasons \cup {NoReason}
  BY <1>1 DEF Tx
<1>3. t.start = now /\ t.cur = lc /\ Allowed(t.event, lc)
  BY CommitApplies
<1>4. lc' = (IF RollsOver(c) THEN last ELSE first) /\ now' = now
  BY <1>3 DEF TransitionCommit
<1>5. RollsOver(c) => t.event = "stop"
  BY DEF RollsOver
<1> HIDE DEF t
<1>6. at \in Int /\ at <= now /\ (lc.last # NoTime => lc.last <= at)
  BY <1>1, <1>2, ClampOrders DEF AInv, TimesFit
<1>7. first \in Lifecycle /\ Timed(first, now)
  BY <1>1, <1>2, <1>3, <1>6, ApplyType, ApplyTimes DEF AInv, TimesFit
<1>8. t.event = "stop" => first.state = "stopped"
  BY <1>1 DEF Apply, Lifecycle
<1> HIDE DEF at, first
<1>9. again \in Int /\ again <= now /\ (first.last # NoTime => first.last <= again)
  BY <1>1, <1>6, <1>7, ClampOrders
<1> HIDE DEF again
<1>10. t.event = "stop" => Timed(last, now)
  <2> SUFFICES ASSUME t.event = "stop"
               PROVE  Timed(last, now)
    OBVIOUS
  <2>1. Allowed("sign_off", first)
    BY <1>8 DEF Allowed, StateOf
  <2>2. NoReason \in Reasons \cup {NoReason} /\ "sign_off" \in Events
    BY DEF Events
  <2> QED
    BY <1>1, <1>7, <1>9, <2>1, <2>2, ApplyTimes
<1> QED
  BY <1>4, <1>5, <1>7, <1>10 DEF TimesFit

LEMMA CommitFinishes ==
  ASSUME IInv, AInv, NEW c \in Callers, TransitionCommit(c)
  PROVE  SealFinishes'
<1> DEFINE t     == tx[c]
           at    == Clamp(t.at, t.cur, t.start)
           first == Apply(t.event, t.reason, t.cur, lc, at)
           again == Clamp(at, first, t.start)
           last  == Apply("sign_off", NoReason, first, first, again)
<1>1. t \in Tx /\ t.event \in Events /\ lc \in Lifecycle
  BY DEF IInv, TypeOK, EventKnown, TransitionCommit
<1>2. /\ Allowed(t.event, lc)
      /\ t.seal = 0 => t.event # "sign_off" /\ card' = card
      /\ t.seal # 0 => t.event \in {"stop", "sign_off"}
  BY CommitApplies
<1>3. lc' = IF RollsOver(c) THEN last ELSE first
  BY DEF TransitionCommit
<1>4. RollsOver(c) <=> t.event = "stop" /\ (card.state = "signed" \/ t.seal # 0)
  BY DEF RollsOver
<1>5. t.event = "sign_off" => first.state = "signed_off"
  BY <1>1, ApplyState
<1>6. first \in Lifecycle
  BY <1>1, ClampInt, ApplyType DEF Tx
<1>7. last.state = "signed_off"
  BY <1>6, ApplyState DEF Events
<1> HIDE DEF t, first, last
<1>8. CASE t.seal # 0
  BY <1>2, <1>3, <1>4, <1>5, <1>7, <1>8 DEF SealFinishes
<1>9. CASE t.seal = 0 /\ card.state = "signed"
  <2>1. lc.state = "signed_off" \/ HandedBack(lc)
    BY <1>9 DEF AInv, SealFinishes
  <2>2. t.event = "stop"
    BY <1>1, <1>2, <1>9, <2>1 DEF Allowed, StateOf, HandedBack, Events
  <2> QED
    BY <1>3, <1>4, <1>7, <1>9, <2>2 DEF SealFinishes
<1>10. CASE t.seal = 0 /\ card.state # "signed"
  BY <1>2, <1>10 DEF SealFinishes
<1> QED
  BY <1>8, <1>9, <1>10


LEMMA TxNumbers ==
  ASSUME NEW t \in Tx
  PROVE  t.start \in Nat /\ t.seal \in Nat
<1>1. t.start \in Nat /\ t.seal \in Contents \cup {0}
  BY DEF Tx
<1>2. CASE t.seal \in Contents
  BY <1>1, <1>2, ContentsAssumption
<1> QED
  BY <1>1, <1>2

LEMMA SealedType ==
  ASSUME NEW c \in Callers, tx[c] \in Tx, NEW costing \in Sealed(c)
  PROVE  costing \in Seq(Row)
<1>1. CASE tx[c].seal = 0
  BY <1>1 DEF Sealed
<1>2. CASE tx[c].seal # 0
  <2>1. costing \in CostingRows(tx[c].seal, tx[c].start)
    BY <1>2 DEF Sealed
  <2> QED
    BY <2>1, TxNumbers, CostingType
<1> QED
  BY <1>1, <1>2

(* What a commit adds to the queue, before its rows' codes matter.         *)
LEMMA CommitQueues ==
  ASSUME IInv, NEW c \in Callers, TransitionCommit(c)
  PROVE  \E costing \in Sealed(c), hops \in Seq(Row) :
           /\ outbox' = (outbox \o costing) \o hops
           /\ CostingsIn(hops) = {}
           /\ costing \in Seq(Row)
<1> DEFINE t == tx[c]
<1>1. /\ t \in Tx /\ t.event \in Events /\ outbox \in Seq(Row) /\ mirror \in StatusCodes
  BY DEF IInv, TypeOK, EventKnown, TransitionCommit
<1>2. /\ t.start \in Nat /\ t.mirror \in StatusCodes
      /\ t.reason \in Reasons \cup {NoReason}
  BY <1>1 DEF Tx
<1>3. PICK costing \in Sealed(c) : \E s \in StartStatuses(outbox \o costing, t.mirror) :
        LET queued == outbox \o costing \o HopRows(t.event, t.reason, s, t.start) IN
        IF ~RollsOver(c) THEN outbox' = queued
        ELSE \E s2 \in StartStatuses(queued, mirror) :
               outbox' = queued \o HopRows("sign_off", NoReason, s2, t.start)
  BY DEF TransitionCommit
<1>4. costing \in Seq(Row)
  BY <1>1, <1>3, SealedType
<1> HIDE DEF t
<1> DEFINE before == outbox \o costing
<1>5. before \in Seq(Row)
  BY <1>1, <1>4, ConcatType
<1>10. PICK s \in StartStatuses(before, t.mirror) :
         LET queued == before \o HopRows(t.event, t.reason, s, t.start) IN
         IF ~RollsOver(c) THEN outbox' = queued
         ELSE \E s2 \in StartStatuses(queued, mirror) :
                outbox' = queued \o HopRows("sign_off", NoReason, s2, t.start)
  BY <1>3
<1> HIDE DEF before
<1> DEFINE hops == HopRows(t.event, t.reason, s, t.start)
<1>6. s \in StatusCodes
  BY <1>2, <1>5, <1>10, StartType
<1>7. hops \in Seq(Row) /\ CostingsIn(hops) = {}
  BY <1>1, <1>2, <1>6, HopRowsType, HopsBookNothing
<1> HIDE DEF hops
<1>8. CASE ~RollsOver(c)
  <2>1. outbox' = before \o hops
    BY <1>8, <1>10 DEF hops
  <2> QED
    BY <2>1, <1>3, <1>4, <1>7 DEF before
<1>9. CASE RollsOver(c)
  <2>1. PICK s2 \in StartStatuses(before \o hops, mirror) :
          outbox' = (before \o hops) \o HopRows("sign_off", NoReason, s2, t.start)
    BY <1>9, <1>10 DEF hops
  <2> DEFINE final == HopRows("sign_off", NoReason, s2, t.start)
  <2>2. before \o hops \in Seq(Row)
    BY <1>5, <1>7, ConcatType
  <2>3. s2 \in StatusCodes
    BY <1>1, <2>1, <2>2, StartType
  <2>4. final \in Seq(Row) /\ CostingsIn(final) = {}
    BY <1>2, <2>3, HopRowsType, HopsBookNothing DEF Events
  <2> HIDE DEF final
  <2>5. (before \o hops) \o final = before \o (hops \o final)
    BY <1>5, <1>7, <2>4
  <2>6. hops \o final \in Seq(Row) /\ CostingsIn(hops \o final) = {}
    BY <1>7, <2>4, ConcatType, NoCostingAdded
  <2>7. outbox' = before \o (hops \o final)
    BY <2>1, <2>5 DEF final
  <2> QED
    BY <2>6, <2>7, <1>3, <1>4 DEF before
<1> QED
  BY <1>8, <1>9

LEMMA CommitBooks ==
  ASSUME IInv, AInv, NEW c \in Callers, TransitionCommit(c)
  PROVE  Books(outbox, card)'
<1> DEFINE t == tx[c]
<1>1. t \in Tx /\ outbox \in Seq(Row) /\ card \in Card
  BY DEF IInv, TypeOK
<1>2. t.start \in Nat /\ t.seal \in Nat
  BY <1>1, TxNumbers
<1>3. PICK costing \in Sealed(c), hops \in Seq(Row) :
        outbox' = (outbox \o costing) \o hops /\ CostingsIn(hops) = {}
        /\ costing \in Seq(Row)
  BY CommitQueues
<1>4. outbox \o costing \in Seq(Row)
  BY <1>1, <1>3, ConcatType
<1>5. Books(outbox \o costing, card')
  <2>1. CASE t.seal = 0
    <3>1. costing = <<>> /\ card' = card
      BY <1>3, <2>1, CommitApplies DEF Sealed
    <3>2. outbox \o costing = outbox
      BY <1>1, <3>1
    <3> QED
      BY <3>1, <3>2 DEF AInv
  <2>2. CASE t.seal # 0
    <3>1. /\ card.state = "draft" /\ card'.state = "signed" /\ card'.content = t.seal
      BY <2>2, CommitApplies
    <3>2. costing \in CostingRows(t.seal, t.start)
      BY <1>3, <2>2 DEF Sealed
    <3>3. CostingsIn(outbox) = {}
      BY <3>1 DEF AInv, Books
    <3> HIDE DEF t
    <3> QED
      BY <1>1, <1>2, <3>1, <3>2, <3>3, CostingBooked
  <2> QED
    BY <2>1, <2>2
<1>6. Books((outbox \o costing) \o hops, card')
  BY <1>3, <1>4, <1>5, BooksMore
<1> QED
  BY <1>3, <1>6

LEMMA CommitAlone ==
  ASSUME IInv, AInv, Alone, NEW c \in Callers, TransitionCommit(c)
  PROVE  AInv'
<1>1. ReadsCurrent'
  BY LastCallEnds DEF TransitionCommit
<1>2. DraftFilled'
  BY CommitApplies DEF AInv, DraftFilled
<1> QED
  BY <1>1, <1>2, CommitTimes, CommitFinishes, CommitBooks DEF AInv

LEMMA StandDownAlone ==
  ASSUME IInv, AInv, Alone, NEW c \in Callers, StandDownCommit(c)
  PROVE  AInv'
<1> DEFINE t  == tx[c]
           at == IF t.at > t.start THEN t.start ELSE t.at
<1>1. t \in Tx /\ lc \in Lifecycle /\ now \in Nat
  BY MaxNowAssumption DEF IInv, TypeOK, CreatedAt
<1>2. lc.state = "on_the_way" /\ t.start = now
  BY DEF AInv, ReadsCurrent, Current, StandDownCommit
<1>3. at \in Int /\ at <= now
  BY <1>1, <1>2 DEF Tx
<1>4. lc' = [lc EXCEPT !.state = "not_started", !.last = at] /\ UNCHANGED <<now, card, outbox>>
  BY DEF StandDownCommit
<1> HIDE DEF at, t
<1>5. lc'.state = "not_started" /\ lc'.last = at /\ lc'.startedAt = lc.startedAt
      /\ lc'.paused = lc.paused
  BY <1>1, <1>4 DEF Lifecycle
<1>6. TimesFit'
  BY <1>2, <1>3, <1>4, <1>5 DEF AInv, TimesFit, Timed
<1>7. card.state # "signed"
  BY <1>2 DEF AInv, SealFinishes, HandedBack
<1>8. ReadsCurrent'
  BY LastCallEnds DEF StandDownCommit
<1> QED
  BY <1>4, <1>6, <1>7, <1>8 DEF AInv, DraftFilled, SealFinishes

LEMMA SaveAlone ==
  ASSUME IInv, AInv, Alone, NEW c \in Callers, SaveCommit(c)
  PROVE  AInv'
<1>1. card.state # "signed" /\ tx[c].content \in Contents
  BY DEF AInv, ReadsCurrent, Current, SaveCommit
<1>2. /\ card'.state # "signed" /\ card'.content \in Contents
      /\ UNCHANGED <<now, lc, mirror, outbox>>
  BY <1>1 DEF SaveCommit
<1>3. ReadsCurrent'
  BY LastCallEnds DEF SaveCommit
<1>4. Books(outbox, card)'
  BY <1>1, <1>2 DEF AInv, Books, CostingsIn
<1> QED
  BY <1>2, <1>3, <1>4 DEF AInv, DraftFilled, SealFinishes, TimesFit

LEMMA RollBackAlone ==
  ASSUME IInv, AInv, Alone, NEW c \in Callers, tx[c].op # "idle", RollBack(c)
  PROVE  AInv'
<1>1. ReadsCurrent'
  BY LastCallEnds DEF RollBack
<1> QED
  BY <1>1 DEF RollBack, AInv, DraftFilled, TimesFit, SealFinishes, HandedBack, Books, CostingsIn

LEMMA SealAlone ==
  ASSUME IInv, AInv, Alone, NEW c \in Callers, Seal(c)
  PROVE  AInv'
<1> DEFINE t == tx[c]
<1>1. t \in Tx /\ card \in Card /\ outbox \in Seq(Row) /\ t.op = "sign"
  BY DEF IInv, TypeOK, Seal
<1>2. t.cur = lc /\ card.state = "draft" /\ t.content = card.content /\ t.start = now
  BY <1>1 DEF AInv, ReadsCurrent, Current
<1>3. card.content \in Contents /\ card.content \in Nat /\ card.content # 0
  BY <1>2, ContentsAssumption DEF AInv, DraftFilled
<1>4. t.start \in Nat
  BY <1>1 DEF Tx
<1>5. CostingsIn(outbox) = {}
  BY <1>2 DEF AInv, Books
<1>6. CASE HandedBack(lc)
  <2>1. /\ card' = [card EXCEPT !.state = "signed"]
        /\ \E costing \in CostingRows(t.content, t.start) : outbox' = outbox \o costing
        /\ Run(c, Idle)
        /\ UNCHANGED <<now, lc, mirror>>
    BY <1>2, <1>6 DEF Seal
  <2>2. card'.state = "signed" /\ card'.content = card.content
    BY <1>1, <2>1 DEF Card
  <2>3. ReadsCurrent'
    BY <1>1, <2>1, LastCallEnds
  <2>4. Books(outbox', card')
    BY <1>1, <1>2, <1>3, <1>4, <1>5, <2>1, <2>2, CostingBooked
  <2> QED
    BY <1>6, <2>1, <2>2, <2>3, <2>4 DEF AInv, DraftFilled, TimesFit, SealFinishes, HandedBack
<1>7. CASE ~HandedBack(lc)
  <2> DEFINE u == [t EXCEPT !.op = "transition", !.event = SignEvent(t.cur), !.cur = lc,
                            !.mirror = mirror, !.seal = t.content]
  <2>1. /\ tx' = [tx EXCEPT ![c] = u] /\ UNCHANGED <<now, lc, card, mirror, outbox>>
        /\ Allowed(SignEvent(lc), lc)
    BY <1>2, <1>7 DEF Seal, Run
  <2>2. /\ u.op = "transition" /\ u.event = SignEvent(lc) /\ u.cur = lc
        /\ u.seal = card.content /\ u.start = now
    BY <1>1, <1>2 DEF Tx
  <2> HIDE DEF u
  <2>3. Current(u, lc, card, now)
    BY <1>2, <1>3, <2>1, <2>2 DEF Current
  <2>4. tx'[c] = u /\ \A d \in Callers : d # c => tx'[d] = tx[d]
    BY <2>1 DEF IInv, TypeOK
  <2>5. ReadsCurrent'
    BY <2>1, <2>3, <2>4 DEF AInv, ReadsCurrent
  <2> QED
    BY <2>1, <2>5 DEF AInv, DraftFilled, TimesFit, SealFinishes, HandedBack, Books, CostingsIn
<1> QED
  BY <1>6, <1>7

LEMMA InitAlone == Init => AInv
BY NoTimeAssumption
   DEF Init, AInv, ReadsCurrent, Current, Idle, DraftFilled, TimesFit, Timed, SealFinishes,
       Books, CostingsIn, NoCard, NoRow

LEMMA NextAlone == IInv /\ AInv /\ Alone /\ Alone' /\ [Next]_vars => AInv'
<1> SUFFICES ASSUME IInv, AInv, Alone, Alone', [Next]_vars
             PROVE  AInv'
  OBVIOUS
<1>1. CASE UNCHANGED vars
  BY <1>1 DEF vars, AInv, ReadsCurrent, DraftFilled, TimesFit, SealFinishes, HandedBack,
              Books, CostingsIn
<1>2. ASSUME NEW c \in Callers,
             TransitionRead(c) \/ StandDownRead(c) \/ SaveRead(c) \/ SignRead(c)
      PROVE  AInv'
  BY <1>2, ReadsAlone
<1>3. ASSUME NEW c \in Callers, TransitionClash(c)
      PROVE  AInv'
  BY <1>3, RollBackAlone DEF TransitionClash
<1>4. ASSUME NEW c \in Callers, TransitionCommit(c)
      PROVE  AInv'
  BY <1>4, CommitAlone
<1>5. ASSUME NEW c \in Callers, StandDownCommit(c)
      PROVE  AInv'
  BY <1>5, StandDownAlone
<1>6. ASSUME NEW c \in Callers, SaveCommit(c)
      PROVE  AInv'
  BY <1>6, SaveAlone
<1>7. ASSUME NEW c \in Callers, Seal(c)
      PROVE  AInv'
  BY <1>7, SealAlone
<1>8. ASSUME NEW c \in Callers, SealRefused(c)
      PROVE  AInv'
  BY <1>8, RollBackAlone DEF SealRefused
<1> QED
  BY <1>1, <1>2, <1>3, <1>4, <1>5, <1>6, <1>7, <1>8 DEF Next

(* 109, 110: when the calls of a work order do not overlap, a job whose    *)
(* card the client signed rests at signed_off, or paused if it was handed  *)
(* back; no stop, pause or late signature leaves it anywhere else.         *)
THEOREM SealIsCompletion == Spec /\ []Alone => []SealFinishes
<1>1. AInv => SealFinishes
  BY DEF AInv
<1> QED
  BY InitIInv, NextIInv, InitAlone, NextAlone, <1>1, PTL DEF Spec

(* 067: when the calls do not overlap, OnKey is asked to book the card the *)
(* client signed, once, whatever was saved before and called afterwards.   *)
THEOREM CostedAsSigned == Spec /\ []Alone => []CostingAsSigned
<1>1. IInv /\ AInv => CostingAsSigned
  <2> SUFFICES ASSUME IInv, AInv
               PROVE  CostingAsSigned
    OBVIOUS
  <2>1. Costings = CostingsIn(outbox)
    BY DEF Costings, CostingsIn
  <2>2. CASE Costings = {}
    BY <2>2, FS_EmptySet DEF CostingAsSigned
  <2>3. CASE Costings # {}
    <3>1. PICK i \in Costings : Costings = {i} /\ outbox[i].content = card.content
      BY <2>1, <2>3 DEF AInv, Books
    <3>2. card.state = "signed"
      BY <2>1, <2>3 DEF AInv, Books
    <3>3. Cardinality(Costings) = 1
      BY <3>1, FS_Singleton
    <3> QED
      BY <3>1, <3>2, <3>3 DEF CostingAsSigned
  <2> QED
    BY <2>2, <2>3
<1> QED
  BY InitIInv, NextIInv, InitAlone, NextAlone, <1>1, PTL DEF Spec

(* The SLA clock: when the calls do not overlap, the pauses fit into the   *)
(* work, however the device clocks of an offline pause and resume differ.  *)
THEOREM PausesFit == Spec /\ []Alone => []PausesFitWork
<1>1. IInv /\ AInv => PausesFitWork
  BY NoTimeAssumption
     DEF IInv, TypeOK, AInv, TimesFit, Timed, PausesFitWork, Lifecycle, MaybeTime
<1> QED
  BY InitIInv, NextIInv, InitAlone, NextAlone, <1>1, PTL DEF Spec


-----------------------------------------------------------------------------
(* What the queue tells OnKey.                                             *)
(*                                                                         *)
(* A queue in which the status changes make one chain, read one by one:    *)
(* Chain is HopsChain of any queue, Fine adds the status it ends at.  The  *)
(* start of the next change is looked up in the latest unfinished row, so  *)
(* it is the end of the chain only while the rows are in the drain's order *)
(* (InOrder) and none of them is a costing.                                *)

ChangesIn(q) == {i \in DOMAIN q : q[i].kind = "status_change"}
LastIn(q, is) == IF is = {} THEN "ALC" ELSE q[Max(is)].to

Chain(q) ==
  \A i \in ChangesIn(q) :
    /\ 1 .. i - 1 \subseteq ChangesIn(q) => q[i].from = LastIn(q, 1 .. i - 1)
    /\ q[i].to # LastIn(q, {j \in ChangesIn(q) : j < i})

Fine(q, code) == q \in Seq(Row) /\ Chain(q) /\ LastIn(q, ChangesIn(q)) = code

Plain(q) == \A i \in ChangesIn(q) : q[i].state = "pending" /\ q[i].to \in StatusCodes

InOrder(q) == \A i, j \in DOMAIN q : i < j => Before(q[i], q[j])

Older(q, n) == \A i \in DOMAIN q : q[i].created < n

(* The inductive invariant of the queue.                                   *)
QInv ==
  /\ mirror = "ALC" /\ \A c \in Callers : tx[c].mirror = "ALC"
  /\ Chain(outbox)
  /\ LastIn(outbox, ChangesIn(outbox)) \in StatusesFor(lc.state)
  /\ Plain(outbox)
  /\ lc.state # "signed_off" /\ CostingsIn(outbox) = {} => InOrder(outbox)
  /\ Older(outbox, now + 1)
  /\ (\E c \in Callers : tx[c].op # "idle") => Older(outbox, now)

(* The greatest element of a bounded set of numbers.                       *)
LEMMA MaxIn ==
  ASSUME NEW n \in Nat, NEW S \in SUBSET (1 .. n), S # {}
  PROVE  Max(S) \in S /\ \A m \in S : m <= Max(S)
<1> DEFINE Above == {k + 1 .. n : k \in S}
<1>1. Above \subseteq FiniteSubsetsOf(Nat) /\ Above # {}
  <2>1. \A k \in S : IsFiniteSet(k + 1 .. n) /\ k + 1 .. n \subseteq Nat
    BY FS_Interval
  <2> QED
    BY <2>1 DEF FiniteSubsetsOf
<1>2. PICK least \in Above : \A m \in Above : <<m, least>> \notin StrictSubsetOrdering(Nat)
  BY <1>1, FS_StrictSubsetOrderingWellFounded, WFMin
<1>3. PICK k \in S : least = k + 1 .. n
  OBVIOUS
<1>4. ASSUME NEW m \in S, k < m
      PROVE  FALSE
  <2>1. m + 1 .. n \subseteq k + 1 .. n /\ m + 1 .. n \subseteq Nat /\ k + 1 .. n \subseteq Nat
        /\ m \in k + 1 .. n /\ m \notin m + 1 .. n
    BY <1>4
  <2>2. <<m + 1 .. n, k + 1 .. n>> \in StrictSubsetOrdering(Nat)
    BY <2>1, Zenon DEF StrictSubsetOrdering
  <2>3. m + 1 .. n \in Above
    OBVIOUS
  <2> QED
    BY <1>2, <1>3, <2>2, <2>3
<1>5. \A m \in S : k >= m
  BY <1>4
<1>6. Max(S) \in S /\ \A m \in S : Max(S) >= m
  BY <1>5 DEF Max
<1>7. \A m \in S : m \in Nat
  OBVIOUS
<1> HIDE DEF Above
<1>8. Max(S) \in Nat
  BY <1>6, <1>7
<1> QED
  BY <1>6, <1>7, <1>8

(* A queue grows by a row.                                                 *)
LEMMA RowJoins ==
  ASSUME NEW q \in Seq(Row), NEW row \in Row
  PROVE  /\ q \o <<row>> \in Seq(Row)
         /\ DOMAIN q = 1 .. Len(q) /\ DOMAIN (q \o <<row>>) = 1 .. Len(q) + 1
         /\ (q \o <<row>>)[Len(q) + 1] = row
         /\ \A i \in DOMAIN q : (q \o <<row>>)[i] = q[i]
         /\ ChangesIn(q \o <<row>>) =
              ChangesIn(q) \cup (IF row.kind = "status_change" THEN {Len(q) + 1} ELSE {})
<1> DEFINE new == q \o <<row>>
<1>1. /\ new \in Seq(Row)
      /\ DOMAIN q = 1 .. Len(q) /\ DOMAIN new = 1 .. Len(q) + 1
      /\ new[Len(q) + 1] = row
      /\ \A i \in DOMAIN q : new[i] = q[i]
  OBVIOUS
<1> HIDE DEF new
<1>2. ChangesIn(new) =
        ChangesIn(q) \cup (IF row.kind = "status_change" THEN {Len(q) + 1} ELSE {})
  BY <1>1 DEF ChangesIn
<1> QED
  BY <1>1, <1>2 DEF new

(* The rows a queue had still end where they ended.                        *)
LEMMA LastStays ==
  ASSUME NEW q \in Seq(Row), NEW row \in Row, NEW is \in SUBSET DOMAIN q
  PROVE  LastIn(q \o <<row>>, is) = LastIn(q, is)
<1>1. CASE is = {}
  BY <1>1 DEF LastIn
<1>2. CASE is # {}
  <2>1. is \in SUBSET (1 .. Len(q)) /\ Len(q) \in Nat
    OBVIOUS
  <2>2. Max(is) \in DOMAIN q
    BY <1>2, <2>1, MaxIn
  <2> QED
    BY <1>2, <2>2, RowJoins DEF LastIn
<1> QED
  BY <1>1, <1>2

LEMMA ChainStays ==
  ASSUME NEW q \in Seq(Row), Chain(q), NEW row \in Row, NEW i \in ChangesIn(q)
  PROVE  LET new == q \o <<row>> IN
         /\ 1 .. i - 1 \subseteq ChangesIn(new) => new[i].from = LastIn(new, 1 .. i - 1)
         /\ new[i].to # LastIn(new, {j \in ChangesIn(new) : j < i})
<1> DEFINE new    == q \o <<row>>
           before == {j \in ChangesIn(q) : j < i}
<1>1. i \in 1 .. Len(q) /\ Len(q) \in Nat /\ ChangesIn(q) \subseteq 1 .. Len(q)
  BY DEF ChangesIn
<1>2. new[i] = q[i]
  BY <1>1, RowJoins
<1>3. /\ ChangesIn(q) \subseteq ChangesIn(new)
      /\ ChangesIn(new) \subseteq ChangesIn(q) \cup {Len(q) + 1}
  BY RowJoins
<1> HIDE DEF new
<1>4. {j \in ChangesIn(new) : j < i} = before
  BY <1>1, <1>3
<1>5. 1 .. i - 1 \subseteq DOMAIN q /\ before \subseteq DOMAIN q
  BY <1>1
<1> HIDE DEF before
<1>6. LastIn(new, 1 .. i - 1) = LastIn(q, 1 .. i - 1) /\ LastIn(new, before) = LastIn(q, before)
  BY <1>5, LastStays DEF new
<1>7. 1 .. i - 1 \subseteq ChangesIn(new) => 1 .. i - 1 \subseteq ChangesIn(q)
  BY <1>1, <1>3
<1>8. /\ 1 .. i - 1 \subseteq ChangesIn(q) => q[i].from = LastIn(q, 1 .. i - 1)
      /\ q[i].to # LastIn(q, before)
  BY DEF Chain, before
<1>9. /\ 1 .. i - 1 \subseteq ChangesIn(new) => new[i].from = LastIn(new, 1 .. i - 1)
      /\ new[i].to # LastIn(new, {j \in ChangesIn(new) : j < i})
  BY <1>2, <1>4, <1>6, <1>7, <1>8
<1> QED
  BY <1>9 DEF new

(* A change that starts where the chain ends carries it on; a costing      *)
(* leaves it as it was.                                                    *)
LEMMA ChangeJoins ==
  ASSUME NEW q, NEW code, Fine(q, code), NEW row \in Row, row.kind = "status_change",
         row.to # code, CostingsIn(q) = {} => row.from = code
  PROVE  Fine(q \o <<row>>, row.to)
<1> DEFINE new == q \o <<row>>
           n   == Len(q) + 1
<1>1. q \in Seq(Row) /\ Chain(q) /\ LastIn(q, ChangesIn(q)) = code
  BY DEF Fine
<1>2. /\ new \in Seq(Row) /\ DOMAIN q = 1 .. Len(q) /\ new[n] = row
      /\ ChangesIn(new) = ChangesIn(q) \cup {n}
  BY <1>1, RowJoins
<1>3. /\ Len(q) \in Nat /\ n \in Nat /\ ChangesIn(q) \subseteq DOMAIN q
  BY <1>1 DEF ChangesIn
<1>4. LastIn(new, ChangesIn(q)) = code
  BY <1>1, <1>3, LastStays
<1>5. \A i \in ChangesIn(q) :
        /\ 1 .. i - 1 \subseteq ChangesIn(new) => new[i].from = LastIn(new, 1 .. i - 1)
        /\ new[i].to # LastIn(new, {j \in ChangesIn(new) : j < i})
  BY <1>1, ChainStays
<1> HIDE DEF new
<1>6. {j \in ChangesIn(new) : j < n} = ChangesIn(q)
  BY <1>2, <1>3
<1>7. 1 .. n - 1 \subseteq ChangesIn(new) => row.from = LastIn(new, 1 .. n - 1)
  <2> SUFFICES ASSUME 1 .. n - 1 \subseteq ChangesIn(new)
               PROVE  row.from = LastIn(new, 1 .. n - 1)
    OBVIOUS
  <2>1. 1 .. n - 1 = DOMAIN q /\ n \notin DOMAIN q
    BY <1>2, <1>3
  <2>2. 1 .. n - 1 = ChangesIn(q) /\ DOMAIN q = ChangesIn(q)
    BY <1>2, <1>3, <2>1
  <2>3. CostingsIn(q) = {}
    BY <2>2 DEF CostingsIn, ChangesIn
  <2> QED
    BY <1>4, <2>2, <2>3
<1>8. Chain(new)
  BY <1>2, <1>4, <1>5, <1>6, <1>7 DEF Chain
<1>9. LastIn(new, ChangesIn(new)) = row.to
  <2>1. ChangesIn(new) \in SUBSET (1 .. n) /\ n \in ChangesIn(new)
    BY <1>2, <1>3
  <2>2. Max(ChangesIn(new)) \in 1 .. n /\ n <= Max(ChangesIn(new))
    BY <1>3, <2>1, MaxIn
  <2>3. Max(ChangesIn(new)) = n
    BY <1>3, <2>2
  <2> QED
    BY <1>2, <2>1, <2>3 DEF LastIn
<1> QED
  BY <1>2, <1>8, <1>9 DEF Fine, new

LEMMA CostingJoins ==
  ASSUME NEW q, NEW code, Fine(q, code), NEW content \in Nat, NEW created \in Nat,
         NEW costing \in CostingRows(content, created)
  PROVE  Fine(q \o costing, code) /\ ChangesIn(q \o costing) = ChangesIn(q)
<1>1. q \in Seq(Row) /\ Chain(q) /\ LastIn(q, ChangesIn(q)) = code
  BY DEF Fine
<1>2. CASE costing = <<>>
  BY <1>1, <1>2 DEF Fine
<1>3. CASE costing # <<>>
  <2>1. PICK s \in {"pending", "blocked"} : costing = <<CostingRow(content, created, s)>>
    BY <1>3, HasVanAssumption DEF CostingRows
  <2> DEFINE row == CostingRow(content, created, s)
             new == q \o <<row>>
  <2>2. row \in Row /\ row.kind # "status_change"
    BY DEF CostingRow, Row
  <2> HIDE DEF row
  <2>3. new \in Seq(Row) /\ ChangesIn(new) = ChangesIn(q) /\ ChangesIn(q) \subseteq DOMAIN q
    BY <1>1, <2>2, RowJoins DEF ChangesIn
  <2>4. Chain(new)
    BY <1>1, <2>2, <2>3, ChainStays DEF Chain
  <2>5. LastIn(new, ChangesIn(new)) = code
    BY <1>1, <2>2, <2>3, LastStays
  <2> QED
    BY <2>1, <2>3, <2>4, <2>5 DEF Fine, row
<1> QED
  BY <1>2, <1>3


(* The rows of an event.                                                   *)
HopRow(event, from, to, created, n) ==
  [kind |-> "status_change", event |-> event, from |-> from, to |-> to,
   content |-> 0, created |-> created, seq |-> n,
   state |-> "pending", attempts |-> 0, hold |-> FALSE]

LEMMA HopShape ==
  ASSUME NEW event, NEW reason, NEW start, NEW created, NEW a, NEW b
  PROVE  LET hops == HopRows(event, reason, start, created) IN
         /\ Codes(event, reason) = <<>> => hops = <<>>
         /\ Codes(event, reason) = <<a>> => hops = <<HopRow(event, start, a, created, 1)>>
         /\ Codes(event, reason) = <<a, b>> =>
              hops = <<HopRow(event, start, a, created, 1), HopRow(event, a, b, created, 2)>>
<1> DEFINE codes == Codes(event, reason)
           hops  == HopRows(event, reason, start, created)
           row(i) == HopRow(event, IF i = 1 THEN start ELSE codes[i - 1], codes[i], created, i)
<1> SUFFICES /\ codes = <<>> => hops = <<>>
             /\ codes = <<a>> => hops = <<HopRow(event, start, a, created, 1)>>
             /\ codes = <<a, b>> =>
                  hops = <<HopRow(event, start, a, created, 1),
                           HopRow(event, a, b, created, 2)>>
  OBVIOUS
<1>1. hops = [i \in DOMAIN codes |-> row(i)]
  BY DEF HopRows, HopRow
<1> HIDE DEF hops, codes
<1>2. CASE codes = <<>>
  BY <1>1, <1>2
<1>3. CASE codes = <<a>>
  <2>1. row(1) = HopRow(event, start, a, created, 1)
    BY <1>3
  <2> HIDE DEF row
  <2>2. hops = [i \in 1 .. 1 |-> row(i)]
    BY <1>1, <1>3
  <2> QED
    BY <1>3, <2>1, <2>2
<1>4. CASE codes = <<a, b>>
  <2>1. row(1) = HopRow(event, start, a, created, 1) /\ row(2) = HopRow(event, a, b, created, 2)
    BY <1>4
  <2> HIDE DEF row
  <2>2. hops = [i \in 1 .. 2 |-> row(i)]
    BY <1>1, <1>4
  <2>3. hops = <<row(1), row(2)>>
    BY <2>2
  <2> QED
    BY <1>4, <2>1, <2>3
<1> QED
  BY <1>2, <1>3, <1>4

(* The status an event leaves OnKey told.                                  *)
Told(event, reason, code) ==
  CASE event = "on_the_way" -> code
    [] event = "start"      -> "WOR"
    [] event = "pause"      -> IF reason \in Blocking THEN "LSI" ELSE "WPA"
    [] event = "stop"       -> "WST"
    [] event = "sign_off"   -> "WOS"

LEMMA ConcatLen ==
  ASSUME NEW q \in Seq(Row), NEW r \in Seq(Row)
  PROVE  Len(q \o r) = Len(q) + Len(r)
OBVIOUS

LEMMA TwoRows ==
  ASSUME NEW q \in Seq(Row), NEW a \in Row, NEW b \in Row
  PROVE  (q \o <<a>>) \o <<b>> = q \o <<a, b>>
<1> DEFINE one == q \o <<a>>
           two == <<a, b>>
<1>1. one \in Seq(Row) /\ Len(one) = Len(q) + 1 /\ two \in Seq(Row) /\ Len(two) = 2
  OBVIOUS
<1>2. /\ \A i \in 1 .. Len(q) : one[i] = q[i]
      /\ one[Len(q) + 1] = a /\ two[1] = a /\ two[2] = b
  OBVIOUS
<1> HIDE DEF one, two
<1>3. /\ one \o <<b>> \in Seq(Row) /\ Len(one \o <<b>>) = Len(q) + 2
      /\ \A i \in 1 .. Len(q) + 1 : (one \o <<b>>)[i] = one[i]
      /\ (one \o <<b>>)[Len(q) + 2] = b
  BY <1>1
<1>4. /\ q \o two \in Seq(Row) /\ Len(q \o two) = Len(q) + 2
      /\ \A i \in 1 .. Len(q) : (q \o two)[i] = q[i]
  <2>1. q \o two \in Seq(Row)
    BY <1>1, ConcatType
  <2>2. Len(q \o two) = Len(q) + Len(two)
    BY <1>1, ConcatLen
  <2>3. \A i \in 1 .. Len(q) : (q \o two)[i] = q[i]
    BY <1>1, Appended
  <2> QED
    BY <1>1, <2>1, <2>2, <2>3
<1>5. (q \o two)[Len(q) + 1] = a /\ (q \o two)[Len(q) + 2] = b
  <2>1. /\ Len(q) + 1 \in DOMAIN (q \o two) \ DOMAIN q
        /\ Len(q) + 2 \in DOMAIN (q \o two) \ DOMAIN q
        /\ Len(q) + 1 - Len(q) = 1 /\ Len(q) + 2 - Len(q) = 2
    BY <1>1, <1>4
  <2> QED
    BY <1>1, <1>2, <2>1, Appended
<1>6. \A i \in 1 .. Len(q) + 2 : (one \o <<b>>)[i] = (q \o two)[i]
  BY <1>2, <1>3, <1>4, <1>5
<1>7. one \o <<b>> = q \o two
  BY <1>3, <1>4, <1>6
<1> QED
  BY <1>7 DEF one, two

LEMMA HopsJoin ==
  ASSUME NEW q, NEW code, Fine(q, code), NEW event \in Events,
         NEW reason \in Reasons \cup {NoReason}, NEW start \in StatusCodes, NEW created \in Nat,
         CostingsIn(q) = {} => start = code,
         event = "start" => code # "WOR",
         event = "pause" => code \notin {"WPA", "LSI"},
         event = "stop" => code # "WST",
         event = "sign_off" => code # "WOS"
  PROVE  Fine(q \o HopRows(event, reason, start, created), Told(event, reason, code))
<1> DEFINE codes == Codes(event, reason)
           hops  == HopRows(event, reason, start, created)
           told  == Told(event, reason, code)
<1> SUFFICES Fine(q \o hops, told)
  OBVIOUS
<1>0. q \in Seq(Row)
  BY DEF Fine
<1>1. \/ codes = <<>> /\ told = code
      \/ \E a \in {"WOR", "WPA", "WST", "WOS"} : codes = <<a>> /\ told = a /\ a # code
      \/ codes = <<"WPA", "LSI">> /\ told = "LSI" /\ code \notin {"WPA", "LSI"}
  BY DEF Codes, Told, Events
<1>2. /\ codes = <<>> => hops = <<>>
      /\ \A a : codes = <<a>> => hops = <<HopRow(event, start, a, created, 1)>>
      /\ \A a, b : codes = <<a, b>> =>
           hops = <<HopRow(event, start, a, created, 1), HopRow(event, a, b, created, 2)>>
  BY HopShape
<1> HIDE DEF codes, hops, told
<1>3. CASE codes = <<>> /\ told = code
  BY <1>0, <1>2, <1>3 DEF Fine
<1>4. ASSUME NEW a \in {"WOR", "WPA", "WST", "WOS"}, codes = <<a>>, told = a, a # code
      PROVE  Fine(q \o hops, told)
  <2> DEFINE r == HopRow(event, start, a, created, 1)
  <2>1. r \in Row /\ r.kind = "status_change" /\ r.to = a /\ r.from = start
    BY DEF HopRow, Row, StatusCodes
  <2>2. hops = <<r>>
    BY <1>2, <1>4
  <2> HIDE DEF r
  <2> QED
    BY <1>4, <2>1, <2>2, ChangeJoins
<1>5. CASE codes = <<"WPA", "LSI">> /\ told = "LSI" /\ code \notin {"WPA", "LSI"}
  <2> DEFINE r1 == HopRow(event, start, "WPA", created, 1)
             r2 == HopRow(event, "WPA", "LSI", created, 2)
  <2>1. /\ r1 \in Row /\ r1.kind = "status_change" /\ r1.to = "WPA" /\ r1.from = start
        /\ r2 \in Row /\ r2.kind = "status_change" /\ r2.to = "LSI" /\ r2.from = "WPA"
    BY DEF HopRow, Row, StatusCodes
  <2>2. hops = <<r1, r2>>
    BY <1>2, <1>5
  <2> HIDE DEF r1, r2
  <2>3. Fine(q \o <<r1>>, "WPA")
    BY <1>5, <2>1, ChangeJoins
  <2>4. Fine((q \o <<r1>>) \o <<r2>>, "LSI")
    BY <2>1, <2>3, ChangeJoins
  <2>5. (q \o <<r1>>) \o <<r2>> = q \o <<r1, r2>>
    BY <1>0, <2>1, TwoRows
  <2> QED
    BY <1>5, <2>2, <2>4, <2>5
<1> QED
  BY <1>1, <1>3, <1>4, <1>5

LEMMA HopsPlain ==
  ASSUME NEW event \in Events, NEW reason \in Reasons \cup {NoReason},
         NEW start \in StatusCodes, NEW created \in Nat
  PROVE  LET hops == HopRows(event, reason, start, created) IN
         /\ hops \in Seq(Row) /\ CostingsIn(hops) = {} /\ Plain(hops) /\ InOrder(hops)
         /\ \A i \in DOMAIN hops : hops[i].created = created
<1> DEFINE hops == HopRows(event, reason, start, created)
<1> SUFFICES /\ hops \in Seq(Row) /\ CostingsIn(hops) = {} /\ Plain(hops) /\ InOrder(hops)
             /\ \A i \in DOMAIN hops : hops[i].created = created
  OBVIOUS
<1>1. hops \in Seq(Row) /\ CostingsIn(hops) = {}
  BY HopRowsType, HopsBookNothing
<1>2. \A i \in DOMAIN hops : hops[i].created = created /\ hops[i].seq = i
                             /\ hops[i].state = "pending"
  BY DEF HopRows
<1>3. \A i \in DOMAIN hops : hops[i].to \in StatusCodes
  <2>1. Codes(event, reason) \in Seq(StatusCodes)
    BY CodesKnown
  <2>2. \A i \in DOMAIN Codes(event, reason) : Codes(event, reason)[i] \in StatusCodes
    BY <2>1
  <2> QED
    BY <2>2 DEF HopRows
<1>4. \A i \in DOMAIN hops : i \in Nat
  BY <1>1
<1> HIDE DEF hops
<1>5. Plain(hops)
  BY <1>2, <1>3 DEF Plain, ChangesIn
<1>6. InOrder(hops)
  BY <1>2, <1>4 DEF InOrder, Before
<1> QED
  BY <1>1, <1>2, <1>5, <1>6

(* Rows that join a queue.                                                 *)
LEMMA PlainGrows ==
  ASSUME NEW q \in Seq(Row), NEW r \in Seq(Row), Plain(q), Plain(r)
  PROVE  Plain(q \o r)
<1>1. ASSUME NEW i \in ChangesIn(q \o r)
      PROVE  (q \o r)[i].state = "pending" /\ (q \o r)[i].to \in StatusCodes
  <2>1. CASE i \in DOMAIN q
    BY <2>1, Appended DEF Plain, ChangesIn
  <2>2. CASE i \notin DOMAIN q
    BY <2>2, Appended DEF Plain, ChangesIn
  <2> QED
    BY <2>1, <2>2
<1> QED
  BY <1>1 DEF Plain

LEMMA OlderGrows ==
  ASSUME NEW q \in Seq(Row), NEW r \in Seq(Row), NEW n, Older(q, n), Older(r, n)
  PROVE  Older(q \o r, n)
<1>1. ASSUME NEW i \in DOMAIN (q \o r)
      PROVE  (q \o r)[i].created < n
  <2>1. CASE i \in DOMAIN q
    BY <2>1, Appended DEF Older
  <2>2. CASE i \notin DOMAIN q
    BY <2>2, Appended DEF Older
  <2> QED
    BY <2>1, <2>2
<1> QED
  BY <1>1 DEF Older

LEMMA OrderGrows ==
  ASSUME NEW q \in Seq(Row), NEW r \in Seq(Row), NEW n \in Nat, InOrder(q), InOrder(r),
         Older(q, n), \A i \in DOMAIN r : r[i].created = n
  PROVE  InOrder(q \o r)
<1> DEFINE new == q \o r
<1>0. DOMAIN q = 1 .. Len(q) /\ DOMAIN new = 1 .. Len(q) + Len(r) /\ Len(q) \in Nat
      /\ Len(r) \in Nat
  OBVIOUS
<1>1. ASSUME NEW i \in DOMAIN new, NEW j \in DOMAIN new, i < j
      PROVE  Before(new[i], new[j])
  <2>1. CASE j \in DOMAIN q
    <3>1. i \in DOMAIN q
      BY <1>0, <1>1, <2>1
    <3> QED
      BY <1>1, <2>1, <3>1, Appended DEF InOrder
  <2>2. CASE i \in DOMAIN q /\ j \notin DOMAIN q
    <3>1. new[i].created < n /\ new[j].created = n
      BY <2>2, Appended DEF Older
    <3> QED
      BY <3>1 DEF Before
  <2>3. CASE i \notin DOMAIN q /\ j \notin DOMAIN q
    <3>1. /\ i - Len(q) \in DOMAIN r /\ new[i] = r[i - Len(q)]
          /\ j - Len(q) \in DOMAIN r /\ new[j] = r[j - Len(q)]
      BY <2>3, Appended
    <3>2. i - Len(q) < j - Len(q)
      BY <1>0, <1>1
    <3> QED
      BY <3>1, <3>2 DEF InOrder
  <2>4. i \notin DOMAIN q => j \notin DOMAIN q
    BY <1>0, <1>1
  <2> QED
    BY <2>1, <2>2, <2>3, <2>4
<1> QED
  BY <1>1 DEF InOrder

(* The status a change starts from (app_wo_enqueue_onkey): while no        *)
(* costing is queued and the rows are in the drain's order, the end of the *)
(* chain.                                                                  *)
LEMMA StartIsEnd ==
  ASSUME NEW q, NEW code, Fine(q, code), CostingsIn(q) = {}, Plain(q), InOrder(q),
         NEW s \in StartStatuses(q, "ALC")
  PROVE  s = code
<1>1. /\ q \in Seq(Row) /\ LastIn(q, ChangesIn(q)) = code
      /\ DOMAIN q = 1 .. Len(q) /\ Len(q) \in Nat
  BY DEF Fine
<1>2. \A i \in DOMAIN q : q[i] \in Row
  BY <1>1
<1>3. ChangesIn(q) = DOMAIN q
  BY <1>2 DEF ChangesIn, CostingsIn, Row
<1>4. Unfinished(q) = DOMAIN q
  BY <1>3 DEF Plain, Unfinished
<1>5. CASE q = <<>>
  <2>1. Unfinished(q) = {} /\ ChangesIn(q) = {}
    BY <1>3, <1>4, <1>5
  <2> QED
    BY <1>1, <2>1 DEF StartStatuses, LastIn
<1>6. CASE q # <<>>
  <2> DEFINE n == Len(q)
  <2>1. n \in DOMAIN q /\ DOMAIN q \in SUBSET (1 .. n) /\ DOMAIN q # {}
    BY <1>1, <1>6
  <2>2. Max(DOMAIN q) = n
    <3>1. Max(DOMAIN q) \in DOMAIN q /\ n <= Max(DOMAIN q)
      BY <1>1, <2>1, MaxIn
    <3> QED
      BY <1>1, <3>1
  <2>3. code = q[n].to /\ code # NoCode
    <3>1. code = q[n].to
      BY <1>1, <1>3, <2>1, <2>2 DEF LastIn
    <3> QED
      BY <1>3, <2>1, <3>1, NoCodeAssumption DEF Plain
  <2>4. Latest(q) \subseteq {n}
    <3>1. \A i \in DOMAIN q : i # n => Before(q[i], q[n])
      BY <1>1, <2>1 DEF InOrder
    <3> QED
      BY <1>4, <2>1, <3>1 DEF Latest
  <2>5. PICK i \in Latest(q) : s = IF q[i].to = NoCode THEN "ALC" ELSE q[i].to
    BY <1>4, <2>1 DEF StartStatuses
  <2> QED
    BY <2>3, <2>4, <2>5
<1> QED
  BY <1>5, <1>6


(* An event's rows join a queue: the chain goes on to the event's status.  *)
LEMMA EventQueued ==
  ASSUME NEW q, NEW code, Fine(q, code), Plain(q), NEW n \in Nat, Older(q, n + 1),
         CostingsIn(q) = {} => InOrder(q),
         NEW event \in Events, NEW reason \in Reasons \cup {NoReason},
         event = "start" => code # "WOR",
         event = "pause" => code \notin {"WPA", "LSI"},
         event = "stop" => code # "WST",
         event = "sign_off" => code # "WOS",
         NEW s \in StartStatuses(q, "ALC")
  PROVE  LET new == q \o HopRows(event, reason, s, n) IN
         /\ new \in Seq(Row)
         /\ Fine(new, Told(event, reason, code)) /\ Plain(new) /\ Older(new, n + 1)
         /\ CostingsIn(new) = CostingsIn(q)
         /\ Older(q, n) /\ CostingsIn(q) = {} => InOrder(new)
<1> DEFINE hops == HopRows(event, reason, s, n)
           new  == q \o hops
<1> SUFFICES /\ new \in Seq(Row)
             /\ Fine(new, Told(event, reason, code)) /\ Plain(new) /\ Older(new, n + 1)
             /\ CostingsIn(new) = CostingsIn(q)
             /\ Older(q, n) /\ CostingsIn(q) = {} => InOrder(new)
  OBVIOUS
<1>1. q \in Seq(Row)
  BY DEF Fine
<1>2. s \in StatusCodes
  BY <1>1, StartType DEF StatusCodes
<1>3. CostingsIn(q) = {} => s = code
  BY StartIsEnd
<1>4. Fine(new, Told(event, reason, code))
  BY <1>2, <1>3, HopsJoin
<1>5. /\ hops \in Seq(Row) /\ CostingsIn(hops) = {} /\ Plain(hops) /\ InOrder(hops)
      /\ \A i \in DOMAIN hops : hops[i].created = n
  BY <1>2, HopsPlain
<1> HIDE DEF hops
<1>6. Older(hops, n + 1)
  BY <1>5 DEF Older
<1>7. /\ new \in Seq(Row) /\ Plain(new) /\ Older(new, n + 1)
      /\ CostingsIn(new) = CostingsIn(q)
  BY <1>1, <1>5, <1>6, ConcatType, PlainGrows, OlderGrows, NoCostingAdded
<1>8. Older(q, n) /\ CostingsIn(q) = {} => InOrder(new)
  BY <1>1, <1>5, OrderGrows
<1> QED
  BY <1>4, <1>7, <1>8

LEMMA CostingQueued ==
  ASSUME NEW q, NEW code, Fine(q, code), Plain(q), NEW n \in Nat, Older(q, n + 1),
         NEW content \in Nat, NEW costing \in CostingRows(content, n)
  PROVE  LET new == q \o costing IN
         /\ Fine(new, code) /\ Plain(new) /\ Older(new, n + 1)
         /\ CostingsIn(new) = {} => new = q
<1>1. q \in Seq(Row)
  BY DEF Fine
<1>2. Fine(q \o costing, code)
  BY CostingJoins
<1>3. CASE costing = <<>>
  <2>1. q \o costing = q
    BY <1>1, <1>3
  <2> QED
    BY <1>2, <2>1
<1>4. CASE costing # <<>>
  <2>1. PICK s \in {"pending", "blocked"} : costing = <<CostingRow(content, n, s)>>
    BY <1>4, HasVanAssumption DEF CostingRows
  <2> DEFINE row == CostingRow(content, n, s)
             one == <<row>>
  <2>2. row \in Row /\ row.kind = "work_task_spares" /\ row.created = n
    BY DEF CostingRow, Row
  <2> HIDE DEF row
  <2>3. one \in Seq(Row) /\ DOMAIN one = {1} /\ one[1] = row
    BY <2>2
  <2> HIDE DEF one
  <2>4. Plain(one) /\ Older(one, n + 1)
    BY <2>2, <2>3 DEF Plain, Older, ChangesIn
  <2>5. Plain(q \o one) /\ Older(q \o one, n + 1)
    BY <1>1, <2>3, <2>4, PlainGrows, OlderGrows
  <2>6. CostingsIn(q \o one) # {}
    <3>1. Len(q) + 1 \in DOMAIN (q \o one) /\ (q \o one)[Len(q) + 1] = row
      BY <1>1, <2>2, RowJoins DEF one
    <3> QED
      BY <2>2, <3>1 DEF CostingsIn
  <2> QED
    BY <1>2, <2>1, <2>5, <2>6 DEF one, row
<1> QED
  BY <1>3, <1>4

LEMMA EventState ==
  ASSUME NEW event \in Events, NEW reason, NEW cur, NEW row \in Lifecycle, NEW at
  PROVE  Apply(event, reason, cur, row, at).state =
           CASE event = "on_the_way" -> "on_the_way"
             [] event = "start" -> "started"
             [] event = "pause" -> "paused"
             [] event = "stop" -> "stopped"
             [] event = "sign_off" -> "signed_off"
BY DEF Apply, Lifecycle, Events

(* What the state and the event say of the status OnKey was told.          *)
LEMMA ToldFits ==
  ASSUME NEW event \in Events, NEW reason, NEW row \in Lifecycle, Allowed(event, row),
         NEW code \in StatusesFor(row.state), NEW cur, NEW at
  PROVE  /\ event = "start" => code # "WOR"
         /\ event = "pause" => code \notin {"WPA", "LSI"}
         /\ event = "stop" => code # "WST"
         /\ event = "sign_off" => code # "WOS"
         /\ Told(event, reason, code) \in
              StatusesFor(Apply(event, reason, cur, row, at).state)
         /\ row.state # "signed_off"
<1>1. row.state \in LifeStates \cup {"absent"}
  BY DEF Lifecycle
<1>2. /\ row.state \in {"absent", "not_started", "on_the_way"} => code = "ALC"
      /\ row.state = "started" => code = "WOR"
      /\ row.state = "paused" => code \in {"WPA", "LSI"}
      /\ row.state = "stopped" => code = "WST"
  BY DEF StatusesFor
<1>3. /\ event = "on_the_way" => row.state \in {"absent", "not_started"}
      /\ event = "start" => row.state \in {"absent", "not_started", "on_the_way", "paused"}
      /\ event = "pause" => row.state \in {"started", "on_the_way"}
      /\ event = "stop" => row.state \in {"started", "paused"}
      /\ event = "sign_off" => row.state = "stopped"
  BY <1>1 DEF Allowed, StateOf
<1>4. Told(event, reason, code) \in StatusesFor(Apply(event, reason, cur, row, at).state)
  <2> DEFINE state == Apply(event, reason, cur, row, at).state
  <2>1. /\ event = "on_the_way" => state = "on_the_way"
        /\ event = "start" => state = "started"
        /\ event = "pause" => state = "paused"
        /\ event = "stop" => state = "stopped"
        /\ event = "sign_off" => state = "signed_off"
    BY EventState
  <2> HIDE DEF state
  <2>2. Told(event, reason, code) \in StatusesFor(state)
    BY <1>2, <1>3, <2>1 DEF Told, StatusesFor, Events
  <2> QED
    BY <2>2 DEF state
<1> QED
  BY <1>2, <1>3, <1>4 DEF Events


LEMMA IdleKeepsMirror ==
  ASSUME IInv, QInv, NEW c \in Callers, Run(c, Idle)
  PROVE  \A d \in Callers : tx'[d].mirror = "ALC"
<1>1. Idle.mirror = "ALC"
  BY DEF Idle
<1> QED
  BY <1>1 DEF IInv, TypeOK, QInv, Run

LEMMA CommitTells ==
  ASSUME IInv, AInv, QInv, Alone, NEW c \in Callers, TransitionCommit(c)
  PROVE  QInv'
<1> DEFINE t     == tx[c]
           at    == Clamp(t.at, t.cur, t.start)
           first == Apply(t.event, t.reason, t.cur, lc, at)
           again == Clamp(at, first, t.start)
           last  == Apply("sign_off", NoReason, first, first, again)
           code  == LastIn(outbox, ChangesIn(outbox))
           told  == Told(t.event, t.reason, code)
<1>1. /\ t \in Tx /\ t.event \in Events /\ t.reason \in Reasons \cup {NoReason}
      /\ lc \in Lifecycle /\ outbox \in Seq(Row) /\ now \in Nat /\ t.op # "idle"
  BY MaxNowAssumption DEF IInv, TypeOK, EventKnown, TransitionCommit, Tx, CreatedAt
<1>2. /\ t.start = now /\ Allowed(t.event, lc)
      /\ t.seal # 0 => t.event \in {"stop", "sign_off"}
  BY CommitApplies
<1>3. /\ t.mirror = "ALC" /\ mirror = "ALC"
      /\ Fine(outbox, code) /\ code \in StatusesFor(lc.state) /\ Plain(outbox)
      /\ Older(outbox, now) /\ Older(outbox, now + 1)
      /\ lc.state # "signed_off" /\ CostingsIn(outbox) = {} => InOrder(outbox)
  BY <1>1 DEF QInv, Fine
<1>4. /\ t.event = "start" => code # "WOR"
      /\ t.event = "pause" => code \notin {"WPA", "LSI"}
      /\ t.event = "stop" => code # "WST"
      /\ t.event = "sign_off" => code # "WOS"
      /\ told \in StatusesFor(first.state)
      /\ lc.state # "signed_off"
  BY <1>1, <1>2, <1>3, ToldFits
<1>5. /\ lc' = IF RollsOver(c) THEN last ELSE first
      /\ UNCHANGED <<now, mirror>> /\ Run(c, Idle)
  BY DEF TransitionCommit
<1>6. first \in Lifecycle
  BY <1>1, ClampInt, ApplyType DEF Tx
<1>7. /\ last.state = "signed_off"
      /\ t.event = "sign_off" => first.state = "signed_off"
      /\ t.event # "sign_off" => first.state # "signed_off"
  <2>1. last.state = "signed_off"
    BY <1>6, ApplyState DEF Events
  <2>2. /\ t.event = "sign_off" => first.state = "signed_off"
        /\ t.event # "sign_off" => first.state # "signed_off"
    BY <1>1, EventState DEF Events
  <2> QED
    BY <2>1, <2>2
<1>8. RollsOver(c) <=> t.event = "stop" /\ (card.state = "signed" \/ t.seal # 0)
  BY DEF RollsOver
<1>9. PICK costing \in Sealed(c) : \E s \in StartStatuses(outbox \o costing, t.mirror) :
        LET queued == outbox \o costing \o HopRows(t.event, t.reason, s, t.start) IN
        IF ~RollsOver(c) THEN outbox' = queued
        ELSE \E s2 \in StartStatuses(queued, mirror) :
               outbox' = queued \o HopRows("sign_off", NoReason, s2, t.start)
  BY DEF TransitionCommit
<1>10. /\ t.seal = 0 => costing = <<>>
       /\ t.seal # 0 => costing \in CostingRows(t.seal, now) /\ t.seal \in Nat
  BY <1>1, <1>2, <1>9, TxNumbers DEF Sealed
<1> HIDE DEF t, first, last, code, told
<1> DEFINE before == outbox \o costing
<1>11. /\ Fine(before, code) /\ Plain(before) /\ Older(before, now + 1)
       /\ CostingsIn(before) = {} => before = outbox
       /\ t.seal = 0 => before = outbox
  <2>1. CASE t.seal = 0
    <3>1. before = outbox
      BY <1>1, <1>10, <2>1
    <3> QED
      BY <1>3, <3>1
  <2>2. CASE t.seal # 0
    <3> HIDE DEF before
    <3>1. LET new == outbox \o costing IN
          /\ Fine(new, code) /\ Plain(new) /\ Older(new, now + 1)
          /\ CostingsIn(new) = {} => new = outbox
      BY <1>1, <1>3, <1>10, <2>2, CostingQueued
    <3> QED
      BY <2>2, <3>1 DEF before
  <2> QED
    BY <2>1, <2>2
<1>12. PICK s \in StartStatuses(before, "ALC") :
         LET queued == before \o HopRows(t.event, t.reason, s, now) IN
         IF ~RollsOver(c) THEN outbox' = queued
         ELSE \E s2 \in StartStatuses(queued, "ALC") :
                outbox' = queued \o HopRows("sign_off", NoReason, s2, now)
  BY <1>2, <1>3, <1>9
<1> HIDE DEF before
<1> DEFINE queued == before \o HopRows(t.event, t.reason, s, now)
<1>13. CostingsIn(before) = {} => InOrder(before) /\ Older(before, now)
  BY <1>3, <1>4, <1>11
<1>14. /\ Fine(queued, told) /\ Plain(queued) /\ Older(queued, now + 1)
       /\ CostingsIn(queued) = {} => InOrder(queued)
  BY <1>1, <1>4, <1>11, <1>12, <1>13, EventQueued DEF told
<1>15. CASE ~RollsOver(c)
  <2>1. outbox' = queued
    BY <1>12, <1>15
  <2> HIDE DEF queued
  <2>2. lc'.state = first.state /\ now' = now
    BY <1>5, <1>15
  <2>3. /\ Chain(outbox') /\ LastIn(outbox', ChangesIn(outbox')) \in StatusesFor(lc'.state)
        /\ Plain(outbox') /\ Older(outbox', now' + 1)
        /\ CostingsIn(outbox') = {} => InOrder(outbox')
    BY <1>4, <1>14, <2>1, <2>2 DEF Fine
  <2> QED
    BY <1>1, <1>3, <1>5, <2>3, NoneRuns, IdleKeepsMirror DEF QInv, t
<1>16. CASE RollsOver(c)
  <2>1. PICK s2 \in StartStatuses(queued, "ALC") :
          outbox' = queued \o HopRows("sign_off", NoReason, s2, now)
    BY <1>12, <1>16
  <2> HIDE DEF queued
  <2>2. t.event = "stop"
    BY <1>8, <1>16
  <2>3. told = "WST"
    BY <2>2 DEF told, Told
  <2> DEFINE new == queued \o HopRows("sign_off", NoReason, s2, now)
  <2>4. Fine(new, "WOS") /\ Plain(new) /\ Older(new, now + 1)
    <3>1. PICK event \in Events : event = "sign_off"
      BY DEF Events
    <3>2. Told(event, NoReason, "WST") = "WOS"
      BY <3>1 DEF Told
    <3>3. /\ NoReason \in Reasons \cup {NoReason} /\ now \in Nat
          /\ s2 \in StartStatuses(queued, "ALC")
          /\ event = "start" => "WST" # "WOR"
          /\ event = "pause" => "WST" \notin {"WPA", "LSI"}
          /\ event = "stop" => "WST" # "WST"
          /\ event = "sign_off" => "WST" # "WOS"
      BY <1>1, <2>1, <3>1
    <3>4. Fine(queued, "WST") /\ Plain(queued) /\ Older(queued, now + 1)
          /\ (CostingsIn(queued) = {} => InOrder(queued))
      BY <1>14, <2>3
    <3>5. LET grown == queued \o HopRows(event, NoReason, s2, now) IN
          /\ Fine(grown, Told(event, NoReason, "WST")) /\ Plain(grown)
          /\ Older(grown, now + 1)
      BY <3>3, <3>4, EventQueued
    <3> QED
      BY <3>1, <3>2, <3>5
  <2>5. outbox' = new
    BY <2>1
  <2> HIDE DEF new
  <2>6. lc'.state = "signed_off" /\ now' = now
    BY <1>5, <1>7, <1>16
  <2>7. /\ Chain(outbox') /\ LastIn(outbox', ChangesIn(outbox')) \in StatusesFor(lc'.state)
        /\ Plain(outbox') /\ Older(outbox', now' + 1)
    BY <2>4, <2>5, <2>6 DEF Fine, StatusesFor
  <2> QED
    BY <1>1, <1>3, <1>5, <2>6, <2>7, NoneRuns, IdleKeepsMirror DEF QInv, t
<1> QED
  BY <1>15, <1>16


(* A call that begins: the clock passes the rows that are queued.          *)
LEMMA BeginTells ==
  ASSUME IInv, QInv, NEW c \in Callers, NEW t \in Tx, Begin(c, t), t.mirror = "ALC"
  PROVE  QInv'
<1>1. PICK skew \in Skews : Run(c, [t EXCEPT !.start = now + 1, !.at = now + 1 + skew])
  BY DEF Begin
<1> DEFINE u == [t EXCEPT !.start = now + 1, !.at = now + 1 + skew]
<1>2. u.mirror = "ALC"
  BY DEF Tx
<1> HIDE DEF u
<1>3. tx' = [tx EXCEPT ![c] = u]
  BY <1>1 DEF Run, u
<1>4. \A d \in Callers : tx'[d].mirror = "ALC"
  BY <1>2, <1>3 DEF IInv, TypeOK, QInv
<1>5. now \in Nat /\ now' = now + 1 /\ UNCHANGED <<lc, mirror, outbox>> /\ outbox \in Seq(Row)
  BY MaxNowAssumption DEF IInv, TypeOK, Begin, CreatedAt
<1>6. Older(outbox', now')
  BY <1>5 DEF QInv
<1>7. Older(outbox', now' + 1)
  <2>1. \A i \in DOMAIN outbox : outbox[i].created \in Nat
    <3>1. \A i \in DOMAIN outbox : outbox[i] \in Row
      BY <1>5
    <3> QED
      BY <3>1 DEF Row
  <2> QED
    BY <1>5, <1>6, <2>1 DEF Older
<1> QED
  BY <1>4, <1>5, <1>6, <1>7 DEF QInv

LEMMA ReadsTell ==
  ASSUME IInv, QInv, NEW c \in Callers,
         TransitionRead(c) \/ StandDownRead(c) \/ SaveRead(c) \/ SignRead(c)
  PROVE  QInv'
<1>1. CASE TransitionRead(c)
  <2>1. PICK event \in {"on_the_way", "start", "pause", "stop"},
             reason \in Reasons \cup {NoReason} :
          Begin(c, [Idle EXCEPT !.op = "transition", !.event = event, !.reason = reason,
                                !.cur = lc, !.mirror = mirror])
    BY <1>1 DEF TransitionRead
  <2> DEFINE t == [Idle EXCEPT !.op = "transition", !.event = event, !.reason = reason,
                               !.cur = lc, !.mirror = mirror]
  <2>2. t \in Tx /\ t.mirror = "ALC"
    BY IdleType DEF Tx, IInv, TypeOK, QInv, Events
  <2> QED
    BY <2>1, <2>2, BeginTells
<1>2. CASE StandDownRead(c)
  <2> DEFINE t == [Idle EXCEPT !.op = "stand_down"]
  <2>1. t \in Tx /\ t.mirror = "ALC"
    BY IdleType DEF Tx, Idle
  <2> QED
    BY <1>2, <2>1, BeginTells DEF StandDownRead
<1>3. CASE SaveRead(c)
  <2>1. PICK content \in Contents : Begin(c, [Idle EXCEPT !.op = "save", !.content = content])
    BY <1>3 DEF SaveRead
  <2> DEFINE t == [Idle EXCEPT !.op = "save", !.content = content]
  <2>2. t \in Tx /\ t.mirror = "ALC"
    BY IdleType DEF Tx, Idle
  <2> QED
    BY <2>1, <2>2, BeginTells
<1>4. CASE SignRead(c)
  <2> DEFINE t == [Idle EXCEPT !.op = "sign", !.content = card.content, !.cur = lc]
  <2>1. t \in Tx /\ t.mirror = "ALC"
    BY IdleType DEF Tx, IInv, TypeOK, Card, Idle
  <2> QED
    BY <1>4, <2>1, BeginTells DEF SignRead
<1> QED
  BY <1>1, <1>2, <1>3, <1>4

(* A call that ends without queueing.                                      *)
LEMMA EndTells ==
  ASSUME IInv, QInv, Alone, NEW c \in Callers, tx[c].op # "idle", Run(c, Idle),
         UNCHANGED <<now, mirror, outbox>>,
         StatusesFor(lc'.state) = StatusesFor(lc.state),
         lc'.state # "signed_off" => lc.state # "signed_off"
  PROVE  QInv'
BY NoneRuns, IdleKeepsMirror DEF QInv

LEMMA StandDownTells ==
  ASSUME IInv, AInv, QInv, Alone, NEW c \in Callers, StandDownCommit(c)
  PROVE  QInv'
<1>1. lc.state = "on_the_way" /\ lc \in Lifecycle
  BY DEF IInv, TypeOK, AInv, ReadsCurrent, Current, StandDownCommit
<1>2. lc'.state = "not_started"
  BY <1>1 DEF StandDownCommit, Lifecycle
<1>3. StatusesFor(lc'.state) = StatusesFor(lc.state)
  BY <1>1, <1>2 DEF StatusesFor
<1> QED
  BY <1>1, <1>3, EndTells DEF StandDownCommit

LEMMA SealTells ==
  ASSUME IInv, AInv, QInv, Alone, NEW c \in Callers, Seal(c)
  PROVE  QInv'
<1> DEFINE t    == tx[c]
           code == LastIn(outbox, ChangesIn(outbox))
<1>1. t \in Tx /\ outbox \in Seq(Row) /\ t.op = "sign" /\ t.op # "idle" /\ now \in Nat
  BY MaxNowAssumption DEF IInv, TypeOK, Seal, CreatedAt
<1>2. t.cur = lc /\ card.state = "draft" /\ t.content = card.content /\ t.start = now
  BY <1>1 DEF AInv, ReadsCurrent, Current
<1>3. t.content \in Nat
  BY <1>2, ContentsAssumption DEF AInv, DraftFilled
<1>4. CASE HandedBack(lc)
  <2>1. PICK costing \in CostingRows(t.content, now) : outbox' = outbox \o costing
    BY <1>2, <1>4 DEF Seal
  <2>2. Run(c, Idle) /\ UNCHANGED <<now, lc, mirror>>
    BY <1>2, <1>4 DEF Seal
  <2> HIDE DEF t
  <2>3. Fine(outbox, code) /\ Plain(outbox) /\ Older(outbox, now + 1)
    BY <1>1 DEF QInv, Fine
  <2> HIDE DEF code
  <2>4. LET new == outbox \o costing IN
        /\ Fine(new, code) /\ Plain(new) /\ Older(new, now + 1)
        /\ CostingsIn(new) = {} => new = outbox
    BY <1>1, <1>3, <2>1, <2>3, CostingQueued
  <2>5. /\ Fine(outbox', code) /\ Plain(outbox') /\ Older(outbox', now + 1)
        /\ CostingsIn(outbox') = {} => outbox' = outbox
    BY <2>1, <2>4
  <2>6. code \in StatusesFor(lc.state)
    BY DEF QInv, code
  <2>7. /\ Chain(outbox') /\ LastIn(outbox', ChangesIn(outbox')) \in StatusesFor(lc'.state)
        /\ lc'.state # "signed_off" /\ CostingsIn(outbox') = {} => InOrder(outbox')
    BY <2>2, <2>5, <2>6 DEF Fine, QInv
  <2> QED
    BY <1>1, <2>2, <2>5, <2>7, NoneRuns, IdleKeepsMirror DEF QInv, t
<1>5. CASE ~HandedBack(lc)
  <2> DEFINE u == [t EXCEPT !.op = "transition", !.event = SignEvent(t.cur), !.cur = lc,
                            !.mirror = mirror, !.seal = t.content]
  <2>1. tx' = [tx EXCEPT ![c] = u] /\ UNCHANGED <<now, lc, card, mirror, outbox>>
    BY <1>2, <1>5 DEF Seal, Run
  <2>2. u.mirror = "ALC"
    BY <1>1 DEF Tx, QInv
  <2> HIDE DEF u
  <2>3. \A d \in Callers : tx'[d].mirror = "ALC"
    BY <2>1, <2>2 DEF IInv, TypeOK, QInv
  <2>4. Older(outbox, now)
    BY <1>1 DEF QInv
  <2> QED
    BY <2>1, <2>3, <2>4 DEF QInv
<1> QED
  BY <1>4, <1>5

LEMMA InitTells == Init => QInv
BY DEF Init, QInv, Idle, NoRow, CreatedAt, Chain, ChangesIn, LastIn, StatusesFor, Plain,
       InOrder, Older

LEMMA NextTells == IInv /\ AInv /\ QInv /\ Alone /\ [Next]_vars => QInv'
<1> SUFFICES ASSUME IInv, AInv, QInv, Alone, [Next]_vars
             PROVE  QInv'
  OBVIOUS
<1>1. CASE UNCHANGED vars
  BY <1>1 DEF vars, QInv
<1>2. ASSUME NEW c \in Callers,
             TransitionRead(c) \/ StandDownRead(c) \/ SaveRead(c) \/ SignRead(c)
      PROVE  QInv'
  BY <1>2, ReadsTell
<1>3. ASSUME NEW c \in Callers, TransitionClash(c)
      PROVE  QInv'
  BY <1>3, EndTells DEF TransitionClash, RollBack
<1>4. ASSUME NEW c \in Callers, TransitionCommit(c)
      PROVE  QInv'
  BY <1>4, CommitTells
<1>5. ASSUME NEW c \in Callers, StandDownCommit(c)
      PROVE  QInv'
  BY <1>5, StandDownTells
<1>6. ASSUME NEW c \in Callers, SaveCommit(c)
      PROVE  QInv'
  BY <1>6, EndTells DEF SaveCommit
<1>7. ASSUME NEW c \in Callers, Seal(c)
      PROVE  QInv'
  BY <1>7, SealTells
<1>8. ASSUME NEW c \in Callers, SealRefused(c)
      PROVE  QInv'
  BY <1>8, EndTells DEF SealRefused, RollBack
<1> QED
  BY <1>1, <1>2, <1>3, <1>4, <1>5, <1>6, <1>7, <1>8 DEF Next

(* 046, 053: when the calls do not overlap, the status changes queued for  *)
(* OnKey are one chain without a repeated hop, and the last one is the     *)
(* job's state: nothing we believe we told OnKey is missing.               *)
THEOREM QueueToldState == Spec /\ []Alone => []QueueTellsState
<1>1. QInv => QueueTellsState
  <2> SUFFICES ASSUME QInv
               PROVE  QueueTellsState
    OBVIOUS
  <2>1. Changes = ChangesIn(outbox)
    BY DEF Changes, ChangesIn
  <2>2. \A is : LastOf(is, "ALC") = LastIn(outbox, is)
    BY DEF LastOf, LastIn
  <2>3. HopsChain
    BY <2>1, <2>2 DEF QInv, Chain, HopsChain
  <2> QED
    BY <2>1, <2>2, <2>3 DEF QInv, QueueTellsState
<1>2. IInv /\ AInv /\ QInv /\ Alone /\ Alone' /\ [Next]_vars => QInv'
  BY NextTells
<1> QED
  BY InitIInv, NextIInv, InitAlone, NextAlone, InitTells, <1>1, <1>2, PTL DEF Spec


-----------------------------------------------------------------------------
(* The drain (OnKeyDrain) beside the calls: what OnKey is told, and in     *)
(* which order.  Rows are rewritten and the mirror moves, so the queue is  *)
(* no chain of pending rows any more; what is left is that a call only     *)
(* appends fresh rows, stamped with its own start.                         *)

Fresh(r) ==
  \A i \in DOMAIN r : /\ r[i].attempts = 0
                      /\ r[i].kind = "status_change" => r[i].to \in StatusCodes

Stamped(r, n) == \A i \in DOMAIN r : r[i].created = n

LEMMA FreshJoin ==
  ASSUME NEW q \in Seq(Row), NEW r \in Seq(Row), NEW n,
         Fresh(q), Fresh(r), Stamped(q, n), Stamped(r, n)
  PROVE  q \o r \in Seq(Row) /\ Fresh(q \o r) /\ Stamped(q \o r, n)
<1>1. ASSUME NEW i \in DOMAIN (q \o r)
      PROVE  (q \o r)[i].created = n /\ (q \o r)[i].attempts = 0
             /\ ((q \o r)[i].kind = "status_change" => (q \o r)[i].to \in StatusCodes)
  <2>1. CASE i \in DOMAIN q
    BY <2>1, Appended DEF Stamped, Fresh
  <2>2. CASE i \notin DOMAIN q
    BY <2>2, Appended DEF Stamped, Fresh
  <2> QED
    BY <2>1, <2>2
<1> QED
  BY <1>1, ConcatType DEF Stamped, Fresh

LEMMA HopsFresh ==
  ASSUME NEW event \in Events, NEW reason \in Reasons \cup {NoReason},
         NEW start \in StatusCodes, NEW created \in Nat
  PROVE  LET hops == HopRows(event, reason, start, created) IN
         hops \in Seq(Row) /\ Fresh(hops) /\ Stamped(hops, created)
<1> DEFINE hops == HopRows(event, reason, start, created)
<1>1. hops \in Seq(Row) /\ Plain(hops) /\ Stamped(hops, created)
  BY HopsPlain DEF Stamped
<1>2. \A i \in DOMAIN hops : hops[i].attempts = 0
  BY DEF HopRows
<1> HIDE DEF hops
<1> QED
  BY <1>1, <1>2 DEF Fresh, Plain, ChangesIn, hops

LEMMA CostingFresh ==
  ASSUME NEW content \in Nat, NEW n \in Nat, NEW costing \in CostingRows(content, n)
  PROVE  costing \in Seq(Row) /\ Fresh(costing) /\ Stamped(costing, n)
<1>1. CASE costing = <<>>
  BY <1>1 DEF Fresh, Stamped
<1>2. CASE costing # <<>>
  <2>1. PICK s \in {"pending", "blocked"} : costing = <<CostingRow(content, n, s)>>
    BY <1>2, HasVanAssumption DEF CostingRows
  <2> DEFINE row == CostingRow(content, n, s)
  <2>2. row \in Row /\ row.kind = "work_task_spares" /\ row.created = n /\ row.attempts = 0
    BY DEF CostingRow, Row
  <2>3. costing = <<row>>
    BY <2>1
  <2> HIDE DEF row
  <2> QED
    BY <2>2, <2>3 DEF Fresh, Stamped
<1> QED
  BY <1>1, <1>2

(* What a commit adds to the queue bears the start of its transaction.     *)
LEMMA CommitAdds ==
  ASSUME IInv, NEW c \in Callers, TransitionCommit(c)
  PROVE  \E added \in Seq(Row) : /\ outbox' = outbox \o added
                                 /\ Fresh(added) /\ Stamped(added, tx[c].start)
<1> DEFINE t == tx[c]
           n == t.start
<1>1. /\ t \in Tx /\ t.event \in Events /\ outbox \in Seq(Row) /\ mirror \in StatusCodes
  BY DEF IInv, TypeOK, EventKnown, TransitionCommit
<1>2. /\ n \in Nat /\ t.mirror \in StatusCodes /\ t.seal \in Nat
      /\ t.reason \in Reasons \cup {NoReason}
  BY <1>1, TxNumbers DEF Tx
<1>3. PICK costing \in Sealed(c) : \E s \in StartStatuses(outbox \o costing, t.mirror) :
        LET queued == outbox \o costing \o HopRows(t.event, t.reason, s, n) IN
        IF ~RollsOver(c) THEN outbox' = queued
        ELSE \E s2 \in StartStatuses(queued, mirror) :
               outbox' = queued \o HopRows("sign_off", NoReason, s2, n)
  BY DEF TransitionCommit
<1>4. costing \in Seq(Row) /\ Fresh(costing) /\ Stamped(costing, n)
  <2>1. CASE t.seal = 0
    <3>1. costing = <<>>
      BY <1>3, <2>1 DEF Sealed
    <3> QED
      BY <3>1 DEF Fresh, Stamped
  <2>2. CASE t.seal # 0
    <3>1. costing \in CostingRows(t.seal, n)
      BY <1>3, <2>2 DEF Sealed
    <3> HIDE DEF t, n
    <3> QED
      BY <1>2, <3>1, CostingFresh
  <2> QED
    BY <2>1, <2>2
<1> HIDE DEF t, n
<1> DEFINE before == outbox \o costing
<1>5. before \in Seq(Row)
  BY <1>1, <1>4, ConcatType
<1>6. PICK s \in StartStatuses(before, t.mirror) :
        LET queued == before \o HopRows(t.event, t.reason, s, n) IN
        IF ~RollsOver(c) THEN outbox' = queued
        ELSE \E s2 \in StartStatuses(queued, mirror) :
               outbox' = queued \o HopRows("sign_off", NoReason, s2, n)
  BY <1>3
<1> HIDE DEF before
<1> DEFINE hops == HopRows(t.event, t.reason, s, n)
<1>7. s \in StatusCodes
  BY <1>2, <1>5, <1>6, StartType
<1>8. hops \in Seq(Row) /\ Fresh(hops) /\ Stamped(hops, n)
  BY <1>1, <1>2, <1>7, HopsFresh
<1> HIDE DEF hops
<1> DEFINE added == costing \o hops
<1>9. /\ added \in Seq(Row) /\ Fresh(added) /\ Stamped(added, n)
      /\ before \o hops = outbox \o added
  BY <1>1, <1>4, <1>8, FreshJoin DEF before
<1> HIDE DEF added
<1>10. CASE ~RollsOver(c)
  <2>1. outbox' = outbox \o added
    BY <1>6, <1>9, <1>10 DEF hops
  <2> QED
    BY <1>9, <2>1 DEF t, n
<1>11. CASE RollsOver(c)
  <2>1. PICK s2 \in StartStatuses(outbox \o added, mirror) :
          outbox' = (outbox \o added) \o HopRows("sign_off", NoReason, s2, n)
    BY <1>6, <1>9, <1>11 DEF hops
  <2> DEFINE final == HopRows("sign_off", NoReason, s2, n)
  <2>2. s2 \in StatusCodes
    BY <1>1, <1>9, <2>1, ConcatType, StartType
  <2>3. final \in Seq(Row) /\ Fresh(final) /\ Stamped(final, n)
    BY <1>2, <2>2, HopsFresh DEF Events
  <2> HIDE DEF final
  <2>4. /\ added \o final \in Seq(Row) /\ Fresh(added \o final) /\ Stamped(added \o final, n)
        /\ (outbox \o added) \o final = outbox \o (added \o final)
    BY <1>1, <1>9, <2>3, FreshJoin
  <2>5. outbox' = outbox \o (added \o final)
    BY <2>1, <2>4 DEF final
  <2> QED
    BY <2>4, <2>5 DEF t, n
<1> QED
  BY <1>10, <1>11

(* Any step of the calls: rows join only when a call ends, and bear its    *)
(* start.                                                                  *)
LEMMA QueueGrows ==
  ASSUME IInv, [Next]_vars
  PROVE  \E added \in Seq(Row) :
           /\ outbox' = outbox \o added /\ Fresh(added)
           /\ added # <<>> => \E c \in Callers : /\ tx[c].op # "idle" /\ Run(c, Idle)
                                                /\ now' = now /\ Stamped(added, tx[c].start)
<1>1. outbox \in Seq(Row)
  BY DEF IInv, TypeOK
<1>2. ASSUME UNCHANGED outbox
      PROVE  <<>> \in Seq(Row) /\ outbox' = outbox \o <<>> /\ Fresh(<<>>)
  BY <1>1, <1>2 DEF Fresh
<1>3. ASSUME NEW c \in Callers, TransitionCommit(c)
      PROVE  \E added \in Seq(Row) :
               /\ outbox' = outbox \o added /\ Fresh(added)
               /\ tx[c].op # "idle" /\ Run(c, Idle) /\ now' = now /\ Stamped(added, tx[c].start)
  BY <1>3, CommitAdds DEF TransitionCommit
<1>4. ASSUME NEW c \in Callers, Seal(c), ~UNCHANGED outbox
      PROVE  \E added \in Seq(Row) :
               /\ outbox' = outbox \o added /\ Fresh(added)
               /\ tx[c].op # "idle" /\ Run(c, Idle) /\ now' = now /\ Stamped(added, tx[c].start)
  <2>1. tx[c].start \in Nat /\ tx[c].content \in Nat
    <3>1. tx[c].start \in Nat /\ tx[c].content \in Contents \cup {0}
      BY DEF IInv, TypeOK, Tx
    <3>2. CASE tx[c].content \in Contents
      BY <3>1, <3>2, ContentsAssumption
    <3> QED
      BY <3>1, <3>2
  <2>2. PICK costing \in CostingRows(tx[c].content, tx[c].start) : outbox' = outbox \o costing
    BY <1>4 DEF Seal
  <2>3. costing \in Seq(Row) /\ Fresh(costing) /\ Stamped(costing, tx[c].start)
    BY <2>1, <2>2, CostingFresh
  <2> QED
    BY <1>4, <2>2, <2>3 DEF Seal
<1>5. CASE UNCHANGED outbox
  BY <1>2, <1>5
<1>6. CASE ~UNCHANGED outbox
  <2>1. PICK c \in Callers : TransitionCommit(c) \/ Seal(c)
    BY <1>6 DEF Next, vars, TransitionRead, TransitionClash, StandDownRead, SaveRead,
                StandDownCommit, SaveCommit, SignRead, SealRefused, Begin, RollBack
  <2> QED
    BY <1>3, <1>4, <1>6, <2>1
<1> QED
  BY <1>5, <1>6


-----------------------------------------------------------------------------
(* The types of the drain, which hold however its invocations overlap.     *)

Coded(q) == \A i \in DOMAIN q : q[i].kind = "status_change" => q[i].to \in StatusCodes

(* What is left to do has tries left.                                      *)
TriesLeft(q) ==
  \A i \in DOMAIN q : /\ q[i].attempts <= MAX_ATTEMPTS
                      /\ q[i].state \in {"pending", "failed"} => q[i].attempts < MAX_ATTEMPTS

Carries(r, q) == r.step # "idle" => r.row \in DOMAIN q /\ r.attempts < MAX_ATTEMPTS

DTypes ==
  /\ IInv
  /\ Coded(outbox) /\ TriesLeft(outbox)
  /\ run \in [Drains -> [step : {"idle", "picked", "ok", "refused", "error"},
                         row : 0 .. Len(outbox), attempts : Nat]]
  /\ \A d \in Drains : Carries(run[d], outbox)
  /\ onkey \in [status : StatusCodes, booked : Nat]
  /\ landed \in Seq(DOMAIN outbox)
  /\ faults \in 0 .. MaxFaults

LEMMA InitDTypes == DrainInit => DTypes
<1> SUFFICES ASSUME DrainInit
             PROVE  DTypes
  OBVIOUS
<1>1. IInv /\ outbox = <<>>
  BY InitIInv DEF DrainInit, Init
<1>2. run \in [Drains -> [step : {"idle", "picked", "ok", "refused", "error"},
                          row : 0 .. Len(outbox), attempts : Nat]]
  BY <1>1 DEF DrainInit, NoRun
<1>3. \A d \in Drains : Carries(run[d], outbox)
  BY DEF DrainInit, NoRun, Carries
<1>4. onkey \in [status : StatusCodes, booked : Nat]
  BY DEF DrainInit, StatusCodes
<1>5. landed \in Seq(DOMAIN outbox) /\ faults \in 0 .. MaxFaults
  BY MaxFaultsAssumption DEF DrainInit
<1> QED
  BY <1>1, <1>2, <1>3, <1>4, <1>5 DEF DTypes, Coded, TriesLeft

LEMMA SeqGrows ==
  ASSUME NEW S, NEW T, S \subseteq T, NEW s \in Seq(S)
  PROVE  s \in Seq(T)
OBVIOUS

(* Rows that join the queue: all that speaks of the rows it had stands.    *)
LEMMA JoinTypes ==
  ASSUME NEW q \in Seq(Row), NEW r \in Seq(Row), Fresh(r), Coded(q), TriesLeft(q)
  PROVE  /\ Coded(q \o r) /\ TriesLeft(q \o r)
         /\ DOMAIN q \subseteq DOMAIN (q \o r) /\ 0 .. Len(q) \subseteq 0 .. Len(q \o r)
<1>1. ASSUME NEW i \in DOMAIN (q \o r)
      PROVE  LET row == (q \o r)[i] IN
             /\ row.kind = "status_change" => row.to \in StatusCodes
             /\ row.attempts <= MAX_ATTEMPTS
             /\ row.state \in {"pending", "failed"} => row.attempts < MAX_ATTEMPTS
  <2>1. CASE i \in DOMAIN q
    BY <2>1, Appended DEF Coded, TriesLeft
  <2>2. CASE i \notin DOMAIN q
    <3>1. i - Len(q) \in DOMAIN r /\ (q \o r)[i] = r[i - Len(q)]
      BY <2>2, Appended
    <3>2. 0 <= MAX_ATTEMPTS /\ 0 < MAX_ATTEMPTS
      BY MaxAttemptsAssumption
    <3> QED
      BY <3>1, <3>2 DEF Fresh
  <2> QED
    BY <2>1, <2>2
<1>2. 0 .. Len(q) \subseteq 0 .. Len(q \o r)
  BY ConcatLen
<1> QED
  BY <1>1, <1>2, Appended DEF Coded, TriesLeft

LEMMA CallDTypes ==
  ASSUME DTypes, Next, UNCHANGED drainVars
  PROVE  DTypes'
<1>1. IInv' /\ outbox \in Seq(Row)
  BY NextIInv DEF DTypes, IInv, TypeOK
<1>2. PICK added \in Seq(Row) : outbox' = outbox \o added /\ Fresh(added)
  BY QueueGrows DEF DTypes
<1>3. /\ Coded(outbox') /\ TriesLeft(outbox')
      /\ DOMAIN outbox \subseteq DOMAIN outbox' /\ 0 .. Len(outbox) \subseteq 0 .. Len(outbox')
  BY <1>1, <1>2, JoinTypes DEF DTypes
<1>4. UNCHANGED <<run, onkey, landed, faults>>
  BY DEF drainVars
<1>5. run' \in [Drains -> [step : {"idle", "picked", "ok", "refused", "error"},
                           row : 0 .. Len(outbox'), attempts : Nat]]
  BY <1>3, <1>4 DEF DTypes
<1>6. \A d \in Drains : Carries(run'[d], outbox')
  BY <1>3, <1>4 DEF DTypes, Carries
<1>7. landed' \in Seq(DOMAIN outbox')
  BY <1>3, <1>4, SeqGrows DEF DTypes
<1> QED
  BY <1>1, <1>3, <1>4, <1>5, <1>6, <1>7 DEF DTypes

(* A row that is rewritten keeps what its place in the queue rests on.     *)
Rewritten(old, row) ==
  /\ row.kind = old.kind /\ row.to = old.to /\ row.content = old.content
  /\ row.created = old.created /\ row.seq = old.seq
  /\ row.attempts <= MAX_ATTEMPTS
  /\ row.state \in {"pending", "failed"} => row.attempts < MAX_ATTEMPTS

LEMMA RewriteDTypes ==
  ASSUME DTypes, NEW i \in DOMAIN outbox, NEW row \in Row, Rewritten(outbox[i], row),
         outbox' = [outbox EXCEPT ![i] = row], UNCHANGED <<now, lc, card, mirror, tx>>
  PROVE  /\ IInv' /\ Coded(outbox') /\ TriesLeft(outbox')
         /\ DOMAIN outbox' = DOMAIN outbox /\ Len(outbox') = Len(outbox)
         /\ outbox'[i] = row /\ \A j \in DOMAIN outbox : j # i => outbox'[j] = outbox[j]
<1>1. outbox \in Seq(Row)
  BY DEF DTypes, IInv, TypeOK
<1>2. /\ DOMAIN outbox' = DOMAIN outbox /\ Len(outbox') = Len(outbox) /\ outbox' \in Seq(Row)
      /\ outbox'[i] = row /\ \A j \in DOMAIN outbox : j # i => outbox'[j] = outbox[j]
  BY <1>1
<1>3. IInv'
  BY <1>2 DEF DTypes, IInv, TypeOK, EventKnown, SealEnds
<1>4. Coded(outbox')
  BY <1>2 DEF DTypes, Coded, Rewritten
<1>5. TriesLeft(outbox')
  BY <1>2 DEF DTypes, TriesLeft, Rewritten
<1> QED
  BY <1>2, <1>3, <1>4, <1>5

(* The rows the drain writes.                                              *)
LEMMA RowsWritten ==
  ASSUME NEW old \in Row, NEW n \in Nat, n < MAX_ATTEMPTS, old.attempts <= MAX_ATTEMPTS
  PROVE  /\ LET row == [old EXCEPT !.state = "blocked"] IN
            row \in Row /\ Rewritten(old, row) /\ row.state = "blocked"
         /\ LET row == Sent(old, n) IN
            row \in Row /\ Rewritten(old, row) /\ row.state = "sent"
         /\ LET row == RetryOrGiveUp(old, n) IN
            row \in Row /\ Rewritten(old, row) /\ row.state \in {"dead_letter", "failed"}
<1>0. MAX_ATTEMPTS \in Nat /\ n + 1 \in Nat /\ n + 1 <= MAX_ATTEMPTS
  BY MaxAttemptsAssumption
<1>1. LET row == [old EXCEPT !.state = "blocked"] IN
      row \in Row /\ Rewritten(old, row) /\ row.state = "blocked"
  BY DEF Row, Rewritten
<1>2. LET row == Sent(old, n) IN
      row \in Row /\ Rewritten(old, row) /\ row.state = "sent"
  BY <1>0 DEF Row, Rewritten, Sent
<1>3. LET row == RetryOrGiveUp(old, n) IN
      row \in Row /\ Rewritten(old, row) /\ row.state \in {"dead_letter", "failed"}
  <2>1. CASE n + 1 >= MAX_ATTEMPTS
    BY <1>0, <2>1 DEF Row, Rewritten, RetryOrGiveUp
  <2>2. CASE ~(n + 1 >= MAX_ATTEMPTS)
    <3>1. RetryOrGiveUp(old, n) =
            [old EXCEPT !.state = "failed", !.attempts = n + 1, !.hold = TRUE]
      BY <2>2 DEF RetryOrGiveUp
    <3>2. n + 1 < MAX_ATTEMPTS
      BY <1>0, <2>2
    <3> QED
      BY <1>0, <3>1, <3>2 DEF Row, Rewritten
  <2> QED
    BY <2>1, <2>2
<1> QED
  BY <1>1, <1>2, <1>3

(* A run that ends, on a queue with the rows it had.                       *)
LEMMA RunEnds ==
  ASSUME DTypes, NEW d \in Drains, run' = [run EXCEPT ![d] = NoRun],
         UNCHANGED <<onkey, landed>>, faults' \in 0 .. MaxFaults,
         IInv', Coded(outbox'), TriesLeft(outbox'),
         DOMAIN outbox' = DOMAIN outbox, Len(outbox') = Len(outbox)
  PROVE  DTypes'
<1>1. NoRun \in [step : {"idle", "picked", "ok", "refused", "error"},
                row : 0 .. Len(outbox), attempts : Nat]
  <2>1. Len(outbox) \in Nat
    BY DEF DTypes, IInv, TypeOK
  <2> QED
    BY <2>1 DEF NoRun
<1>2. run' \in [Drains -> [step : {"idle", "picked", "ok", "refused", "error"},
                           row : 0 .. Len(outbox'), attempts : Nat]]
  BY <1>1 DEF DTypes
<1>3. \A e \in Drains : Carries(run'[e], outbox')
  <2>1. \A e \in Drains : run'[e] = run[e] \/ run'[e] = NoRun
    BY DEF DTypes
  <2>2. NoRun.step = "idle"
    BY DEF NoRun
  <2> QED
    BY <2>1, <2>2 DEF DTypes, Carries
<1> QED
  BY <1>2, <1>3 DEF DTypes

LEMMA BlockDTypes ==
  ASSUME DTypes, NEW d \in Drains, Block(d)
  PROVE  DTypes'
<1> DEFINE i   == run[d].row
           old == outbox[i]
           row == [old EXCEPT !.state = "blocked"]
<1>1. /\ i \in DOMAIN outbox /\ outbox \in Seq(Row)
      /\ run[d].attempts \in Nat /\ run[d].attempts < MAX_ATTEMPTS
  BY DEF DTypes, Block, Carries, IInv, TypeOK
<1>2. old \in Row /\ old.attempts <= MAX_ATTEMPTS
  BY <1>1 DEF DTypes, TriesLeft
<1>3. row \in Row /\ Rewritten(old, row)
  BY <1>1, <1>2, RowsWritten
<1>4. outbox' = [outbox EXCEPT ![i] = row]
  BY <1>1 DEF Block
<1> HIDE DEF i, old, row
<1>5. /\ IInv' /\ Coded(outbox') /\ TriesLeft(outbox')
      /\ DOMAIN outbox' = DOMAIN outbox /\ Len(outbox') = Len(outbox)
  BY <1>1, <1>3, <1>4, RewriteDTypes DEF Block, old
<1> QED
  BY <1>5, RunEnds DEF Block, DTypes

LEMMA RecordDTypes ==
  ASSUME DTypes, NEW d \in Drains, Record(d)
  PROVE  DTypes'
<1> DEFINE i   == run[d].row
           n   == run[d].attempts
           old == outbox[i]
           row == IF run[d].step = "ok" THEN Sent(old, n) ELSE RetryOrGiveUp(old, n)
<1>1. /\ i \in DOMAIN outbox /\ outbox \in Seq(Row)
      /\ n \in Nat /\ n < MAX_ATTEMPTS
  BY DEF DTypes, Record, Carries, IInv, TypeOK
<1>2. old \in Row /\ old.attempts <= MAX_ATTEMPTS
  BY <1>1 DEF DTypes, TriesLeft
<1>3. outbox' = [outbox EXCEPT ![i] = row]
  BY <1>1 DEF Record
<1> HIDE DEF i, n, old
<1>4. row \in Row /\ Rewritten(old, row)
  BY <1>1, <1>2, RowsWritten
<1> HIDE DEF row
<1>5. /\ IInv' /\ Coded(outbox') /\ TriesLeft(outbox')
      /\ DOMAIN outbox' = DOMAIN outbox /\ Len(outbox') = Len(outbox)
  BY <1>1, <1>3, <1>4, RewriteDTypes DEF Record, old
<1> QED
  BY <1>5, RunEnds DEF Record, DTypes

LEMMA KilledDTypes ==
  ASSUME DTypes, NEW d \in Drains, Killed(d)
  PROVE  DTypes'
<1>1. IInv' /\ UNCHANGED outbox
  BY DEF Killed, vars, DTypes, IInv, TypeOK, EventKnown, SealEnds
<1>2. faults' \in 0 .. MaxFaults
  BY MaxFaultsAssumption DEF Killed, Fault, DTypes
<1> QED
  BY <1>1, <1>2, RunEnds DEF Killed, DTypes

LEMMA PickDTypes ==
  ASSUME DTypes, NEW d \in Drains, Pick(d)
  PROVE  DTypes'
<1>1. PICK i \in NextRows(outbox) :
        run' = [run EXCEPT ![d] = [step |-> "picked", row |-> i,
                                   attempts |-> outbox[i].attempts]]
  BY DEF Pick
<1>2. i \in DOMAIN outbox /\ outbox[i].state \in {"pending", "failed"} /\ outbox \in Seq(Row)
  BY DEF NextRows, Heads, Unfinished, DTypes, IInv, TypeOK
<1>3. outbox[i].attempts \in Nat /\ outbox[i].attempts < MAX_ATTEMPTS
  <2>1. outbox[i] \in Row
    BY <1>2
  <2> QED
    BY <1>2, <2>1 DEF DTypes, TriesLeft, Row
<1>4. i \in 0 .. Len(outbox)
  BY <1>2
<1>5. UNCHANGED <<outbox, onkey, landed, faults>> /\ IInv'
  BY DEF Pick, vars, DTypes, IInv, TypeOK, EventKnown, SealEnds
<1>6. run' \in [Drains -> [step : {"idle", "picked", "ok", "refused", "error"},
                           row : 0 .. Len(outbox), attempts : Nat]]
  BY <1>1, <1>3, <1>4 DEF DTypes
<1>7. \A e \in Drains : Carries(run'[e], outbox)
  BY <1>1, <1>2, <1>3 DEF DTypes, Carries
<1> QED
  BY <1>5, <1>6, <1>7 DEF DTypes

LEMMA ExecuteDTypes ==
  ASSUME DTypes, NEW d \in Drains, Execute(d)
  PROVE  DTypes'
<1>1. /\ run[d].step = "picked" /\ run[d].row \in DOMAIN outbox /\ outbox \in Seq(Row)
      /\ UNCHANGED outbox /\ IInv'
  BY DEF Execute, vars, DTypes, Carries, IInv, TypeOK, EventKnown, SealEnds
<1>2. PICK step \in {"ok", "refused", "error"} : Answer(d, step)
  BY DEF Execute
<1>3. run' \in [Drains -> [step : {"idle", "picked", "ok", "refused", "error"},
                           row : 0 .. Len(outbox), attempts : Nat]]
  BY <1>2 DEF DTypes, Answer
<1>4. \A e \in Drains : Carries(run'[e], outbox)
  <2>1. \A e \in Drains : run'[e].row = run[e].row /\ run'[e].attempts = run[e].attempts
                         /\ (run'[e].step # "idle" => run[e].step # "idle")
    BY <1>1, <1>2 DEF DTypes, Answer
  <2> QED
    BY <2>1 DEF DTypes, Carries
<1>5. ASSUME TakeEffect(d)
      PROVE  onkey' \in [status : StatusCodes, booked : Nat] /\ landed' \in Seq(DOMAIN outbox)
  <2>1. outbox[run[d].row].kind = "status_change" => outbox[run[d].row].to \in StatusCodes
    BY <1>1 DEF DTypes, Coded
  <2>2. onkey' \in [status : StatusCodes, booked : Nat]
    BY <1>5, <2>1 DEF TakeEffect, DTypes
  <2>3. landed' \in Seq(DOMAIN outbox)
    BY <1>1, <1>5 DEF TakeEffect, DTypes
  <2> QED
    BY <2>2, <2>3
<1>6. onkey' \in [status : StatusCodes, booked : Nat] /\ landed' \in Seq(DOMAIN outbox)
  BY <1>5 DEF Execute, DTypes
<1>7. faults' \in 0 .. MaxFaults
  BY MaxFaultsAssumption DEF Execute, Fault, DTypes
<1> QED
  BY <1>1, <1>3, <1>4, <1>6, <1>7 DEF DTypes

LEMMA BackoffDTypes ==
  ASSUME DTypes, BackoffOver
  PROVE  DTypes'
<1>1. PICK i \in DOMAIN outbox : outbox' = [outbox EXCEPT ![i].hold = FALSE]
  BY DEF BackoffOver
<1> DEFINE row == [outbox[i] EXCEPT !.hold = FALSE]
<1>2. outbox \in Seq(Row) /\ outbox[i] \in Row
  BY DEF DTypes, IInv, TypeOK
<1>3. row \in Row /\ Rewritten(outbox[i], row)
  BY <1>2 DEF Row, Rewritten, DTypes, TriesLeft
<1>4. outbox' = [outbox EXCEPT ![i] = row]
  BY <1>1
<1> HIDE DEF row
<1>5. /\ IInv' /\ Coded(outbox') /\ TriesLeft(outbox')
      /\ DOMAIN outbox' = DOMAIN outbox /\ Len(outbox') = Len(outbox)
  BY <1>3, <1>4, RewriteDTypes DEF BackoffOver
<1>6. UNCHANGED <<run, onkey, landed, faults>>
  BY DEF BackoffOver, drainVars
<1> QED
  BY <1>5, <1>6 DEF DTypes, Carries

LEMMA ReadSyncDTypes ==
  ASSUME DTypes, ReadSync
  PROVE  DTypes'
<1>1. mirror' \in StatusCodes /\ UNCHANGED <<now, lc, card, outbox, tx, run, onkey, landed, faults>>
  BY DEF ReadSync, drainVars, DTypes
<1> QED
  BY <1>1 DEF DTypes, IInv, TypeOK, EventKnown, SealEnds

LEMMA NextDTypes == DTypes /\ [DrainNext]_allVars => DTypes'
<1> SUFFICES ASSUME DTypes, [DrainNext]_allVars
             PROVE  DTypes'
  OBVIOUS
<1>1. CASE UNCHANGED allVars
  BY <1>1 DEF allVars, vars, drainVars, DTypes, IInv, TypeOK, EventKnown, SealEnds
<1>2. CASE Next /\ UNCHANGED drainVars
  BY <1>2, CallDTypes
<1>3. ASSUME NEW d \in Drains, Pick(d) \/ Block(d) \/ Execute(d) \/ Record(d) \/ Killed(d)
      PROVE  DTypes'
  BY <1>3, PickDTypes, BlockDTypes, ExecuteDTypes, RecordDTypes, KilledDTypes
<1>4. CASE BackoffOver
  BY <1>4, BackoffDTypes
<1>5. CASE ReadSync
  BY <1>5, ReadSyncDTypes
<1> QED
  BY <1>1, <1>2, <1>3, <1>4, <1>5 DEF DrainNext

(* The types of the drain beside the calls, however invocations overlap:   *)
(* the count of attempts stored with a row never exceeds MAX_ATTEMPTS and  *)
(* OnKey holds a status it knows.  This bounds the counter and not the     *)
(* tries: runs that overlap write the same count, and a killed one none.   *)
THEOREM DrainTypes == DrainSpec => []DrainTypeOK
<1>1. DTypes => DrainTypeOK
  BY DEF DTypes, DrainTypeOK, TriesLeft
<1> QED
  BY InitDTypes, NextDTypes, <1>1, PTL DEF DrainSpec


-----------------------------------------------------------------------------
(* One invocation at a time (what the session lease is for): a row a run   *)
(* carries is nobody else's.                                               *)

OneRun == \A d, e \in Drains : run[d].step # "idle" /\ run[e].step # "idle" => d = e

Undone(row) == row.state \in {"pending", "failed"}

(* What becomes of a row that took effect: the run that carries it knows,  *)
(* and then the row says so; a lost call is a fault.                       *)
Known(i) ==
  \/ outbox[i].state = "sent"
  \/ \E d \in Drains : run[d].step = "ok" /\ run[d].row = i

DFate ==
  /\ \A d \in Drains : run[d].step # "idle" => Undone(outbox[run[d].row])
  /\ faults = 0 => \A i \in DOMAIN landed : Known(landed[i])

(* The rows there were, as a call leaves them.                             *)
LEMMA RowsStay ==
  ASSUME DTypes, Next
  PROVE  /\ DOMAIN outbox \subseteq DOMAIN outbox'
         /\ \A i \in DOMAIN outbox : outbox'[i] = outbox[i]
<1>1. PICK added \in Seq(Row) : outbox' = outbox \o added
  BY QueueGrows DEF DTypes
<1> QED
  BY <1>1, Appended DEF DTypes, IInv, TypeOK

LEMMA LandedRows ==
  ASSUME DTypes
  PROVE  \A i \in DOMAIN landed : landed[i] \in DOMAIN outbox
BY DEF DTypes

(* The row a run writes when it ends, and the rows it does not.            *)
LEMMA RunWrites ==
  ASSUME DTypes, NEW d \in Drains, Block(d) \/ Record(d)
  PROVE  LET i == run[d].row IN
         /\ i \in DOMAIN outbox /\ run[d].step # "idle"
         /\ run' = [run EXCEPT ![d] = NoRun] /\ UNCHANGED <<landed, faults>>
         /\ DOMAIN outbox' = DOMAIN outbox
         /\ \A j \in DOMAIN outbox : j # i => outbox'[j] = outbox[j]
         /\ run[d].step = "ok" => outbox'[i].state = "sent"
         /\ outbox'[i].created = outbox[i].created /\ outbox'[i].seq = outbox[i].seq
         /\ outbox'[i].kind = outbox[i].kind /\ outbox'[i].content = outbox[i].content
<1> DEFINE i   == run[d].row
           n   == run[d].attempts
           old == outbox[i]
           row == CASE run[d].step = "picked" -> [old EXCEPT !.state = "blocked"]
                    [] run[d].step = "ok"     -> Sent(old, n)
                    [] OTHER                  -> RetryOrGiveUp(old, n)
<1>1. /\ i \in DOMAIN outbox /\ outbox \in Seq(Row) /\ run[d].step # "idle"
      /\ n \in Nat /\ n < MAX_ATTEMPTS
  BY DEF DTypes, Record, Block, Carries, IInv, TypeOK
<1>2. old \in Row /\ old.attempts <= MAX_ATTEMPTS
  BY <1>1 DEF DTypes, TriesLeft
<1>3. outbox' = [outbox EXCEPT ![i] = row]
  BY <1>1 DEF Record, Block
<1>4. run' = [run EXCEPT ![d] = NoRun] /\ UNCHANGED <<now, lc, card, mirror, tx, landed, faults>>
  BY DEF Record, Block
<1> HIDE DEF n, old
<1>5. row \in Row /\ Rewritten(old, row) /\ (run[d].step = "ok" => row.state = "sent")
  BY <1>1, <1>2, RowsWritten
<1> HIDE DEF row, i
<1>6. /\ DOMAIN outbox' = DOMAIN outbox /\ outbox'[i] = row
      /\ \A j \in DOMAIN outbox : j # i => outbox'[j] = outbox[j]
  BY <1>1, <1>3, <1>4, <1>5, RewriteDTypes DEF old
<1> QED
  BY <1>1, <1>4, <1>5, <1>6 DEF i, old, Rewritten

LEMMA RunEndsFate ==
  ASSUME DTypes, DFate, OneRun, NEW d \in Drains, Block(d) \/ Record(d)
  PROVE  DFate'
<1> DEFINE i == run[d].row
<1>1. /\ i \in DOMAIN outbox /\ run[d].step # "idle"
      /\ run' = [run EXCEPT ![d] = NoRun] /\ UNCHANGED <<landed, faults>>
      /\ \A j \in DOMAIN outbox : j # i => outbox'[j] = outbox[j]
      /\ run[d].step = "ok" => outbox'[i].state = "sent"
  BY RunWrites
<1>2. \A e \in Drains : run'[e].step = "idle"
  BY <1>1 DEF OneRun, DTypes, NoRun
<1>3. ASSUME faults = 0, NEW k \in DOMAIN landed
      PROVE  outbox'[landed[k]].state = "sent"
  <2>1. Known(landed[k]) /\ landed[k] \in DOMAIN outbox
    BY <1>3, LandedRows DEF DFate
  <2>2. CASE outbox[landed[k]].state = "sent"
    <3>1. landed[k] # i
      BY <1>1, <2>2 DEF DFate, Undone
    <3> QED
      BY <1>1, <2>1, <2>2, <3>1
  <2>3. CASE \E e \in Drains : run[e].step = "ok" /\ run[e].row = landed[k]
    <3>1. run[d].step = "ok" /\ i = landed[k]
      BY <1>1, <2>3 DEF OneRun
    <3> QED
      BY <1>1, <3>1
  <2> QED
    BY <2>1, <2>2, <2>3 DEF Known
<1> QED
  BY <1>1, <1>2, <1>3 DEF DFate, Known

LEMMA ExecuteFate ==
  ASSUME DTypes, DFate, OneRun, NEW d \in Drains, Execute(d)
  PROVE  DFate'
<1>1. /\ run[d].step = "picked" /\ UNCHANGED outbox /\ landed \in Seq(DOMAIN outbox)
      /\ faults \in Nat
  BY MaxFaultsAssumption DEF Execute, vars, DTypes
<1>2. PICK step \in {"ok", "refused", "error"} : Answer(d, step)
  BY DEF Execute
<1>3. \A e \in Drains : /\ run'[e].row = run[e].row
                        /\ e # d => run'[e] = run[e]
                        /\ run'[e].step # "idle" => run[e].step # "idle"
  BY <1>1, <1>2 DEF DTypes, Answer
<1>4. \A e \in Drains : run'[e].step # "idle" => Undone(outbox'[run'[e].row])
  BY <1>1, <1>3 DEF DFate
<1>5. ASSUME faults' = 0, NEW k \in DOMAIN landed'
      PROVE  Known(landed[k])'
  <2>1. faults = 0
    BY <1>1, <1>5 DEF Execute, Fault
  <2>2. \A j \in DOMAIN landed : outbox[landed[j]].state = "sent"
    BY <1>1, <2>1 DEF DFate, Known, OneRun
  <2>3. CASE UNCHANGED landed
    BY <1>1, <1>5, <2>2, <2>3 DEF Known
  <2>4. CASE ~UNCHANGED landed
    <3>1. TakeEffect(d) /\ Answer(d, "ok")
      BY <1>1, <1>5, <2>4 DEF Execute, Fault
    <3>2. run'[d].step = "ok"
      BY <3>1 DEF Answer, DTypes
    <3>3. landed' = Append(landed, run[d].row)
      BY <3>1 DEF TakeEffect
    <3>4. (k \in DOMAIN landed /\ landed'[k] = landed[k]) \/ landed'[k] = run[d].row
      BY <1>1, <1>5, <3>3
    <3> QED
      BY <1>1, <1>3, <2>2, <3>2, <3>4 DEF Known
  <2> QED
    BY <2>3, <2>4
<1> QED
  BY <1>4, <1>5 DEF DFate

LEMMA PickFate ==
  ASSUME DTypes, DFate, NEW d \in Drains, Pick(d)
  PROVE  DFate'
<1>1. PICK i \in NextRows(outbox) :
        run' = [run EXCEPT ![d] = [step |-> "picked", row |-> i,
                                   attempts |-> outbox[i].attempts]]
  BY DEF Pick
<1>2. /\ Undone(outbox[i]) /\ run[d].step = "idle"
      /\ UNCHANGED <<outbox, landed, faults>>
  BY DEF NextRows, Heads, Unfinished, Undone, Pick, vars, NoRun
<1>3. /\ run'[d].step = "picked" /\ run'[d].row = i
      /\ \A e \in Drains : e # d => run'[e] = run[e]
  BY <1>1 DEF DTypes
<1>4. \A e \in Drains : run'[e].step # "idle" => Undone(outbox'[run'[e].row])
  BY <1>2, <1>3 DEF DFate
<1>5. ASSUME NEW k, Known(k)
      PROVE  Known(k)'
  BY <1>2, <1>3, <1>5 DEF Known
<1> QED
  BY <1>2, <1>4, <1>5 DEF DFate

LEMMA KilledFate ==
  ASSUME DTypes, DFate, NEW d \in Drains, Killed(d)
  PROVE  DFate'
<1>1. faults' # 0 /\ UNCHANGED outbox
  BY MaxFaultsAssumption DEF Killed, Fault, vars, DTypes
<1>2. \A e \in Drains : run'[e].step # "idle" => run'[e] = run[e]
  BY DEF Killed, NoRun, DTypes
<1> QED
  BY <1>1, <1>2 DEF DFate

(* Steps that leave the runs alone and every row in its state.             *)
LEMMA StatesStayFate ==
  ASSUME DTypes, DFate, UNCHANGED drainVars,
         \A i \in DOMAIN outbox : outbox'[i].state = outbox[i].state
  PROVE  DFate'
<1>1. UNCHANGED <<run, landed, faults>>
  BY DEF drainVars
<1>2. \A d \in Drains : run'[d].step # "idle" => Undone(outbox'[run'[d].row])
  BY <1>1 DEF DTypes, Carries, DFate, Undone
<1>3. ASSUME NEW k \in DOMAIN landed, Known(landed[k])
      PROVE  Known(landed[k])'
  BY <1>1, <1>3, LandedRows DEF Known
<1> QED
  BY <1>1, <1>2, <1>3 DEF DFate

(* What the steps of the queue's other writers do to its rows.             *)
LEMMA BackoffStays ==
  ASSUME DTypes, BackoffOver
  PROVE  /\ DOMAIN outbox' = DOMAIN outbox
         /\ \A i \in DOMAIN outbox : /\ outbox'[i].state = outbox[i].state
                                     /\ outbox'[i].created = outbox[i].created
                                     /\ outbox'[i].seq = outbox[i].seq
                                     /\ outbox'[i].kind = outbox[i].kind
                                     /\ outbox'[i].content = outbox[i].content
<1>1. PICK i \in DOMAIN outbox : outbox' = [outbox EXCEPT ![i].hold = FALSE]
  BY DEF BackoffOver
<1> DEFINE row == [outbox[i] EXCEPT !.hold = FALSE]
<1>2. outbox \in Seq(Row) /\ outbox[i] \in Row
  BY DEF DTypes, IInv, TypeOK
<1>3. /\ row.state = outbox[i].state /\ row.created = outbox[i].created
      /\ row.seq = outbox[i].seq /\ row.kind = outbox[i].kind /\ row.content = outbox[i].content
  BY <1>2 DEF Row
<1>4. outbox' = [outbox EXCEPT ![i] = row]
  BY <1>1
<1> HIDE DEF row
<1> QED
  BY <1>2, <1>3, <1>4

LEMMA NextFate == DTypes /\ DFate /\ OneRun /\ [DrainNext]_allVars => DFate'
<1> SUFFICES ASSUME DTypes, DFate, OneRun, [DrainNext]_allVars
             PROVE  DFate'
  OBVIOUS
<1>1. CASE UNCHANGED allVars
  BY <1>1, StatesStayFate DEF allVars, vars
<1>2. CASE Next /\ UNCHANGED drainVars
  BY <1>2, RowsStay, StatesStayFate
<1>3. ASSUME NEW d \in Drains, Pick(d) \/ Block(d) \/ Execute(d) \/ Record(d) \/ Killed(d)
      PROVE  DFate'
  BY <1>3, PickFate, RunEndsFate, ExecuteFate, KilledFate
<1>4. CASE BackoffOver
  BY <1>4, BackoffStays, StatesStayFate DEF BackoffOver
<1>5. CASE ReadSync
  BY <1>5, StatesStayFate DEF ReadSync
<1> QED
  BY <1>1, <1>2, <1>3, <1>4, <1>5 DEF DrainNext

(* index.ts: while no call is lost and no invocation killed, a row the     *)
(* queue calls given up or blocked never took effect at OnKey.             *)
THEOREM DeadLettersAreTrue == DrainSpec /\ []OneRun => []DeadNeverLanded
<1>1. DrainInit => DFate
  BY DEF DrainInit, DFate, NoRun
<1>2. DFate => DeadNeverLanded
  BY DEF DFate, DeadNeverLanded, Known, Undone
<1> QED
  BY InitDTypes, NextDTypes, NextFate, <1>1, <1>2, PTL DEF DrainSpec


-----------------------------------------------------------------------------
(* The order of the rows.  created_at is the start of the transaction, so  *)
(* a row joins behind all others only while the calls do not overlap.      *)

Stamps ==
  /\ \A c \in Callers : tx[c].op # "idle" => tx[c].start = now
  /\ Older(outbox, now + 1)
  /\ (\E c \in Callers : tx[c].op # "idle") => Older(outbox, now)

CreatedThen(q) == \A i \in DOMAIN q : q[i].created \in Nat

LEMMA RowsCreated ==
  ASSUME NEW q \in Seq(Row)
  PROVE  CreatedThen(q)
<1>1. \A i \in DOMAIN q : q[i] \in Row
  OBVIOUS
<1> QED
  BY <1>1 DEF CreatedThen, Row

LEMMA BeginStamps ==
  ASSUME IInv, Stamps, NEW c \in Callers, NEW t \in Tx, t.op # "idle",
         Begin(c, t), Alone'
  PROVE  Stamps'
<1>1. PICK skew \in Skews : Run(c, [t EXCEPT !.start = now + 1, !.at = now + 1 + skew])
  BY DEF Begin
<1> DEFINE u == [t EXCEPT !.start = now + 1, !.at = now + 1 + skew]
<1>2. u.start = now + 1 /\ u.op = t.op
  BY DEF Tx
<1> HIDE DEF u
<1>3. tx' = [tx EXCEPT ![c] = u] /\ now' = now + 1 /\ outbox' = outbox
  BY <1>1 DEF Run, u, Begin
<1>4. outbox \in Seq(Row) /\ now \in Nat /\ tx \in [Callers -> Tx]
  BY MaxNowAssumption DEF IInv, TypeOK, CreatedAt
<1>5. \A d \in Callers : tx'[d].op # "idle" => tx'[d].start = now'
  BY <1>2, <1>3, <1>4 DEF Alone
<1>6. Older(outbox', now') /\ Older(outbox', now' + 1)
  BY <1>3, <1>4, RowsCreated DEF Stamps, Older, CreatedThen
<1> QED
  BY <1>5, <1>6 DEF Stamps

LEMMA ReadStamps ==
  ASSUME IInv, Stamps, Alone', NEW c \in Callers,
         TransitionRead(c) \/ StandDownRead(c) \/ SaveRead(c) \/ SignRead(c)
  PROVE  Stamps'
<1>1. CASE TransitionRead(c)
  <2>1. PICK event \in {"on_the_way", "start", "pause", "stop"},
             reason \in Reasons \cup {NoReason} :
          Begin(c, [Idle EXCEPT !.op = "transition", !.event = event, !.reason = reason,
                                !.cur = lc, !.mirror = mirror])
    BY <1>1 DEF TransitionRead
  <2> DEFINE t == [Idle EXCEPT !.op = "transition", !.event = event, !.reason = reason,
                               !.cur = lc, !.mirror = mirror]
  <2>2. t \in Tx /\ t.op # "idle"
    BY IdleType DEF Tx, IInv, TypeOK, Events
  <2> QED
    BY <2>1, <2>2, BeginStamps
<1>2. CASE StandDownRead(c)
  <2> DEFINE t == [Idle EXCEPT !.op = "stand_down"]
  <2>1. t \in Tx /\ t.op # "idle"
    BY IdleType DEF Tx
  <2> QED
    BY <1>2, <2>1, BeginStamps DEF StandDownRead
<1>3. CASE SaveRead(c)
  <2>1. PICK content \in Contents : Begin(c, [Idle EXCEPT !.op = "save", !.content = content])
    BY <1>3 DEF SaveRead
  <2> DEFINE t == [Idle EXCEPT !.op = "save", !.content = content]
  <2>2. t \in Tx /\ t.op # "idle"
    BY IdleType DEF Tx
  <2> QED
    BY <2>1, <2>2, BeginStamps
<1>4. CASE SignRead(c)
  <2> DEFINE t == [Idle EXCEPT !.op = "sign", !.content = card.content, !.cur = lc]
  <2>1. t \in Tx /\ t.op # "idle"
    BY IdleType DEF Tx, IInv, TypeOK, Card
  <2> QED
    BY <1>4, <2>1, BeginStamps DEF SignRead
<1> QED
  BY <1>1, <1>2, <1>3, <1>4

(* Rows join behind every row there is.                                    *)
LEMMA JoinBehind ==
  ASSUME IInv, Stamps, [Next]_vars
  PROVE  \E added \in Seq(Row) :
           /\ outbox' = outbox \o added
           /\ added # <<>> => Stamped(added, now) /\ Older(outbox, now)
<1>1. PICK added \in Seq(Row) :
        /\ outbox' = outbox \o added
        /\ added # <<>> => \E c \in Callers : tx[c].op # "idle" /\ Stamped(added, tx[c].start)
  BY QueueGrows
<1>2. added # <<>> => Stamped(added, now) /\ Older(outbox, now)
  BY <1>1 DEF Stamps
<1> QED
  BY <1>1, <1>2

LEMMA EndStamps ==
  ASSUME IInv, Stamps, Alone, [Next]_vars, NEW c \in Callers, tx[c].op # "idle",
         Run(c, Idle), now' = now
  PROVE  Stamps'
<1>1. \A d \in Callers : tx'[d].op = "idle"
  BY NoneRuns
<1>2. outbox \in Seq(Row) /\ now \in Nat
  BY MaxNowAssumption DEF IInv, TypeOK, CreatedAt
<1>3. PICK added \in Seq(Row) :
        /\ outbox' = outbox \o added
        /\ added # <<>> => Stamped(added, now)
  BY JoinBehind
<1>4. Older(added, now + 1)
  <2>1. CASE added = <<>>
    BY <2>1 DEF Older
  <2>2. CASE added # <<>>
    BY <1>2, <1>3, <2>2 DEF Stamped, Older
  <2> QED
    BY <2>1, <2>2
<1>5. Older(outbox', now + 1)
  <2>1. Older(outbox, now + 1)
    BY DEF Stamps
  <2>2. Older(outbox \o added, now + 1)
    BY <1>2, <1>4, <2>1, OlderGrows
  <2> QED
    BY <1>3, <2>2
<1> QED
  BY <1>1, <1>5 DEF Stamps

LEMMA SealStamps ==
  ASSUME IInv, Stamps, Alone, Next, NEW c \in Callers, Seal(c)
  PROVE  Stamps'
<1>1. tx[c].op # "idle" /\ now' = now /\ tx[c] \in Tx
  BY DEF Seal, IInv, TypeOK
<1>2. CASE Run(c, Idle)
  BY <1>1, <1>2, EndStamps
<1>3. CASE ~Run(c, Idle)
  <2> DEFINE u == [tx[c] EXCEPT !.op = "transition", !.event = SignEvent(tx[c].cur), !.cur = lc,
                                !.mirror = mirror, !.seal = tx[c].content]
  <2>1. tx' = [tx EXCEPT ![c] = u] /\ UNCHANGED <<now, outbox>>
    BY <1>3 DEF Seal, Run
  <2>2. u.start = tx[c].start
    BY <1>1 DEF Tx
  <2> HIDE DEF u
  <2>3. \A d \in Callers : tx'[d].start = tx[d].start
    BY <2>1, <2>2 DEF IInv, TypeOK
  <2>4. \A d \in Callers : tx'[d].op # "idle" => tx[d].op # "idle"
    BY <1>1, <2>1 DEF IInv, TypeOK
  <2> QED
    BY <2>1, <2>3, <2>4 DEF Stamps
<1> QED
  BY <1>2, <1>3

LEMMA NextStamps == IInv /\ Stamps /\ Alone /\ Alone' /\ [Next]_vars => Stamps'
<1> SUFFICES ASSUME IInv, Stamps, Alone, Alone', [Next]_vars
             PROVE  Stamps'
  OBVIOUS
<1>1. CASE UNCHANGED vars
  BY <1>1 DEF vars, Stamps
<1>2. ASSUME NEW c \in Callers,
             TransitionRead(c) \/ StandDownRead(c) \/ SaveRead(c) \/ SignRead(c)
      PROVE  Stamps'
  BY <1>2, ReadStamps
<1>3. ASSUME NEW c \in Callers,
             TransitionClash(c) \/ TransitionCommit(c) \/ StandDownCommit(c)
             \/ SaveCommit(c) \/ SealRefused(c)
      PROVE  Stamps'
  <2>1. tx[c].op # "idle" /\ Run(c, Idle) /\ now' = now
    BY <1>3 DEF TransitionClash, TransitionCommit, StandDownCommit, SaveCommit, SealRefused,
                RollBack
  <2> QED
    BY <2>1, EndStamps
<1>4. ASSUME Next, NEW c \in Callers, Seal(c)
      PROVE  Stamps'
  BY <1>4, SealStamps
<1> QED
  BY <1>1, <1>2, <1>3, <1>4 DEF Next

(* A row a run has picked is behind no row that is left to do.             *)
HeadPicked ==
  \A d \in Drains : run[d].step = "picked" =>
    \A j \in DOMAIN outbox : Before(outbox[j], outbox[run[d].row]) => Settled(outbox[j])

LEMMA StampsStay ==
  ASSUME DTypes, Stamps, UNCHANGED <<now, tx>>, DOMAIN outbox' = DOMAIN outbox,
         \A i \in DOMAIN outbox : outbox'[i].created = outbox[i].created
  PROVE  Stamps'
BY DEF Stamps, Older

LEMMA CallHead ==
  ASSUME DTypes, Stamps, HeadPicked, Next, UNCHANGED drainVars
  PROVE  HeadPicked'
<1>1. outbox \in Seq(Row) /\ now \in Nat /\ UNCHANGED run
  BY MaxNowAssumption DEF DTypes, IInv, TypeOK, CreatedAt, drainVars
<1>2. PICK added \in Seq(Row) :
        /\ outbox' = outbox \o added
        /\ added # <<>> => Stamped(added, now) /\ Older(outbox, now)
  BY JoinBehind DEF DTypes
<1>3. /\ \A i \in DOMAIN outbox : i \in DOMAIN outbox' /\ outbox'[i] = outbox[i]
      /\ \A i \in DOMAIN outbox' \ DOMAIN outbox : outbox'[i].created = now
      /\ (\E i \in DOMAIN outbox' : i \notin DOMAIN outbox) => Older(outbox, now)
  <2>1. /\ \A i \in DOMAIN outbox : i \in DOMAIN outbox' /\ outbox'[i] = outbox[i]
        /\ \A i \in DOMAIN outbox' \ DOMAIN outbox :
             i - Len(outbox) \in DOMAIN added /\ outbox'[i] = added[i - Len(outbox)]
    BY <1>1, <1>2, Appended
  <2>2. (\E i \in DOMAIN outbox' : i \notin DOMAIN outbox) => added # <<>>
    BY <1>1, <1>2
  <2> QED
    BY <1>2, <2>1, <2>2 DEF Stamped
<1>4. ASSUME NEW d \in Drains, run[d].step = "picked", NEW j \in DOMAIN outbox',
             Before(outbox'[j], outbox'[run[d].row])
      PROVE  Settled(outbox'[j])
  <2>1. run[d].row \in DOMAIN outbox
    BY <1>4 DEF DTypes, Carries
  <2>2. CASE j \in DOMAIN outbox
    BY <1>3, <1>4, <2>1, <2>2 DEF HeadPicked
  <2>3. CASE j \notin DOMAIN outbox
    <3>1. outbox'[j].created = now /\ outbox'[run[d].row].created < now
      BY <1>3, <1>4, <2>1, <2>3 DEF Older
    <3>2. outbox'[run[d].row].created \in Nat
      BY <1>1, <1>3, <2>1, RowsCreated DEF CreatedThen
    <3> QED
      BY <1>1, <1>4, <3>1, <3>2 DEF Before
  <2> QED
    BY <2>2, <2>3
<1> QED
  BY <1>1, <1>4 DEF HeadPicked

LEMMA PickHead ==
  ASSUME DTypes, HeadPicked, NEW d \in Drains, Pick(d)
  PROVE  HeadPicked'
<1>1. PICK i \in NextRows(outbox) :
        run' = [run EXCEPT ![d] = [step |-> "picked", row |-> i,
                                   attempts |-> outbox[i].attempts]]
  BY DEF Pick
<1>2. run'[d].row = i /\ \A e \in Drains : e # d => run'[e] = run[e]
  BY <1>1 DEF DTypes
<1>3. ASSUME NEW j \in DOMAIN outbox, Before(outbox[j], outbox[i])
      PROVE  Settled(outbox[j])
  <2>1. outbox[j] \in Row
    BY DEF DTypes, IInv, TypeOK
  <2>2. outbox[j].state \notin {"pending", "failed"}
    BY <1>3 DEF NextRows, Heads, Unfinished
  <2> QED
    BY <2>1, <2>2 DEF Row, Settled
<1> QED
  BY <1>2, <1>3 DEF HeadPicked, Pick, vars

LEMMA NextOrder ==
  DTypes /\ Stamps /\ HeadPicked /\ OneRun /\ Alone /\ Alone' /\ [DrainNext]_allVars
    => Stamps' /\ HeadPicked'
<1> SUFFICES ASSUME DTypes, Stamps, HeadPicked, OneRun, Alone, Alone', [DrainNext]_allVars
             PROVE  Stamps' /\ HeadPicked'
  OBVIOUS
<1>1. ASSUME UNCHANGED <<now, tx, outbox>>,
             \A d \in Drains : run'[d].step = "picked" => run'[d] = run[d]
      PROVE  Stamps' /\ HeadPicked'
  BY <1>1 DEF Stamps, HeadPicked
<1>2. CASE UNCHANGED allVars
  BY <1>1, <1>2 DEF allVars, vars, drainVars
<1>3. CASE Next /\ UNCHANGED drainVars
  BY <1>3, NextStamps, CallHead DEF DTypes
<1>4. ASSUME NEW d \in Drains, Pick(d)
      PROVE  Stamps' /\ HeadPicked'
  <2>1. UNCHANGED <<now, tx, outbox>>
    BY <1>4 DEF Pick, vars
  <2> QED
    BY <1>4, <2>1, PickHead DEF Stamps
<1>5. ASSUME NEW d \in Drains, Execute(d) \/ Killed(d)
      PROVE  Stamps' /\ HeadPicked'
  <2>1. UNCHANGED <<now, tx, outbox>>
    BY <1>5 DEF Execute, Killed, vars
  <2>2. \A e \in Drains : run'[e].step = "picked" => run'[e] = run[e]
    <3>1. CASE Execute(d)
      <4>1. PICK step \in {"ok", "refused", "error"} : Answer(d, step)
        BY <3>1 DEF Execute
      <4> QED
        BY <4>1 DEF Answer, DTypes
    <3>2. CASE Killed(d)
      BY <3>2 DEF Killed, NoRun, DTypes
    <3> QED
      BY <1>5, <3>1, <3>2
  <2> QED
    BY <1>1, <2>1, <2>2
<1>6. ASSUME NEW d \in Drains, Block(d) \/ Record(d)
      PROVE  Stamps' /\ HeadPicked'
  <2>1. LET i == run[d].row IN
        /\ i \in DOMAIN outbox /\ run[d].step # "idle"
        /\ run' = [run EXCEPT ![d] = NoRun]
        /\ DOMAIN outbox' = DOMAIN outbox
        /\ \A j \in DOMAIN outbox : j # i => outbox'[j] = outbox[j]
        /\ outbox'[i].created = outbox[i].created
    BY <1>6, RunWrites
  <2>2. \A e \in Drains : run'[e].step # "picked"
    BY <2>1 DEF OneRun, DTypes, NoRun
  <2>3. UNCHANGED <<now, tx>>
    BY <1>6 DEF Block, Record
  <2> QED
    BY <2>1, <2>2, <2>3, StampsStay DEF HeadPicked
<1>7. CASE BackoffOver
  <2>1. /\ DOMAIN outbox' = DOMAIN outbox /\ UNCHANGED <<now, tx, run>>
        /\ \A i \in DOMAIN outbox : /\ outbox'[i].state = outbox[i].state
                                    /\ outbox'[i].created = outbox[i].created
                                    /\ outbox'[i].seq = outbox[i].seq
    BY <1>7, BackoffStays DEF BackoffOver, drainVars
  <2>2. HeadPicked'
    BY <2>1 DEF HeadPicked, Before, Settled, DTypes, Carries
  <2> QED
    BY <2>1, <2>2, StampsStay
<1>8. CASE ReadSync
  BY <1>1, <1>8 DEF ReadSync, drainVars
<1> QED
  BY <1>2, <1>3, <1>4, <1>5, <1>6, <1>7, <1>8 DEF DrainNext

(* 049: while neither the calls nor the invocations overlap, a row reaches *)
(* OnKey only when every row before it has been sent or given up, whatever *)
(* OnKey refuses and however invocations die.                              *)
THEOREM NothingOvertakes == DrainSpec /\ []OneRun /\ []Alone => NoOvertaking
<1>1. DrainInit => Stamps /\ HeadPicked
  BY IdleType DEF DrainInit, Init, Stamps, Older, HeadPicked, NoRun
<1>2. DTypes /\ HeadPicked /\ [DrainNext]_allVars =>
        [\A i \in DOMAIN landed' \ DOMAIN landed :
           \A j \in DOMAIN outbox : Before(outbox[j], outbox[landed'[i]]) => Settled(outbox[j])
        ]_allVars
  <2> SUFFICES ASSUME DTypes, HeadPicked, [DrainNext]_allVars,
                      NEW i \in DOMAIN landed' \ DOMAIN landed, NEW j \in DOMAIN outbox,
                      Before(outbox[j], outbox[landed'[i]])
               PROVE  Settled(outbox[j])
    OBVIOUS
  <2>1. landed' # landed
    OBVIOUS
  <2>2. PICK d \in Drains : Execute(d)
    BY <2>1 DEF DrainNext, allVars, drainVars, Pick, Block, Record, Killed, BackoffOver, ReadSync
  <2>3. run[d].step = "picked" /\ landed' = Append(landed, run[d].row)
    BY <2>1, <2>2 DEF Execute, TakeEffect
  <2>4. landed'[i] = run[d].row
    <3>1. landed \in Seq(DOMAIN outbox) /\ run[d].row \in DOMAIN outbox
      BY <2>3 DEF DTypes, Carries
    <3>2. /\ DOMAIN landed = 1 .. Len(landed) /\ DOMAIN landed' = 1 .. Len(landed) + 1
          /\ Len(landed) \in Nat /\ landed'[Len(landed) + 1] = run[d].row
      BY <2>3, <3>1
    <3>3. i = Len(landed) + 1
      BY <3>2
    <3> QED
      BY <3>2, <3>3
  <2> QED
    BY <2>3, <2>4 DEF HeadPicked
<1> QED
  BY InitDTypes, NextDTypes, NextOrder, <1>1, <1>2, PTL DEF DrainSpec, NoOvertaking

-----------------------------------------------------------------------------
(* What OnKey books.  AInv speaks of the queue the calls fill; here of the *)
(* costing that took effect, beside whatever the drain does.               *)

BookedAsSigned ==
  faults = 0 =>
    \/ onkey.booked = 0
    \/ /\ onkey.booked = 1 /\ card.state = "signed"
       /\ \E k \in DOMAIN landed : /\ landed[k] \in Costings
                                   /\ outbox[landed[k]].content = card.content

(* One booking, and it is that of a row of the queue.                      *)
BookedLanded ==
  faults = 0 =>
    \/ onkey.booked = 0
    \/ onkey.booked = 1 /\ \E k \in DOMAIN landed : landed[k] \in CostingsIn(outbox)

(* Steps of the drain and of the read sync leave a row the write it is.    *)
DrainStep ==
  \/ \E d \in Drains : Pick(d) \/ Block(d) \/ Execute(d) \/ Record(d) \/ Killed(d)
  \/ BackoffOver
  \/ ReadSync
  \/ UNCHANGED allVars

WritesStay ==
  /\ DOMAIN outbox' = DOMAIN outbox
  /\ \A i \in DOMAIN outbox : /\ outbox'[i].kind = outbox[i].kind
                              /\ outbox'[i].content = outbox[i].content

LEMMA DrainWritesStay ==
  ASSUME DTypes, DrainStep
  PROVE  WritesStay /\ UNCHANGED <<now, lc, card, tx>>
<1>1. CASE UNCHANGED <<now, lc, card, tx, outbox>>
  BY <1>1 DEF WritesStay
<1>2. ASSUME NEW d \in Drains, Block(d) \/ Record(d)
      PROVE  WritesStay /\ UNCHANGED <<now, lc, card, tx>>
  <2>1. LET i == run[d].row IN
        /\ DOMAIN outbox' = DOMAIN outbox
        /\ \A j \in DOMAIN outbox : j # i => outbox'[j] = outbox[j]
        /\ outbox'[i].kind = outbox[i].kind /\ outbox'[i].content = outbox[i].content
    BY <1>2, RunWrites
  <2>2. UNCHANGED <<now, lc, card, tx>>
    BY <1>2 DEF Block, Record
  <2> QED
    BY <2>1, <2>2 DEF WritesStay
<1>3. CASE BackoffOver
  BY <1>3, BackoffStays DEF BackoffOver, WritesStay
<1> QED
  BY <1>1, <1>2, <1>3 DEF DrainStep, Pick, Execute, Killed, ReadSync, vars, allVars

LEMMA WritesStayAlone ==
  ASSUME AInv, WritesStay, UNCHANGED <<now, lc, card, tx>>
  PROVE  AInv'
<1>1. CostingsIn(outbox') = CostingsIn(outbox)
  BY DEF WritesStay, CostingsIn
<1>2. \A i \in CostingsIn(outbox) : outbox'[i].content = outbox[i].content
  BY DEF WritesStay, CostingsIn
<1>3. Books(outbox', card')
  BY <1>1, <1>2 DEF AInv, Books
<1> QED
  BY <1>3 DEF AInv, ReadsCurrent, DraftFilled, TimesFit, SealFinishes, HandedBack

LEMMA DrainAlone ==
  DTypes /\ AInv /\ Alone /\ Alone' /\ [DrainNext]_allVars => AInv'
<1> SUFFICES ASSUME DTypes, AInv, Alone, Alone', [DrainNext]_allVars
             PROVE  AInv'
  OBVIOUS
<1>1. CASE Next
  BY <1>1, NextAlone DEF DTypes
<1>2. CASE DrainStep
  BY <1>2, DrainWritesStay, WritesStayAlone
<1> QED
  BY <1>1, <1>2 DEF DrainNext, DrainStep

(* A step at which nothing takes effect: what was booked stays booked.     *)
LEMMA BookedStays ==
  ASSUME DTypes, BookedLanded, UNCHANGED <<onkey, landed>>, faults' = 0 => faults = 0,
         \A i \in DOMAIN outbox : i \in DOMAIN outbox' /\ outbox'[i].kind = outbox[i].kind
  PROVE  BookedLanded'
<1>1. \A k \in DOMAIN landed : landed[k] \in CostingsIn(outbox) => landed[k] \in CostingsIn(outbox')
  BY LandedRows DEF CostingsIn
<1> QED
  BY <1>1 DEF BookedLanded

(* The one costing takes effect once: a row that did is sent, and the row  *)
(* a run carries to OnKey is not.                                          *)
LEMMA ExecuteBooks ==
  ASSUME DTypes, DFate, OneRun, AInv, BookedLanded, NEW d \in Drains, Execute(d)
  PROVE  BookedLanded'
<1> DEFINE i == run[d].row
<1>1. /\ run[d].step = "picked" /\ i \in DOMAIN outbox /\ UNCHANGED outbox
      /\ faults \in Nat /\ landed \in Seq(DOMAIN outbox)
      /\ onkey \in [status : StatusCodes, booked : Nat]
  BY MaxFaultsAssumption DEF Execute, vars, DTypes, Carries
<1>2. CASE UNCHANGED <<onkey, landed>>
  <2>1. faults' = 0 => faults = 0
    BY <1>1 DEF Execute, Fault
  <2> QED
    BY <1>1, <1>2, <2>1, BookedStays
<1>3. CASE ~UNCHANGED <<onkey, landed>>
  <2> SUFFICES ASSUME faults' = 0
               PROVE  \/ onkey'.booked = 0
                      \/ /\ onkey'.booked = 1
                         /\ \E k \in DOMAIN landed' : landed'[k] \in CostingsIn(outbox')
    BY DEF BookedLanded
  <2>1. TakeEffect(d) /\ faults = 0
    BY <1>1, <1>3 DEF Execute, Fault
  <2>2. /\ landed' = Append(landed, i)
        /\ onkey' = IF outbox[i].kind = "status_change"
                    THEN [onkey EXCEPT !.status = outbox[i].to]
                    ELSE [onkey EXCEPT !.booked = @ + 1]
    BY <2>1 DEF TakeEffect
  <2>3. /\ \A k \in DOMAIN landed : k \in DOMAIN landed' /\ landed'[k] = landed[k]
        /\ Len(landed) + 1 \in DOMAIN landed' /\ landed'[Len(landed) + 1] = i
    BY <1>1, <2>2
  <2>4. CASE outbox[i].kind = "status_change"
    <3>1. onkey'.booked = onkey.booked
      BY <1>1, <2>2, <2>4
    <3> QED
      BY <1>1, <2>1, <2>3, <3>1 DEF BookedLanded
  <2>5. CASE outbox[i].kind # "status_change"
    <3>1. i \in CostingsIn(outbox)
      <4>1. outbox[i] \in Row
        BY <1>1 DEF DTypes, IInv, TypeOK
      <4> QED
        BY <1>1, <2>5, <4>1 DEF Row, CostingsIn
    <3>2. onkey.booked = 0
      <4>1. ASSUME NEW k \in DOMAIN landed, landed[k] \in CostingsIn(outbox)
            PROVE  FALSE
        <5>1. landed[k] = i
          BY <3>1, <4>1 DEF AInv, Books
        <5>2. Undone(outbox[i])
          BY <1>1 DEF DFate
        <5>3. outbox[landed[k]].state = "sent"
          BY <1>1, <2>1 DEF DFate, Known, OneRun
        <5> QED
          BY <5>1, <5>2, <5>3 DEF Undone
      <4> QED
        BY <2>1, <4>1 DEF BookedLanded
    <3>3. onkey'.booked = 1
      BY <1>1, <2>2, <2>5, <3>2
    <3> QED
      BY <1>1, <2>3, <3>1, <3>3
  <2> QED
    BY <2>4, <2>5
<1> QED
  BY <1>2, <1>3

LEMMA NextBooks ==
  DTypes /\ DFate /\ OneRun /\ AInv /\ BookedLanded /\ [DrainNext]_allVars => BookedLanded'
<1> SUFFICES ASSUME DTypes, DFate, OneRun, AInv, BookedLanded, [DrainNext]_allVars
             PROVE  BookedLanded'
  OBVIOUS
<1>1. CASE \E d \in Drains : Execute(d)
  BY <1>1, ExecuteBooks
<1>2. CASE Next /\ UNCHANGED drainVars
  BY <1>2, RowsStay, BookedStays DEF drainVars
<1>3. CASE DrainStep /\ ~(\E d \in Drains : Execute(d))
  <2>1. UNCHANGED <<onkey, landed>> /\ (faults' = 0 => faults = 0)
    <3>1. faults \in Nat
      BY MaxFaultsAssumption DEF DTypes
    <3>2. ASSUME NEW d \in Drains, Pick(d) \/ Block(d) \/ Record(d) \/ Killed(d)
          PROVE  UNCHANGED <<onkey, landed>> /\ (faults' = 0 => faults = 0)
      <4>1. CASE Pick(d)
        BY <4>1 DEF Pick
      <4>2. CASE Block(d)
        BY <4>2 DEF Block
      <4>3. CASE Record(d)
        BY <4>3 DEF Record
      <4>4. CASE Killed(d)
        BY <3>1, <4>4 DEF Killed, Fault
      <4> QED
        BY <3>2, <4>1, <4>2, <4>3, <4>4
    <3>3. ASSUME BackoffOver \/ ReadSync \/ UNCHANGED allVars
          PROVE  UNCHANGED <<onkey, landed, faults>>
      BY <3>3 DEF BackoffOver, ReadSync, allVars, drainVars
    <3> QED
      BY <1>3, <3>2, <3>3 DEF DrainStep
  <2>2. WritesStay
    BY <1>3, DrainWritesStay
  <2> QED
    BY <2>1, <2>2, BookedStays DEF WritesStay
<1> QED
  BY <1>1, <1>2, <1>3 DEF DrainNext, DrainStep

(* 110, 049 and index.ts together: while neither the calls nor the         *)
(* invocations overlap and no call is lost, OnKey books a job's costing    *)
(* once at most, and the one it books is the card the client signed,       *)
(* however often OnKey refuses and the drain tries again.                  *)
THEOREM BookedOnce == DrainSpec /\ []OneRun /\ []Alone => []BookedAsSigned
<1>1. DrainInit => DFate /\ AInv /\ BookedLanded
  BY InitAlone DEF DrainInit, DFate, NoRun, BookedLanded
<1>2. DTypes /\ AInv /\ BookedLanded => BookedAsSigned
  <2> SUFFICES ASSUME DTypes, AInv, BookedLanded, faults = 0, onkey.booked # 0
               PROVE  /\ onkey.booked = 1 /\ card.state = "signed"
                      /\ \E k \in DOMAIN landed : /\ landed[k] \in Costings
                                                  /\ outbox[landed[k]].content = card.content
    BY DEF BookedAsSigned
  <2>1. Costings = CostingsIn(outbox)
    BY DEF Costings, CostingsIn
  <2>2. PICK k \in DOMAIN landed : landed[k] \in CostingsIn(outbox)
    BY DEF BookedLanded
  <2>3. card.state = "signed" /\ outbox[landed[k]].content = card.content
    BY <2>2 DEF AInv, Books
  <2> QED
    BY <2>1, <2>2, <2>3 DEF BookedLanded
<1> QED
  BY InitDTypes, NextDTypes, NextFate, DrainAlone, NextBooks, <1>1, <1>2, PTL DEF DrainSpec
-----------------------------------------------------------------------------
(* The page of the job: PageLeadsOn for a technician who waits.            *)

Services == [row : Lifecycle, card : CardFlags, listed : BOOLEAN, calibration : BOOLEAN,
             divergence : BOOLEAN]
CallKinds == {"list", "card", "event", "stand_down", "sign", "calibration", "seen"}
Verbs     == {"event", "stand_down", "sign"}
IsCall(c) ==
  c \in [kind : CallKinds, event : {"none", "on_the_way", "start", "pause"},
         reason : Reasons \cup {NoReason}, on : BOOLEAN, before : {c.before}, answer : {c.answer}]
ScreenTyped ==
  /\ service \in Services /\ records \in JobRecords \cup {NotYet}
  /\ page \in Pages \cup {NotYet} /\ \A c \in calls : IsCall(c)

\* A record as the server has it.
Tells(job, row) == job.state = StateOf(row) /\ job.blocks = (row.reason \in Blocking)
Agrees(job)     == Tells(job, service.row)
\* No call that moves the job has been served and not been answered.
InSync == \A c \in calls : c.kind \in Verbs => c.answer \in {NotYet, Refusal}
\* A page shows the copy, and asks for the reason of a pause only once the work has begun.
Shows(p, list) ==
  /\ p.load = "ready" => p.job # NotYet
  /\ p.job # NotYet => /\ list # NotYet
                       /\ p.job.state = list.state /\ p.job.blocks = list.blocks
  /\ p.pausing => p.job # NotYet /\ p.job.state \in {"started", "stopped", "signed_off"}

\* The job is listed, no call waits for signal, and a card is signed only with a job that is
\* signed off or handed back.
ServerFit ==
  /\ service.listed /\ owed = << >> /\ service.row.state # "stopped"
  /\ service.row.state = "signed_off" => service.card.signed
  /\ service.card.signed => service.row.state = "signed_off" \/ HandedBack(service.row)
Single   == \A c \in calls : c.kind \notin {"list", "card"} => calls = {c}
CopyFits == InSync /\ records # NotYet => Agrees(records)
PageFits ==
  page # NotYet => Shows(page, records) /\ (Signed(page) => service.card.signed)
AnswersFit ==
  \A c \in calls : c.answer # NotYet =>
    /\ c.kind = "card" => c.answer \in CardFlags /\ (c.answer.signed => service.card.signed)
    /\ c.kind = "list" => /\ c.answer \in ListAnswers
                          /\ c.answer.list # Unlisted /\ Agrees(c.answer.list)
    /\ c.kind \in {"event", "stand_down"} /\ c.answer # Refusal =>
         c.answer \in JobRecords /\ Agrees(c.answer)
    /\ c.kind = "sign" /\ c.answer # Refusal /\ records # NotYet => Agrees(SignLocally(records))
    /\ c.answer = Refusal => c.kind \in Verbs
VerbsFit ==
  \A c \in calls :
    /\ c.kind \in {"event", "stand_down"} =>
         page # NotYet /\ page.job # NotYet /\ page.at = "page"
    /\ c.kind = "event" => c.event # "none" /\ (c.event = "pause" => c.reason \in Reasons)
    /\ c.kind = "sign"  => page # NotYet /\ page.at = "signoff"
    /\ c.answer = NotYet => Accepts(c) \/ LeftOpen(c)
Waiting   == ScreenTyped /\ ServerFit /\ Single /\ CopyFits /\ PageFits /\ AnswersFit /\ VerbsFit
ScreenInv == ~rushed => Waiting

(* What an event makes of the row.                                         *)
LEMMA MovedRow ==
  ASSUME NEW event \in Events, NEW reason \in Reasons \cup {NoReason}, NEW row \in Lifecycle
  PROVE  LET to == Moved(event, reason, row) IN
         /\ to \in Lifecycle
         /\ to.state = CASE event = "on_the_way" -> "on_the_way" [] event = "start" -> "started"
                         [] event = "pause" -> "paused" [] event = "stop" -> "stopped"
                         [] event = "sign_off" -> "signed_off"
         /\ event \notin {"start", "pause"} => to.reason = row.reason
         /\ event = "pause" => to.reason = reason
<1> CreatedAt \in Int
  BY DEF CreatedAt
<1>1. Moved(event, reason, row) \in Lifecycle
  BY ApplyType DEF Moved
<1>2. CASE event = "on_the_way"
  BY <1>1, <1>2 DEF Moved, Apply, Lifecycle
<1>3. CASE event = "start"
  BY <1>1, <1>3 DEF Moved, Apply, Lifecycle
<1>4. CASE event = "pause"
  BY <1>1, <1>4 DEF Moved, Apply, Lifecycle
<1>5. CASE event = "stop"
  BY <1>1, <1>5 DEF Moved, Apply, Lifecycle
<1>6. CASE event = "sign_off"
  BY <1>1, <1>6 DEF Moved, Apply, Lifecycle
<1> QED
  BY <1>2, <1>3, <1>4, <1>5, <1>6 DEF Events

LEMMA SignedOffRow ==
  ASSUME NEW row \in Lifecycle
  PROVE  /\ SignedOff(row) \in Lifecycle /\ SignedOff(row).state = "signed_off"
         /\ SignedOff(row).reason = row.reason
<1> NoReason \in Reasons \cup {NoReason} /\ "stop" \in Events /\ "sign_off" \in Events
  BY DEF Events
<1>1. Stopped(row) \in Lifecycle /\ Stopped(row).reason = row.reason
  BY MovedRow DEF Stopped
<1> HIDE DEF Stopped
<1> QED
  BY <1>1, MovedRow DEF SignedOff

LEMMA RecordType ==
  ASSUME NEW s \in Services, s.listed
  PROVE  /\ RecordOf(s) \in JobRecords
         /\ RecordOf(s).state = StateOf(s.row)
         /\ RecordOf(s).blocks = (s.row.reason \in Blocking)
BY DEF RecordOf, Services, JobRecords, StateOf, Lifecycle, LifeStates

\* The markers are none of the values they stand beside.
LEMMA Markers ==
  /\ NotYet \notin JobRecords /\ NotYet \notin CardFlags /\ NotYet \notin ListAnswers
  /\ NotYet \notin Pages /\ Unlisted \notin JobRecords /\ Refusal \notin JobRecords
  /\ NotYet # Unlisted /\ NotYet # Refusal /\ Refusal \notin CardFlags
  /\ Refusal \notin ListAnswers
BY ScreenAssumption

(* What the page makes of a copy.                                          *)
LEMMA LoadShows ==
  ASSUME NEW p \in Pages, NEW list \in JobRecords \cup {NotYet}, Shows(p, list)
  PROVE  LET shown == Load(list, p) IN
         /\ shown \in Pages /\ shown.at = p.at /\ shown.card = p.card
         /\ Shows(shown, list)
<1>1. CASE list = NotYet
  <2>1. Load(list, p) = [p EXCEPT !.load = IF @ = "ready" THEN @ ELSE "loading"]
    BY <1>1 DEF Load
  <2> QED
    BY <1>1, <2>1 DEF Pages, Shows
<1>2. CASE list \in JobRecords
  <2>1. Load(list, p) = [p EXCEPT !.job = list, !.load = "ready"]
    BY <1>2, Markers DEF Load, ShowJob
  <2> QED
    BY <1>2, <2>1, Markers DEF Pages, Shows
<1> QED
  BY <1>1, <1>2

LEMMA ReadsAccepted ==
  ASSUME NEW c, c.kind \in CallKinds \ Verbs
  PROVE  Accepts(c)
BY DEF CallKinds, Verbs, Accepts

LEMMA CallType ==
  /\ \A kind \in CallKinds : IsCall(Call(kind)) /\ Call(kind).kind = kind
                             /\ Call(kind).answer = NotYet
  /\ \A list : LET c == [Call("list") EXCEPT !.before = list] IN
       IsCall(c) /\ c.kind = "list" /\ c.answer = NotYet
<1> NoReason \in Reasons \cup {NoReason}
  OBVIOUS
<1> QED
  BY DEF Call, IsCall, CallKinds

(* A technician who waits acts when no call is under way, and at most one  *)
(* call beside those that read follows.                                    *)
LEMMA ActsAlone ==
  ASSUME ~rushed', rushed' = (rushed \/ calls # {})
  PROVE  ~rushed /\ calls = {}
OBVIOUS

LEMMA SentFits ==
  ASSUME Waiting, calls = {}, UNCHANGED <<service, records, owed>>,
         page' \in Pages \cup {NotYet}, PageFits', VerbsFit',
         \A c \in calls' : /\ IsCall(c) /\ c.answer = NotYet
                           /\ c.kind \notin {"list", "card"} => calls' = {c}
  PROVE  Waiting'
<1>1. ScreenTyped'
  BY DEF Waiting, ScreenTyped, IsCall
<1>2. ServerFit'
  BY DEF Waiting, ServerFit
<1>3. Single'
  BY DEF Single
<1>4. CopyFits'
  BY DEF Waiting, CopyFits, InSync, Agrees, Tells
<1>5. AnswersFit'
  BY DEF AnswersFit
<1> QED
  BY <1>1, <1>2, <1>3, <1>4, <1>5 DEF Waiting

\* Reads alone cannot be refused.
LEMMA ReadsFit ==
  ASSUME \A c \in calls' : c.kind \in {"list", "card"}
  PROVE  VerbsFit'
<1>1. \A c \in calls' : Accepts(c)'
  BY DEF Accepts
<1> QED
  BY <1>1 DEF VerbsFit

LEMMA FocusCalls ==
  ASSUME NEW list, NEW p, NEW c \in OnFocus(list, p)
  PROVE  IsCall(c) /\ c.answer = NotYet /\ c.kind \in {"list", "card"}
<1>1. c = [Call("list") EXCEPT !.before = list] \/ c = Call("card")
  BY DEF OnFocus
<1>2. "card" \in CallKinds
  BY DEF CallKinds
<1>3. LET d == [Call("list") EXCEPT !.before = list] IN
        IsCall(d) /\ d.kind = "list" /\ d.answer = NotYet
  BY CallType
<1>4. IsCall(Call("card")) /\ Call("card").kind = "card" /\ Call("card").answer = NotYet
  BY <1>2, CallType
<1> QED
  BY <1>1, <1>3, <1>4

LEMMA FocusFits ==
  ASSUME Waiting, calls = {}, NEW p \in Pages, Focus(p), UNCHANGED <<service, records, owed>>,
         Shows(p, records), Signed(p) => service.card.signed
  PROVE  Waiting'
<1> DEFINE home == [p EXCEPT !.at = "page"]
           shown == Load(records, home)
<1>1. home \in Pages /\ Shows(home, records) /\ home.card = p.card
  BY DEF Pages, Shows
<1>2. records \in JobRecords \cup {NotYet}
  BY DEF Waiting, ScreenTyped
<1> HIDE DEF home
<1>3. shown \in Pages /\ shown.card = p.card /\ Shows(shown, records)
  BY <1>1, <1>2, LoadShows
<1>4. page' = shown /\ calls' = OnFocus(records, shown)
  BY DEF Focus, Make, home
<1> HIDE DEF shown
<1>5. PageFits'
  BY <1>3, <1>4 DEF PageFits, Signed
<1>6. \A c \in calls' : IsCall(c) /\ c.answer = NotYet /\ c.kind \in {"list", "card"}
  BY <1>4, FocusCalls
<1>7. VerbsFit'
  BY <1>6, ReadsFit
<1> QED
  BY <1>3, <1>4, <1>5, <1>6, <1>7, SentFits

LEMMA OpenWaits ==
  ASSUME Waiting, ~rushed', Open
  PROVE  Waiting'
<1>1. calls = {} /\ Focus(NewPage) /\ UNCHANGED <<service, records, owed>>
  BY ActsAlone DEF Open, Rush
<1>2. NewPage \in Pages /\ Shows(NewPage, records) /\ ~Signed(NewPage)
  BY DEF NewPage, Pages, Shows, Signed
<1> QED
  BY <1>1, <1>2, FocusFits

LEMMA ReturnsWait ==
  ASSUME Waiting, ~rushed', TryAgain \/ ComeBack
  PROVE  Waiting'
<1>1. calls = {} /\ page # NotYet /\ Focus(page) /\ UNCHANGED <<service, records, owed>>
  BY ActsAlone DEF TryAgain, ComeBack, Rush
<1>2. page \in Pages /\ Shows(page, records) /\ (Signed(page) => service.card.signed)
  BY <1>1 DEF Waiting, ScreenTyped, PageFits
<1> QED
  BY <1>1, <1>2, FocusFits

LEMMA LeaveWaits ==
  ASSUME Waiting, ~rushed', Leave
  PROVE  Waiting'
<1>1. calls = {} /\ calls' = {} /\ page' = NotYet /\ UNCHANGED <<service, records, owed>>
  BY ActsAlone DEF Leave, Rush
<1>2. PageFits' /\ VerbsFit'
  BY <1>1 DEF PageFits, VerbsFit
<1> QED
  BY <1>1, <1>2, SentFits

(* What is on the page when its buttons can be tapped.                     *)
LEMMA UpFits ==
  ASSUME Waiting, calls = {}, Up
  PROVE  /\ page \in Pages /\ page # NotYet /\ page.at = "page" /\ page.job \in JobRecords
         /\ records \in JobRecords /\ Agrees(page.job)
         /\ Signed(page) => service.row.state = "signed_off" \/ HandedBack(service.row)
<1>1. page \in Pages /\ page # NotYet /\ page.job # NotYet /\ page.at = "page"
  BY DEF Up, Waiting, ScreenTyped, PageFits, Shows
<1>2. page.job \in JobRecords /\ records \in JobRecords
  BY <1>1 DEF Pages, Waiting, ScreenTyped, PageFits, Shows
<1>3. Agrees(records)
  BY <1>2, Markers DEF Waiting, CopyFits, InSync
<1>4. Agrees(page.job)
  BY <1>1, <1>3 DEF Waiting, PageFits, Shows, Agrees, Tells
<1> QED
  BY <1>1, <1>2, <1>4 DEF Waiting, PageFits, ServerFit

\* One call of the page, which the server accepts as the page stands.
LEMMA VerbSent ==
  ASSUME Waiting, calls = {}, Up, NEW c, IsCall(c), c.kind \in {"event", "stand_down"},
         c.kind = "event" => c.event # "none" /\ (c.event = "pause" => c.reason \in Reasons),
         c.answer = NotYet, Accepts(c) \/ LeftOpen(c), Send(c),
         UNCHANGED <<service, records, owed>>
  PROVE  Waiting'
<1>1. calls' = {c} /\ page' = [page EXCEPT !.busy = TRUE]
  BY DEF Send, Make
<1>2. page \in Pages /\ page # NotYet /\ page.at = "page" /\ page.job # NotYet
  BY UpFits, Markers
<1>3. page' \in Pages /\ page' # NotYet /\ page'.at = "page" /\ page'.job = page.job
      /\ page'.load = page.load /\ page'.pausing = page.pausing /\ page'.card = page.card
  BY <1>1, <1>2, Markers DEF Pages
<1>4. PageFits'
  BY <1>2, <1>3 DEF Waiting, PageFits, Shows, Signed
<1>5. Accepts(c)' \/ LeftOpen(c)'
  BY <1>3 DEF Accepts, LeftOpen, Phase
<1>6. VerbsFit'
  BY <1>1, <1>2, <1>3, <1>5 DEF VerbsFit
<1> QED
  BY <1>1, <1>3, <1>4, <1>6, SentFits

LEMMA TapWaits ==
  ASSUME Waiting, ~rushed', Tap
  PROVE  Waiting'
<1>1. calls = {} /\ Up /\ UNCHANGED <<service, records, owed>>
  BY ActsAlone DEF Tap, Rush
<1>2. PICK verb \in Offered(page.job) : Passes(verb, page) /\ onVerb(verb)
  BY DEF Tap
<1> DEFINE state == StateOf(service.row)
<1>3. /\ page \in Pages /\ page # NotYet /\ page.at = "page" /\ page.job \in JobRecords
      /\ Agrees(page.job)
      /\ Signed(page) => service.row.state = "signed_off" \/ HandedBack(service.row)
      /\ service.listed
  BY <1>1, UpFits DEF Waiting, ServerFit
<1>4. CASE verb = "pause"
  <2>1. page' = [page EXCEPT !.pausing = TRUE] /\ calls' = {}
    BY <1>1, <1>2, <1>4 DEF onVerb
  <2>2. page.job.state = "started" /\ page.job # NotYet
    BY <1>2, <1>3, <1>4, Markers DEF Offered
  <2>3. page' \in Pages /\ PageFits' /\ VerbsFit'
    BY <1>1, <1>3, <2>1, <2>2 DEF Pages, Waiting, PageFits, Shows, Signed, VerbsFit
  <2> QED
    BY <1>1, <2>1, <2>3, SentFits
<1>5. CASE verb = "stand_down"
  <2>1. Send(Call("stand_down")) /\ page.job.state = "on_the_way"
    BY <1>2, <1>5 DEF onVerb, Offered
  <2>2. Accepts(Call("stand_down"))
    BY <1>3, <2>1 DEF Accepts, Call, Agrees, Tells, StateOf
  <2> QED
    BY <1>1, <2>1, <2>2, CallType, VerbSent DEF CallKinds
<1>6. CASE verb = "stop"
  <2>1. page.job.state \in {"started", "paused"} /\ ~(page.job.state = "paused" /\ page.job.blocks)
    BY <1>2, <1>6 DEF Offered
  <2>2. ~Signed(page)
    BY <1>3, <2>1 DEF Agrees, Tells, StateOf, HandedBack
  <2>3. page' = [page EXCEPT !.at = "signoff"] /\ calls' = {}
    BY <1>1, <1>2, <1>6, <2>2 DEF onVerb, Complete
  <2>4. page' \in Pages /\ PageFits' /\ VerbsFit'
    BY <1>1, <1>3, <2>3 DEF Pages, Waiting, PageFits, Shows, Signed, VerbsFit
  <2> QED
    BY <1>1, <2>3, <2>4, SentFits
<1>7. CASE verb \in {"on_the_way", "start"}
  <2> DEFINE c == EventCall(verb, NoReason)
  <2>1. Send(c)
    BY <1>2, <1>7 DEF onVerb
  <2>2. IsCall(c) /\ c.kind = "event" /\ c.event = verb /\ c.answer = NotYet
    BY <1>7 DEF EventCall, Call, IsCall, CallKinds
  <2>3. Allowed(verb, service.row)
    BY <1>2, <1>3, <1>7 DEF Offered, Agrees, Tells, Allowed, HandedBack, StateOf
  <2> HIDE DEF c
  <2>4. Accepts(c)
    BY <1>3, <2>2, <2>3 DEF Accepts
  <2> QED
    BY <1>1, <1>7, <2>1, <2>2, <2>4, VerbSent
<1> QED
  BY <1>2, <1>4, <1>5, <1>6, <1>7 DEF Offered

LEMMA ConfirmPauseWaits ==
  ASSUME Waiting, ~rushed', ConfirmPause
  PROVE  Waiting'
<1>1. calls = {} /\ Up /\ page.pausing /\ UNCHANGED <<service, records, owed>>
  BY ActsAlone DEF ConfirmPause, Rush
<1>2. PICK reason \in Reasons : Send(EventCall("pause", reason))
  BY DEF ConfirmPause
<1> DEFINE c == EventCall("pause", reason)
<1>3. IsCall(c) /\ c.kind = "event" /\ c.event = "pause" /\ c.reason = reason
      /\ c.answer = NotYet
  BY DEF EventCall, Call, IsCall, CallKinds
<1>4. page \in Pages /\ Agrees(page.job) /\ page.job # NotYet /\ service.listed
      /\ page.job.state \in {"started", "stopped", "signed_off"}
  BY <1>1, UpFits DEF Waiting, PageFits, Shows, ServerFit
<1> HIDE DEF c
<1>5. CASE page.job.state = "started"
  <2>1. Accepts(c)
    BY <1>3, <1>4, <1>5 DEF Accepts, Allowed, Agrees, Tells
  <2> QED
    BY <1>1, <1>2, <1>3, <2>1, VerbSent DEF c
<1>6. CASE page.job.state \in {"stopped", "signed_off"}
  <2>1. LeftOpen(c)
    BY <1>3, <1>4, <1>6 DEF LeftOpen, Phase
  <2> QED
    BY <1>1, <1>2, <1>3, <2>1, VerbSent DEF c
<1> QED
  BY <1>4, <1>5, <1>6

LEMMA CancelPauseWaits ==
  ASSUME Waiting, CancelPause
  PROVE  Waiting'
<1>1. page \in Pages /\ page # NotYet /\ page' = [page EXCEPT !.pausing = FALSE]
      /\ UNCHANGED <<service, records, calls, owed>>
  BY DEF CancelPause, Up, Waiting, ScreenTyped
<1>2. page' \in Pages /\ page' # NotYet /\ page'.at = page.at /\ page'.job = page.job
      /\ page'.load = page.load /\ ~page'.pausing /\ page'.card = page.card
  BY <1>1, Markers DEF Pages
<1>3. ScreenTyped'
  BY <1>1, <1>2 DEF Waiting, ScreenTyped, IsCall
<1>4. ServerFit' /\ Single' /\ CopyFits'
  BY <1>1 DEF Waiting, ServerFit, Single, CopyFits, InSync, Agrees, Tells
<1>5. PageFits'
  BY <1>1, <1>2 DEF Waiting, PageFits, Shows, Signed
<1>6. AnswersFit'
  BY <1>1 DEF Waiting, AnswersFit, Agrees, Tells
<1>7. \A c \in calls : Accepts(c) \/ LeftOpen(c) => Accepts(c)' \/ LeftOpen(c)'
  BY <1>1, <1>2 DEF Accepts, LeftOpen, Phase
<1>8. VerbsFit'
  BY <1>1, <1>2, <1>7 DEF Waiting, VerbsFit
<1> QED
  BY <1>3, <1>4, <1>5, <1>6, <1>8 DEF Waiting

LEMMA FillCardWaits ==
  ASSUME Waiting, ~rushed', FillCard
  PROVE  Waiting'
<1>1. calls = {} /\ calls' = {} /\ Up /\ UNCHANGED <<records, owed>>
  BY ActsAlone DEF FillCard, Rush
<1>2. PICK visit, written \in BOOLEAN :
        /\ page' = [[page EXCEPT !.visit = visit, !.written = written] EXCEPT !.dirty = TRUE]
        /\ service' = IF service.card.signed THEN service
                      ELSE [service EXCEPT !.card = [@ EXCEPT !.visit = visit,
                                                              !.written = written]]
  BY DEF FillCard
<1>3. page \in Pages /\ service \in Services
  BY <1>1, UpFits DEF Waiting, ScreenTyped
<1>4. page' \in Pages /\ page'.job = page.job /\ page'.load = page.load
      /\ page'.pausing = page.pausing /\ page'.card = page.card
  BY <1>2, <1>3 DEF Pages
<1>5. service.card \in CardFlags
  BY <1>3 DEF Services
<1> DEFINE filled == [service.card EXCEPT !.visit = visit, !.written = written]
<1>6. filled \in CardFlags /\ filled.signed = service.card.signed
  BY <1>5 DEF CardFlags
<1> HIDE DEF filled
<1>7. service' = service \/ service' = [service EXCEPT !.card = filled]
  BY <1>2 DEF filled
<1>8. service' \in Services /\ service'.row = service.row /\ service'.listed = service.listed
      /\ service'.card.signed = service.card.signed
  BY <1>3, <1>6, <1>7 DEF Services
<1>9. ScreenTyped'
  BY <1>1, <1>4, <1>8 DEF Waiting, ScreenTyped
<1>10. ServerFit' /\ CopyFits'
  BY <1>1, <1>8 DEF Waiting, ServerFit, CopyFits, InSync, Agrees, Tells
<1>11. PageFits'
  BY <1>1, <1>4, <1>8 DEF Waiting, PageFits, Shows, Signed, Up
<1>12. Single' /\ AnswersFit' /\ VerbsFit'
  BY <1>1 DEF Single, AnswersFit, VerbsFit
<1> QED
  BY <1>9, <1>10, <1>11, <1>12 DEF Waiting

LEMMA ToggleWaits ==
  ASSUME Waiting, ~rushed', ToggleCalibration
  PROVE  Waiting'
<1> DEFINE c == [Call("calibration") EXCEPT !.on = ~page.job.calibration,
                                            !.before = page.job.calibration]
<1>1. calls = {} /\ calls' = {c} /\ Up /\ page' = [page EXCEPT !.job.calibration = ~@]
      /\ UNCHANGED <<service, records, owed>>
  BY ActsAlone DEF ToggleCalibration, Rush, Make
<1>2. page \in Pages /\ page.job \in JobRecords /\ page # NotYet
  BY <1>1, UpFits
<1> DEFINE job == [page.job EXCEPT !.calibration = ~@]
<1>3. job \in JobRecords /\ job.state = page.job.state /\ job.blocks = page.job.blocks
      /\ job # NotYet
  BY <1>2, Markers DEF JobRecords
<1>4. page.job.calibration \in BOOLEAN
  BY <1>2 DEF JobRecords
<1>5. IsCall(c) /\ c.kind = "calibration" /\ c.answer = NotYet
  BY <1>4 DEF Call, IsCall, CallKinds
<1> HIDE DEF c
<1>6. page' = [page EXCEPT !.job = job]
  BY <1>1, <1>2 DEF Pages
<1> HIDE DEF job
<1>7. page' \in Pages /\ page'.job = job /\ page'.load = page.load
      /\ page'.pausing = page.pausing /\ page'.card = page.card
  BY <1>2, <1>3, <1>6 DEF Pages
<1>8. PageFits'
  BY <1>1, <1>2, <1>3, <1>7, Markers DEF Waiting, PageFits, Shows, Signed
<1>9. VerbsFit'
  BY <1>1, <1>5 DEF VerbsFit, Accepts
<1> QED
  BY <1>1, <1>5, <1>7, <1>8, <1>9, SentFits

LEMMA SeenWaits ==
  ASSUME Waiting, ~rushed', Seen
  PROVE  Waiting'
<1>1. calls = {} /\ calls' = {Call("seen")} /\ UNCHANGED <<service, records, page, owed>>
  BY ActsAlone DEF Seen, Rush, Make
<1>2. IsCall(Call("seen")) /\ Call("seen").kind = "seen" /\ Call("seen").answer = NotYet
  BY CallType DEF CallKinds
<1>3. page' \in Pages \cup {NotYet} /\ PageFits'
  BY <1>1 DEF Waiting, ScreenTyped, PageFits, Shows, Signed
<1>4. VerbsFit'
  BY <1>1, <1>2 DEF VerbsFit, Accepts
<1> QED
  BY <1>1, <1>2, <1>3, <1>4, SentFits

LEMMA GoToWaits ==
  ASSUME Waiting, ~rushed', GoTo
  PROVE  Waiting'
<1>1. calls = {} /\ calls' = {} /\ Up /\ UNCHANGED <<service, records, owed>>
  BY ActsAlone DEF GoTo, Rush
<1>2. PICK way \in {"signoff", "elsewhere"} : page' = [page EXCEPT !.at = way]
  BY DEF GoTo, Ways
<1>3. page \in Pages
  BY <1>1, UpFits
<1>4. page' \in Pages /\ page'.job = page.job /\ page'.load = page.load
      /\ page'.pausing = page.pausing /\ page'.card = page.card
  BY <1>2, <1>3 DEF Pages
<1>5. PageFits' /\ VerbsFit'
  BY <1>1, <1>4 DEF Waiting, PageFits, Shows, Signed, Up, VerbsFit
<1> QED
  BY <1>1, <1>4, <1>5, SentFits

LEMMA ClientSignatureWaits ==
  ASSUME Waiting, ~rushed', ClientSignature
  PROVE  Waiting'
<1> DEFINE c == Call("sign")
<1>1. /\ calls = {} /\ calls' = {c} /\ UNCHANGED <<service, records, page, owed>>
      /\ page # NotYet /\ page.at = "signoff" /\ ~service.card.signed
      /\ StateOf(service.row) \notin {"not_started", "on_the_way"}
  BY ActsAlone DEF ClientSignature, Rush, Make
<1>2. IsCall(c) /\ c.kind = "sign" /\ c.answer = NotYet
  BY CallType DEF CallKinds
<1>3. page' \in Pages \cup {NotYet} /\ PageFits'
  BY <1>1 DEF Waiting, ScreenTyped, PageFits, Shows, Signed
<1> HIDE DEF c
<1>4. service.listed /\ service.row \in Lifecycle
      /\ service.row.state \notin {"stopped", "signed_off"}
  BY <1>1 DEF Waiting, ServerFit, ScreenTyped, Services
<1>5. StateOf(service.row) \in {"started", "paused"} /\ Closing(service.row) = "stop"
  BY <1>1, <1>4 DEF StateOf, Closing, Lifecycle, LifeStates
<1>6. Accepts(c)
  BY <1>1, <1>2, <1>4, <1>5 DEF Accepts, Allowed
<1>7. Accepts(c)'
  BY <1>1, <1>6 DEF Accepts
<1>8. VerbsFit'
  BY <1>1, <1>2, <1>7 DEF VerbsFit
<1> QED
  BY <1>1, <1>2, <1>3, <1>8, SentFits

(* The server takes up a call: its answer is what it has become.           *)
LEMMA ServeRead ==
  ASSUME Waiting, NEW c \in calls, ServeCall(c), c.kind \notin Verbs
  PROVE  Waiting'
<1> DEFINE d == [c EXCEPT !.answer = AnswerTo(c, Outcome(c))]
<1>1. IsCall(c) /\ c.kind \in CallKinds \ Verbs
  BY DEF Waiting, ScreenTyped, IsCall
<1>2. Accepts(c)
  BY <1>1, ReadsAccepted
<1>3. service' = Outcome(c) /\ calls' = (calls \ {c}) \cup {d}
      /\ UNCHANGED <<records, page, owed>>
  BY <1>2 DEF ServeCall
<1>4. service \in Services /\ service.listed
  BY DEF Waiting, ScreenTyped, ServerFit
<1>5. /\ service' \in Services /\ service'.row = service.row /\ service'.card = service.card
      /\ service'.listed
  <2>1. c.on \in BOOLEAN
    BY <1>1 DEF IsCall
  <2>2. Outcome(c) \in {[service EXCEPT !.calibration = c.on],
                        [service EXCEPT !.divergence = FALSE], service}
    BY <1>1 DEF Outcome, Verbs, CallKinds
  <2> QED
    BY <1>3, <1>4, <2>1, <2>2 DEF Services
<1>6. IsCall(d) /\ d.kind = c.kind /\ d.answer = AnswerTo(c, service')
  BY <1>1, <1>3 DEF IsCall
<1> HIDE DEF d
<1>7. ScreenTyped'
  <2>1. \A e \in calls' : IsCall(e)
    BY <1>3, <1>6 DEF Waiting, ScreenTyped
  <2> QED
    BY <1>3, <1>5, <2>1 DEF Waiting, ScreenTyped, IsCall
<1>8. ServerFit'
  BY <1>3, <1>5 DEF Waiting, ServerFit
<1>9. Single'
  BY <1>3, <1>6 DEF Waiting, Single
<1>10. CopyFits'
  <2>1. InSync' => InSync
    BY <1>1, <1>3 DEF InSync
  <2> QED
    BY <1>3, <1>5, <2>1 DEF Waiting, CopyFits, Agrees, Tells
<1>11. PageFits'
  BY <1>3, <1>5 DEF Waiting, PageFits
<1>12. RecordOf(service') \in JobRecords /\ Agrees(RecordOf(service'))
  BY <1>5, RecordType DEF Agrees, Tells
<1>13. d.kind = "card" => d.answer \in CardFlags /\ d.answer = service.card
  BY <1>4, <1>5, <1>6 DEF AnswerTo, Services
<1>14. d.kind = "list" => /\ d.answer \in ListAnswers /\ d.answer.list # Unlisted
                          /\ Agrees(d.answer.list)
  <2> SUFFICES ASSUME d.kind = "list"
               PROVE  /\ d.answer \in ListAnswers /\ d.answer.list # Unlisted
                      /\ Agrees(d.answer.list)
    OBVIOUS
  <2>1. d.answer = [list |-> RecordOf(service'), divergence |-> service'.divergence]
    BY <1>6 DEF AnswerTo
  <2>2. service'.divergence \in BOOLEAN
    BY <1>5 DEF Services
  <2> QED
    BY <1>12, <2>1, <2>2, Markers DEF ListAnswers
<1>15. d.answer # Refusal
  <2>1. d.kind \in {"list", "calibration", "seen"} =>
          d.answer = [list |-> RecordOf(service'), divergence |-> service'.divergence]
    BY <1>6 DEF AnswerTo
  <2>2. service'.divergence \in BOOLEAN
    BY <1>5 DEF Services
  <2>3. d.kind \in {"list", "calibration", "seen"} => d.answer \in ListAnswers
    BY <1>12, <2>1, <2>2 DEF ListAnswers
  <2> QED
    BY <1>1, <1>6, <1>13, <2>3, Markers DEF CallKinds, Verbs
<1>16. AnswersFit'
  <2>1. \A job : Agrees(job)' <=> Agrees(job)
    BY <1>5 DEF Agrees, Tells
  <2> QED
    BY <1>1, <1>3, <1>5, <1>6, <1>13, <1>14, <1>15, <2>1 DEF Waiting, AnswersFit, Verbs
<1>17. VerbsFit'
  BY <1>1, <1>3, <1>5, <1>6 DEF Waiting, VerbsFit, Verbs, Accepts, LeftOpen
<1> QED
  BY <1>7, <1>8, <1>9, <1>10, <1>11, <1>16, <1>17 DEF Waiting

LEMMA ServeRefused ==
  ASSUME Waiting, NEW c \in calls, ServeCall(c), c.kind \in Verbs, ~Accepts(c)
  PROVE  Waiting'
<1> DEFINE d == [c EXCEPT !.answer = Refusal]
<1>1. IsCall(c) /\ calls = {c}
  BY DEF Waiting, ScreenTyped, Single, Verbs
<1>2. calls' = {d} /\ UNCHANGED <<service, records, page, owed>>
  BY <1>1 DEF ServeCall
<1>3. IsCall(d) /\ d.kind = c.kind /\ d.answer = Refusal /\ d.event = c.event
      /\ d.reason = c.reason
  BY <1>1 DEF IsCall
<1>4. c.answer = NotYet
  BY DEF ServeCall
<1> HIDE DEF d
<1>5. ScreenTyped' /\ ServerFit' /\ Single' /\ PageFits'
  BY <1>2, <1>3 DEF Waiting, ScreenTyped, IsCall, ServerFit, Single, PageFits, Shows, Signed
<1>6. CopyFits'
  BY <1>1, <1>2, <1>4 DEF Waiting, CopyFits, InSync, Agrees, Tells
<1>7. AnswersFit'
  BY <1>2, <1>3 DEF AnswersFit, Verbs
<1>8. VerbsFit'
  BY <1>1, <1>2, <1>3, Markers DEF Waiting, VerbsFit
<1> QED
  BY <1>5, <1>6, <1>7, <1>8 DEF Waiting

\* What is left when a call that moves the job has been accepted.
LEMMA ServedFits ==
  ASSUME Waiting, NEW c \in calls, c.kind \in Verbs, NEW answer, answer \notin {NotYet, Refusal},
         calls' = (calls \ {c}) \cup {[c EXCEPT !.answer = answer]},
         UNCHANGED <<records, page, owed>>, service' \in Services, ServerFit',
         service.card.signed => service'.card.signed,
         c.kind \in {"event", "stand_down"} => answer \in JobRecords /\ Tells(answer, service'.row),
         c.kind = "sign" /\ records # NotYet => Agrees(SignLocally(records))'
  PROVE  Waiting'
<1> DEFINE d == [c EXCEPT !.answer = answer]
<1>1. IsCall(c) /\ calls = {c} /\ calls' = {d}
  BY DEF Waiting, ScreenTyped, Single, Verbs
<1>2. IsCall(d) /\ d.kind = c.kind /\ d.answer = answer /\ d.event = c.event
      /\ d.reason = c.reason
  BY <1>1 DEF IsCall
<1> HIDE DEF d
<1>3. ScreenTyped' /\ Single'
  BY <1>1, <1>2 DEF Waiting, ScreenTyped, IsCall, Single
<1>4. CopyFits'
  BY <1>1, <1>2 DEF CopyFits, InSync
<1>5. PageFits'
  BY DEF Waiting, PageFits, Shows, Signed
<1>6. AnswersFit'
  BY <1>1, <1>2 DEF AnswersFit, Agrees, Verbs
<1>7. VerbsFit'
  BY <1>1, <1>2 DEF Waiting, VerbsFit
<1> QED
  BY <1>3, <1>4, <1>5, <1>6, <1>7 DEF Waiting

LEMMA ServeEvent ==
  ASSUME Waiting, NEW c \in calls, ServeCall(c), c.kind = "event", Accepts(c)
  PROVE  Waiting'
<1>1. IsCall(c) /\ c.event \in {"on_the_way", "start", "pause"}
      /\ c.reason \in Reasons \cup {NoReason}
  BY DEF Waiting, ScreenTyped, VerbsFit, IsCall
<1>2. service \in Services /\ service.row \in Lifecycle /\ service.listed
  BY DEF Waiting, ScreenTyped, ServerFit, Services
<1> DEFINE row == Moved(c.event, c.reason, service.row)
<1>3. row \in Lifecycle /\ row.state \in {"on_the_way", "started", "paused"}
  <2>1. c.event \in Events
    BY <1>1 DEF Events
  <2> QED
    BY <1>1, <1>2, <2>1, MovedRow
<1>4. Outcome(c) = [service EXCEPT !.row = row]
  BY <1>1 DEF Outcome
<1> HIDE DEF row
<1>5. service' = Outcome(c) /\ UNCHANGED <<records, page, owed>>
      /\ calls' = (calls \ {c}) \cup {[c EXCEPT !.answer = AnswerTo(c, Outcome(c))]}
  BY DEF ServeCall
<1>6. service' \in Services /\ service'.row = row /\ service'.card = service.card
      /\ service'.listed
  BY <1>2, <1>3, <1>4, <1>5 DEF Services
<1>7. AnswerTo(c, Outcome(c)) = RecordOf(service')
  BY <1>5 DEF AnswerTo
<1>8. RecordOf(service') \in JobRecords /\ Tells(RecordOf(service'), service'.row)
  BY <1>6, RecordType DEF Agrees, Tells
<1>9. ~service.card.signed
  <2>1. Allowed(c.event, service.row)
    BY DEF Accepts
  <2> QED
    BY <1>1, <2>1 DEF Allowed, StateOf, HandedBack, Waiting, ServerFit
<1>10. ServerFit'
  BY <1>3, <1>5, <1>6, <1>9 DEF Waiting, ServerFit
<1>11. RecordOf(service') \notin {NotYet, Refusal}
  BY <1>8, Markers
<1> DEFINE answer == AnswerTo(c, Outcome(c))
<1> HIDE DEF answer
<1>12. answer \notin {NotYet, Refusal} /\ answer \in JobRecords /\ Tells(answer, service'.row)
       /\ calls' = (calls \ {c}) \cup {[c EXCEPT !.answer = answer]}
  BY <1>5, <1>7, <1>8, <1>11 DEF answer
<1> QED
  BY <1>5, <1>6, <1>10, <1>12, ServedFits DEF Verbs

LEMMA ServeStandDown ==
  ASSUME Waiting, NEW c \in calls, ServeCall(c), c.kind = "stand_down", Accepts(c)
  PROVE  Waiting'
<1>1. service \in Services /\ service.row \in Lifecycle /\ service.listed
      /\ service.row.state = "on_the_way"
  BY DEF Waiting, ScreenTyped, ServerFit, Services, Accepts
<1> DEFINE row == [service.row EXCEPT !.state = "not_started"]
<1>2. row \in Lifecycle /\ row.state = "not_started"
  BY <1>1 DEF Lifecycle, LifeStates
<1>3. Outcome(c) = [service EXCEPT !.row = row]
  <2>1. Outcome(c) = [service EXCEPT !.row.state = "not_started"]
    BY DEF Outcome
  <2> QED
    BY <1>1, <2>1 DEF Services
<1> HIDE DEF row
<1>4. service' = Outcome(c) /\ UNCHANGED <<records, page, owed>>
      /\ calls' = (calls \ {c}) \cup {[c EXCEPT !.answer = AnswerTo(c, Outcome(c))]}
  BY DEF ServeCall
<1>5. service' \in Services /\ service'.row = row /\ service'.card = service.card
      /\ service'.listed
  BY <1>1, <1>2, <1>3, <1>4 DEF Services
<1> DEFINE answer == AnswerTo(c, Outcome(c))
<1>6. answer = RecordOf(service')
  BY <1>4 DEF AnswerTo
<1>7. RecordOf(service') \in JobRecords /\ Tells(RecordOf(service'), service'.row)
  BY <1>5, RecordType DEF Agrees, Tells
<1>8. ServerFit'
  BY <1>1, <1>2, <1>4, <1>5 DEF Waiting, ServerFit, HandedBack
<1> HIDE DEF answer
<1>9. answer \notin {NotYet, Refusal} /\ answer \in JobRecords /\ Tells(answer, service'.row)
      /\ calls' = (calls \ {c}) \cup {[c EXCEPT !.answer = answer]}
  <2>1. calls' = (calls \ {c}) \cup {[c EXCEPT !.answer = answer]}
    BY <1>4 DEF answer
  <2> QED
    BY <1>6, <1>7, <2>1, Markers
<1> QED
  BY <1>4, <1>5, <1>8, <1>9, ServedFits DEF Verbs

LEMMA ServeSign ==
  ASSUME Waiting, NEW c \in calls, ServeCall(c), c.kind = "sign", Accepts(c)
  PROVE  Waiting'
<1>1. service \in Services /\ service.row \in Lifecycle /\ service.listed
      /\ service.card \in CardFlags /\ service.row.state # "stopped"
  BY DEF Waiting, ScreenTyped, ServerFit, Services
<1> DEFINE row == IF HandedBack(service.row) THEN service.row ELSE SignedOff(service.row)
           sealed == [service.card EXCEPT !.signed = TRUE]
<1>2. row \in Lifecycle /\ row.reason = service.row.reason
      /\ IF HandedBack(service.row) THEN row.state = "paused" ELSE row.state = "signed_off"
  BY <1>1, SignedOffRow DEF HandedBack
<1>3. sealed \in CardFlags /\ sealed.signed
  BY <1>1 DEF CardFlags
<1>4. Outcome(c) = [service EXCEPT !.card = sealed, !.row = row]
  <2>1. Outcome(c) = [service EXCEPT !.card.signed = TRUE,
                                     !.row = IF HandedBack(@) THEN @ ELSE SignedOff(@)]
    BY DEF Outcome
  <2> QED
    BY <1>1, <2>1 DEF Services
<1> HIDE DEF row, sealed
<1>5. service' = Outcome(c) /\ UNCHANGED <<records, page, owed>>
      /\ calls' = (calls \ {c}) \cup {[c EXCEPT !.answer = AnswerTo(c, Outcome(c))]}
  BY DEF ServeCall
<1>6. service' \in Services /\ service'.row = row /\ service'.card = sealed
      /\ service'.listed /\ service'.divergence \in BOOLEAN
  BY <1>1, <1>2, <1>3, <1>4, <1>5 DEF Services
<1> DEFINE answer == AnswerTo(c, Outcome(c))
<1>7. answer = [list |-> RecordOf(service'), divergence |-> service'.divergence]
  BY <1>5 DEF AnswerTo
<1>8. RecordOf(service') \in JobRecords
  BY <1>6, RecordType
<1> HIDE DEF answer
<1>9. answer \notin {NotYet, Refusal}
      /\ calls' = (calls \ {c}) \cup {[c EXCEPT !.answer = answer]}
  <2>1. calls' = (calls \ {c}) \cup {[c EXCEPT !.answer = answer]}
    BY <1>5 DEF answer
  <2>2. answer \in ListAnswers
    BY <1>6, <1>7, <1>8 DEF ListAnswers
  <2> QED
    BY <2>1, <2>2, Markers
<1>10. ServerFit'
  BY <1>2, <1>3, <1>5, <1>6 DEF Waiting, ServerFit, HandedBack
<1>11. calls = {c} /\ c.answer = NotYet
  BY DEF Waiting, Single, ServeCall
<1>12. records # NotYet => Agrees(SignLocally(records))'
  <2> SUFFICES ASSUME records # NotYet PROVE Agrees(SignLocally(records))'
    OBVIOUS
  <2>1. Agrees(records) /\ records \in JobRecords
    BY <1>11 DEF Waiting, CopyFits, InSync, ScreenTyped
  <2>2. records \notin {NotYet, Unlisted}
    BY <2>1, Markers
  <2>3. CASE HandedBack(service.row)
    BY <1>2, <1>5, <1>6, <2>1, <2>2, <2>3 DEF Agrees, Tells, HandedBack, StateOf, SignLocally
  <2>4. CASE ~HandedBack(service.row)
    <3>1. ~(records.state = "paused" /\ records.blocks)
      BY <1>1, <2>1, <2>4 DEF Agrees, Tells, HandedBack, StateOf
    <3>2. SignLocally(records) = [records EXCEPT !.state = "signed_off"]
      BY <2>2, <3>1 DEF SignLocally
    <3>3. records.blocks = (row.reason \in Blocking) /\ row.state = "signed_off"
      BY <1>2, <2>1, <2>4 DEF Agrees, Tells
    <3> QED
      BY <1>5, <1>6, <2>1, <2>2, <3>1, <3>2, <3>3
      DEF Agrees, Tells, StateOf, JobRecords, SignLocally
  <2> QED
    BY <2>3, <2>4
<1> QED
  BY <1>3, <1>5, <1>6, <1>9, <1>10, <1>12, ServedFits DEF Verbs

LEMMA ServeWaits ==
  ASSUME Waiting, NEW c \in calls, ServeCall(c)
  PROVE  Waiting'
BY ServeRead, ServeRefused, ServeEvent, ServeStandDown, ServeSign DEF Verbs

(* An answer is shown.  Only reads are left under way, and reads follow.   *)
LEMMA AnsweredFits ==
  ASSUME Waiting, NEW c \in calls, UNCHANGED <<service, owed>>,
         \A d \in calls' : \/ d \in calls \ {c}
                           \/ IsCall(d) /\ d.answer = NotYet /\ d.kind \in {"list", "card"},
         records' \in JobRecords \cup {NotYet}, records' # NotYet => Tells(records', service.row),
         page' \in Pages \cup {NotYet}, PageFits'
  PROVE  Waiting'
<1>1. \A d \in calls' : d.kind \in {"list", "card"}
  BY DEF Waiting, Single
<1>2. \A d \in calls' : IsCall(d)
  BY DEF Waiting, ScreenTyped
<1>3. ScreenTyped'
  BY <1>2 DEF Waiting, ScreenTyped, IsCall
<1>4. ServerFit' /\ Single'
  BY <1>1 DEF Waiting, ServerFit, Single
<1>5. CopyFits'
  BY DEF CopyFits, Agrees, Tells
<1>6. AnswersFit'
  BY <1>1 DEF Waiting, AnswersFit, Agrees, Tells, Verbs
<1>7. VerbsFit'
  BY <1>1, ReadsFit
<1> QED
  BY <1>3, <1>4, <1>5, <1>6, <1>7 DEF Waiting

LEMMA BecomesCalls ==
  ASSUME NEW p, NEW c, Becomes(p, c)
  PROVE  /\ page' = p
         /\ \A d \in calls' : \/ d \in calls \ {c}
                              \/ IsCall(d) /\ d.answer = NotYet /\ d.kind \in {"list", "card"}
<1>1. IsCall(Call("card")) /\ Call("card").kind = "card" /\ Call("card").answer = NotYet
  BY CallType DEF CallKinds
<1> QED
  BY <1>1 DEF Becomes, CardFor

\* A job the server has just told of.
LEMMA ShowJobShows ==
  ASSUME NEW p \in Pages, NEW job \in JobRecords,
         p.pausing => job.state \in {"started", "stopped", "signed_off"}
  PROVE  LET shown == ShowJob(job, p) IN
         shown \in Pages /\ shown # NotYet /\ shown.card = p.card /\ Shows(shown, job)
<1>1. ShowJob(job, p) = [p EXCEPT !.job = job, !.load = "ready"]
  BY Markers DEF ShowJob
<1> DEFINE shown == ShowJob(job, p)
<1> HIDE DEF shown
<1>2. shown = [p EXCEPT !.job = job, !.load = "ready"]
  BY <1>1 DEF shown
<1>3. shown \in Pages /\ shown.card = p.card /\ shown.job = job /\ shown.pausing = p.pausing
  BY <1>2 DEF Pages
<1>4. shown # NotYet /\ Shows(shown, job)
  BY <1>3, Markers DEF Shows
<1> QED
  BY <1>3, <1>4 DEF shown

\* While no moving call has been answered by the server, the copy is what it says.
LEMMA CopyInSync ==
  ASSUME Waiting, NEW c \in calls, c.kind \in {"list", "card", "seen", "calibration"}
                                   \/ c.answer = Refusal
  PROVE  records # NotYet => Agrees(records)
BY DEF Waiting, CopyFits, InSync, Single, Verbs

LEMMA ListComes ==
  ASSUME Waiting, NEW c \in calls, c.answer \notin {NotYet, Refusal}, AnsweredRead(c),
         c.kind = "list", UNCHANGED <<service, owed>>
  PROVE  Waiting'
<1> DEFINE list == c.answer.list
           told == [page EXCEPT !.divergence = c.answer.divergence]
           shown == IF list # c.before THEN ShowJob(list, told) ELSE told
<1>1. c.answer \in ListAnswers /\ list # Unlisted /\ Agrees(list)
  BY DEF Waiting, AnswersFit
<1>2. list \in JobRecords /\ c.answer.divergence \in BOOLEAN
  BY <1>1 DEF ListAnswers
<1>3. records' = list /\ Becomes(OnPage(shown), c)
  BY DEF AnsweredRead
<1>4. records # NotYet => Agrees(records)
  BY CopyInSync
<1> HIDE DEF list, shown
<1>5. page # NotYet => shown \in Pages /\ shown # NotYet /\ shown.card = page.card
                       /\ Shows(shown, list)
  <2> SUFFICES ASSUME page # NotYet
               PROVE  shown \in Pages /\ shown # NotYet /\ shown.card = page.card
                      /\ Shows(shown, list)
    OBVIOUS
  <2>1. page \in Pages /\ Shows(page, records)
    BY DEF Waiting, ScreenTyped, PageFits
  <2>2. page.job # NotYet => page.job.state = list.state /\ page.job.blocks = list.blocks
    BY <1>1, <1>4, <2>1 DEF Shows, Agrees, Tells
  <2>3. list # NotYet
    BY <1>2, Markers
  <2>4. told \in Pages /\ told # NotYet /\ told.card = page.card /\ Shows(told, list)
        /\ told.pausing = page.pausing /\ told.job = page.job
    BY <1>2, <2>1, <2>2, <2>3, Markers DEF Pages, Shows
  <2> HIDE DEF told
  <2>5. told.pausing => list.state \in {"started", "stopped", "signed_off"}
    BY <2>1, <2>2, <2>4 DEF Shows
  <2>6. ShowJob(list, told) \in Pages /\ ShowJob(list, told) # NotYet
        /\ ShowJob(list, told).card = told.card /\ Shows(ShowJob(list, told), list)
    BY <1>2, <2>4, <2>5, ShowJobShows
  <2> QED
    BY <2>4, <2>6 DEF shown
<1>6. page' = OnPage(shown)
      /\ \A d \in calls' : \/ d \in calls \ {c}
                           \/ IsCall(d) /\ d.answer = NotYet /\ d.kind \in {"list", "card"}
  BY <1>3, BecomesCalls
<1>7. page' \in Pages \cup {NotYet}
  BY <1>5, <1>6 DEF OnPage
<1>8. PageFits'
  <2>1. CASE page = NotYet
    BY <1>6, <2>1 DEF OnPage, PageFits
  <2>2. CASE page # NotYet
    BY <1>3, <1>5, <1>6, <2>2 DEF OnPage, Waiting, PageFits, Signed
  <2> QED
    BY <2>1, <2>2
<1>9. records' \in JobRecords \cup {NotYet} /\ Tells(records', service.row)
  BY <1>1, <1>2, <1>3 DEF Agrees
<1> QED
  BY <1>6, <1>7, <1>8, <1>9, AnsweredFits

\* An answer that leaves the copy and the job on the page alone.
LEMMA SameJobFits ==
  ASSUME Waiting, NEW c \in calls, NEW p, Becomes(OnPage(p), c),
         UNCHANGED <<service, records, owed>>,
         records # NotYet => Agrees(records),
         page # NotYet => /\ p \in Pages /\ p.load = page.load /\ p.pausing = page.pausing
                          /\ \/ page.job = NotYet /\ p.job = NotYet
                             \/ /\ page.job # NotYet /\ p.job # NotYet
                                /\ p.job.state = page.job.state /\ p.job.blocks = page.job.blocks
                          /\ Signed(p) => service.card.signed
  PROVE  Waiting'
<1>1. page' = OnPage(p)
      /\ \A d \in calls' : \/ d \in calls \ {c}
                           \/ IsCall(d) /\ d.answer = NotYet /\ d.kind \in {"list", "card"}
  BY BecomesCalls
<1>2. page' \in Pages \cup {NotYet}
  BY <1>1 DEF OnPage
<1>3. PageFits'
  <2>1. CASE page = NotYet
    BY <1>1, <2>1 DEF OnPage, PageFits
  <2>2. CASE page # NotYet
    <3>1. page' = p /\ Shows(page, records)
      BY <1>1, <2>2 DEF OnPage, Waiting, PageFits
    <3>2. Shows(p, records)
      BY <2>2, <3>1 DEF Shows
    <3> QED
      BY <2>2, <3>1, <3>2 DEF PageFits, Signed, Shows
  <2> QED
    BY <2>1, <2>2
<1>4. records' \in JobRecords \cup {NotYet} /\ (records' # NotYet => Tells(records', service.row))
  BY DEF Waiting, ScreenTyped, Agrees
<1> QED
  BY <1>1, <1>2, <1>3, <1>4, AnsweredFits

LEMMA CardComes ==
  ASSUME Waiting, NEW c \in calls, c.answer \notin {NotYet, Refusal}, AnsweredRead(c),
         c.kind = "card", UNCHANGED <<service, owed>>
  PROVE  Waiting'
<1> DEFINE p == ShowBundle(c.answer, page)
<1>1. Becomes(OnPage(p), c) /\ UNCHANGED records
  BY DEF AnsweredRead
<1>2. c.answer \in CardFlags /\ (c.answer.signed => service.card.signed)
  BY DEF Waiting, AnswersFit
<1>3. page # NotYet => page \in Pages
  BY DEF Waiting, ScreenTyped
<1>4. p = [page EXCEPT !.card = c.answer,
                       !.visit   = IF page.dirty THEN page.visit ELSE c.answer.visit,
                       !.written = IF page.dirty THEN page.written ELSE c.answer.written]
  BY DEF ShowBundle
<1> HIDE DEF p
<1>5. page # NotYet => /\ p \in Pages /\ p.load = page.load /\ p.pausing = page.pausing
                       /\ p.job = page.job /\ p.card = c.answer
  BY <1>2, <1>3, <1>4 DEF Pages, CardFlags
<1>6. records # NotYet => Agrees(records)
  BY CopyInSync
<1> QED
  BY <1>1, <1>2, <1>5, <1>6, SameJobFits DEF Signed

LEMMA SwitchComes ==
  ASSUME Waiting, NEW c \in calls, c.answer \notin {NotYet, Refusal}, AnsweredRead(c),
         c.kind \in {"seen", "calibration"}, UNCHANGED <<service, owed>>
  PROVE  Waiting'
<1>1. records # NotYet => Agrees(records)
  BY CopyInSync
<1>2. page # NotYet => page \in Pages /\ (Signed(page) => service.card.signed)
  BY DEF Waiting, ScreenTyped, PageFits
<1>3. CASE c.kind = "seen"
  <2> DEFINE p == [page EXCEPT !.divergence = FALSE]
  <2>1. Becomes(OnPage(p), c) /\ UNCHANGED records
    BY <1>3 DEF AnsweredRead
  <2>2. page # NotYet => /\ p \in Pages /\ p.load = page.load /\ p.pausing = page.pausing
                         /\ p.job = page.job /\ p.card = page.card
    BY <1>2 DEF Pages
  <2> HIDE DEF p
  <2> QED
    BY <1>1, <1>2, <2>1, <2>2, SameJobFits DEF Signed
<1>4. CASE c.kind = "calibration"
  <2>1. Becomes(OnPage(page), c) /\ UNCHANGED records
    BY <1>4 DEF AnsweredRead, OnPage
  <2> QED
    BY <1>1, <1>2, <2>1, SameJobFits
<1> QED
  BY <1>3, <1>4

LEMMA RefusalComes ==
  ASSUME Waiting, NEW c \in calls, Refused(c), UNCHANGED <<service, owed>>
  PROVE  Waiting'
<1> DEFINE p == [page EXCEPT !.busy = @ /\ c.kind = "sign"]
<1>1. Becomes(OnPage(p), c) /\ UNCHANGED records /\ c.answer = Refusal
  BY DEF Refused
<1>2. records # NotYet => Agrees(records)
  BY <1>1, CopyInSync
<1>3. page # NotYet => page \in Pages /\ (Signed(page) => service.card.signed)
  BY DEF Waiting, ScreenTyped, PageFits
<1>4. page # NotYet => /\ p \in Pages /\ p.load = page.load /\ p.pausing = page.pausing
                       /\ p.job = page.job /\ p.card = page.card
  BY <1>3 DEF Pages
<1> HIDE DEF p
<1> QED
  BY <1>1, <1>2, <1>3, <1>4, SameJobFits DEF Signed

LEMMA VerbComes ==
  ASSUME Waiting, NEW c \in calls, AnsweredVerb(c), c.answer # NotYet,
         UNCHANGED <<service, owed>>
  PROVE  Waiting'
<1>1. c.kind \in {"event", "stand_down"} /\ c.answer # Refusal
      /\ records' = (IF records \in {NotYet, Unlisted} THEN records ELSE c.answer)
      /\ ShowVerb(c, records', c.answer)
  BY DEF AnsweredVerb
<1>2. page # NotYet /\ page.job # NotYet /\ page.at = "page" /\ page \in Pages
      /\ records \in JobRecords /\ (Signed(page) => service.card.signed)
  BY <1>1 DEF Waiting, VerbsFit, PageFits, Shows, ScreenTyped
<1>3. c.answer \in JobRecords /\ Agrees(c.answer)
  BY <1>1 DEF Waiting, AnswersFit
<1>4. records' = c.answer
  BY <1>1, <1>2, Markers
<1>5. CASE c.kind = "stand_down"
  <2>1. page' = NotYet /\ calls' = calls \ {c}
    BY <1>1, <1>2, <1>5 DEF ShowVerb, Back
  <2>2. PageFits'
    BY <2>1 DEF PageFits
  <2> QED
    BY <1>3, <1>4, <2>1, <2>2, AnsweredFits DEF Agrees
<1>6. CASE c.kind = "event"
  <2> DEFINE p == Applied(c, c.answer)
             at == IF HandsBack(c) /\ ~Signed(page) THEN "signoff" ELSE page.at
  <2>1. Becomes(OnPage(p), c)
    BY <1>1, <1>6 DEF ShowVerb
  <2>2. p = [page EXCEPT !.job = c.answer, !.busy = FALSE, !.pausing = FALSE, !.at = at]
    BY DEF Applied
  <2>3. at \in {"page", "signoff"}
    BY <1>2
  <2> HIDE DEF p, at
  <2>4. p \in Pages /\ p.job = c.answer /\ p.card = page.card /\ ~p.pausing
    BY <1>2, <1>3, <2>2, <2>3 DEF Pages
  <2>5. page' = p
        /\ \A d \in calls' : \/ d \in calls \ {c}
                             \/ IsCall(d) /\ d.answer = NotYet /\ d.kind \in {"list", "card"}
    BY <1>2, <2>1, BecomesCalls DEF OnPage
  <2>6. PageFits'
    BY <1>2, <1>3, <1>4, <2>4, <2>5, Markers DEF PageFits, Shows, Signed
  <2> QED
    BY <1>3, <1>4, <2>4, <2>5, <2>6, AnsweredFits DEF Agrees
<1> QED
  BY <1>1, <1>5, <1>6

LEMMA SignComes ==
  ASSUME Waiting, NEW c \in calls, AnsweredSign(c), c.answer # NotYet,
         UNCHANGED <<service, owed>>
  PROVE  Waiting'
<1> DEFINE list == SignLocally(records)
           home == [page EXCEPT !.at = "page"]
           shown == Load(list, home)
<1>1. c.kind = "sign" /\ c.answer # Refusal /\ records' = list /\ Back(c, list, page)
  BY DEF AnsweredSign
<1>2. page # NotYet /\ page.at = "signoff" /\ page \in Pages
      /\ Shows(page, records) /\ (Signed(page) => service.card.signed)
  BY <1>1 DEF Waiting, VerbsFit, ScreenTyped, PageFits
<1>3. records \in JobRecords \cup {NotYet} /\ (records # NotYet => Agrees(list))
  BY <1>1 DEF Waiting, ScreenTyped, AnswersFit
<1>4. list \in JobRecords \cup {NotYet} /\ (list = NotYet <=> records = NotYet)
  BY <1>3, Markers DEF SignLocally, JobRecords, LifeStates
<1>5. page' = shown /\ calls' = (calls \ {c}) \cup OnFocus(list, shown)
  BY <1>1, <1>2 DEF Back
<1>6. shown \in Pages /\ shown.card = page.card /\ Shows(shown, list)
  <2>1. home \in Pages /\ home.card = page.card /\ home.job = page.job /\ home.load = page.load
        /\ home.pausing = page.pausing
    BY <1>2 DEF Pages
  <2> HIDE DEF home
  <2>2. CASE list = NotYet
    <3>1. Shows(home, list)
      BY <1>2, <1>4, <2>1, <2>2 DEF Shows
    <3> QED
      BY <1>4, <2>1, <3>1, LoadShows
  <2>3. CASE list \in JobRecords
    <3>1. shown = ShowJob(list, home)
      BY <2>3, Markers DEF Load
    <3>2. home.pausing => list.state \in {"started", "stopped", "signed_off"}
      BY <1>2, <1>3, <2>1, Markers DEF Shows, SignLocally, JobRecords
    <3> QED
      BY <2>1, <2>3, <3>1, <3>2, ShowJobShows
  <2> QED
    BY <1>4, <2>2, <2>3
<1> HIDE DEF shown, list
<1>7. PageFits'
  BY <1>1, <1>2, <1>5, <1>6 DEF PageFits, Signed
<1>8. \A d \in calls' : \/ d \in calls \ {c}
                        \/ IsCall(d) /\ d.answer = NotYet /\ d.kind \in {"list", "card"}
  BY <1>5, FocusCalls
<1>9. records' \in JobRecords \cup {NotYet} /\ (records' # NotYet => Tells(records', service.row))
  BY <1>1, <1>3, <1>4 DEF Agrees
<1> QED
  BY <1>5, <1>6, <1>7, <1>8, <1>9, AnsweredFits

LEMMA AnswerWaits ==
  ASSUME Waiting, NEW c \in calls, AnswerComes(c)
  PROVE  Waiting'
<1>1. c.answer # NotYet /\ UNCHANGED <<service, owed>>
  BY DEF AnswerComes
<1>2. CASE c.answer = Refusal
  BY <1>1, <1>2, RefusalComes DEF AnswerComes
<1>3. CASE c.answer # Refusal /\ AnsweredRead(c)
  <2>1. c.kind \in {"list", "card", "seen", "calibration"}
    BY <1>3 DEF AnsweredRead
  <2> QED
    BY <1>1, <1>3, <2>1, ListComes, CardComes, SwitchComes
<1>4. CASE AnsweredVerb(c)
  BY <1>1, <1>4, VerbComes
<1>5. CASE AnsweredSign(c)
  BY <1>1, <1>5, SignComes
<1> QED
  BY <1>2, <1>3, <1>4, <1>5 DEF AnswerComes

LEMMA InitWaits == ScreenInit => ScreenInv
<1> SUFFICES ASSUME ScreenInit PROVE Waiting
  BY DEF ScreenInv
<1>1. PICK atWork \in BOOLEAN :
        service = [row |-> IF atWork THEN Moved("start", NoReason, NoRow) ELSE NoRow,
                   card |-> [visit |-> atWork, written |-> atWork, signed |-> FALSE],
                   listed |-> TRUE, calibration |-> atWork, divergence |-> FALSE]
  BY DEF ScreenInit
<1>2. records \in {NotYet, RecordOf(service)} /\ page = NotYet /\ calls = {} /\ owed = << >>
  BY DEF ScreenInit
<1> DEFINE row == IF atWork THEN Moved("start", NoReason, NoRow) ELSE NoRow
<1>3. row \in Lifecycle /\ row.state \in {"absent", "started"}
  <2>1. "start" \in Events
    BY DEF Events
  <2>2. CASE atWork
    BY <2>1, <2>2, NoRowType, MovedRow
  <2>3. CASE ~atWork
    BY <2>3, NoRowType DEF NoRow
  <2> QED
    BY <2>2, <2>3
<1> HIDE DEF row
<1>4. service \in Services /\ service.row = row /\ service.listed /\ ~service.card.signed
  BY <1>1, <1>3 DEF Services, CardFlags, row
<1>5. RecordOf(service) \in JobRecords /\ Agrees(RecordOf(service))
  BY <1>4, RecordType DEF Agrees, Tells
<1>6. ScreenTyped
  BY <1>2, <1>4, <1>5 DEF ScreenTyped
<1>7. ServerFit
  BY <1>2, <1>3, <1>4 DEF ServerFit
<1>8. CopyFits
  BY <1>2, <1>5 DEF CopyFits
<1> QED
  BY <1>2, <1>6, <1>7, <1>8 DEF Waiting, Single, PageFits, AnswersFit, VerbsFit

LEMMA ScreenKeeps == ScreenInv /\ [ScreenNext]_screenVars => ScreenInv'
<1> SUFFICES ASSUME ScreenInv, [ScreenNext]_screenVars, ~rushed' PROVE Waiting'
  BY DEF ScreenInv
<1>1. CASE UNCHANGED screenVars
  BY <1>1 DEF screenVars, ScreenInv, Waiting, ScreenTyped, IsCall, ServerFit, Single, CopyFits,
              InSync, PageFits, Shows, Signed, AnswersFit, Agrees, Tells, VerbsFit, Accepts,
              LeftOpen, Phase
<1>2. CASE (\E c \in calls : Lost(c)) \/ Recall
  BY <1>2 DEF Lost, Recall
<1>3. ASSUME ScreenNext, ~(\E c \in calls : Lost(c)), ~Recall PROVE Waiting'
  <2>1. ~rushed
    BY <1>3, ActsAlone DEF ScreenNext, Open, TryAgain, Leave, Tap, ConfirmPause, CancelPause,
       FillCard, ToggleCalibration, Seen, GoTo, ComeBack, ClientSignature, ServeCall,
       AnswerComes, ReplayOwed, Rush
  <2>2. Waiting
    BY <2>1 DEF ScreenInv
  <2>3. ~ReplayOwed
    BY <2>2 DEF ReplayOwed, Waiting, ServerFit
  <2>4. CASE \E c \in calls : ServeCall(c) \/ AnswerComes(c)
    BY <2>2, <2>4, ServeWaits, AnswerWaits
  <2> QED
    BY <1>3, <2>2, <2>3, <2>4, OpenWaits, ReturnsWait, LeaveWaits, TapWaits, ConfirmPauseWaits,
       CancelPauseWaits, FillCardWaits, ToggleWaits, SeenWaits, GoToWaits, ClientSignatureWaits
       DEF ScreenNext
<1> QED
  BY <1>1, <1>2, <1>3

LEMMA WaitingLeads == ScreenInv => PageLeadsOn
<1> SUFFICES ASSUME Waiting
             PROVE  /\ \A c \in calls : c.answer = NotYet => Accepts(c) \/ LeftOpen(c)
                    /\ Up /\ calls = {} => \/ page.job.state = "signed_off"
                                           \/ Held(page) /\ Signed(page)
                                           \/ LeadsOn(page)
  BY DEF ScreenInv, PageLeadsOn
<1>1. \A c \in calls : c.answer = NotYet => Accepts(c) \/ LeftOpen(c)
  BY DEF Waiting, VerbsFit
<1>2. ASSUME Up, calls = {}, page.job.state # "signed_off", ~(Held(page) /\ Signed(page))
      PROVE  LeadsOn(page)
  <2>1. page.job \in JobRecords /\ page.job # NotYet /\ Agrees(page.job)
        /\ (Signed(page) => service.row.state = "signed_off" \/ HandedBack(service.row))
    BY <1>2, UpFits, Markers
  <2>2. service.row.state # "stopped"
    BY DEF Waiting, ServerFit
  <2>3. page.job.state \in {"not_started", "on_the_way", "started", "paused"}
    BY <1>2, <2>1, <2>2 DEF Agrees, Tells, StateOf, JobRecords, LifeStates
  <2>4. CASE page.job.state = "not_started"
    BY <2>1, <2>4 DEF LeadsOn, Offered, Passes, Phase
  <2>5. CASE page.job.state = "on_the_way"
    BY <2>1, <2>5 DEF LeadsOn, Offered, Passes, Phase
  <2>6. CASE page.job.state \in {"started", "paused"}
    <3>1. Phase(page) = "active"
      BY <2>1, <2>6 DEF Phase
    <3>2. ~Signed(page)
      BY <1>2, <2>1, <2>6 DEF Held, Agrees, Tells, StateOf, HandedBack
    <3>3. Editor(page)
      BY <3>1, <3>2 DEF Editor
    <3>4. CASE Held(page)
      BY <3>2, <3>3, <3>4 DEF LeadsOn, ClientSigns, Held
    <3>5. CASE ~Held(page)
      BY <2>6, <3>3, <3>5 DEF LeadsOn, Offered, Held
    <3> QED
      BY <3>4, <3>5
  <2> QED
    BY <2>3, <2>4, <2>5, <2>6
<1> QED
  BY <1>1, <1>2

(* Whatever the page lets a technician who waits do is accepted, and it     *)
(* never ends in a dead end.                                               *)
THEOREM PageLeads == ScreenSpec => []PageLeadsOn
<1>1. ScreenSpec => []ScreenInv
  BY InitWaits, ScreenKeeps, PTL DEF ScreenSpec
<1> QED
  BY <1>1, WaitingLeads, PTL
==============================================================================
