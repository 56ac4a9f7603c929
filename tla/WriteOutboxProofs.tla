--------------------------- MODULE WriteOutboxProofs ---------------------------
(***************************************************************************)
(* Theorems of WriteOutbox, for any number of jobs, screens, drains and    *)
(* writes.                                                                 *)
(*                                                                         *)
(* First the order a drain keeps, which holds whatever is lost, refused,   *)
(* overtaken or killed and for drains that overlap: the queue changes      *)
(* behind a drain's back, but what a drain has still to send of a job it   *)
(* is not stuck on comes, in what it has left, after every write of that   *)
(* job still in front of it in the queue (Replays).  It rests on no write  *)
(* being made twice (Fresh).                                               *)
(*                                                                         *)
(* Then the order the server sees, which needs more (Plain): that what is  *)
(* queued has not been applied, nor anything after it (AppliedBefore), and *)
(* that a call under way is the last write of all (CallLast).              *)
(*                                                                         *)
(* Last, what the screens show, from the writes the server has still to    *)
(* hear (Waiting): a job's screen shows the server's state, or the state   *)
(* the last of its waiting writes leads to (Mirrored).                     *)
(***************************************************************************)
EXTENDS WriteOutbox, FiniteSetTheorems, SequenceTheorems, WellFoundedInduction, TLAPS

CallRec == [write : Write, reply : Reply, shown : ShownRecord, bundle : {"none", "open", "signed"}]

CallTyped == calls \in [Calls -> {NoCall} \cup CallRec]

Asks(c) == calls[c] # NoCall
Holds(rows, w) == \E k \in DOMAIN rows : rows[k].write = w
Has(left, w) == \E p \in DOMAIN left : left[p] = w

(* No write is made twice, and one under way from a screen is not queued.  *)
Fresh ==
  /\ \A k \in DOMAIN kept : kept[k].write.id <= taps
  /\ \A d \in Drains : \A p \in DOMAIN drains[d].left : drains[d].left[p].id <= taps
  /\ \A c \in Calls : Asks(c) =>
       /\ calls[c].write.id <= taps
       /\ ~Holds(kept, calls[c].write)
       /\ \A d \in Drains : ~Has(drains[d].left, calls[c].write)
       /\ \A e \in Calls : Asks(e) /\ calls[e].write = calls[c].write => e = c

(* What a drain has still to send of a job it is not stuck on comes, in    *)
(* what it has left, after what precedes it in the queue.                  *)
Before(p, left, i, rows) == \E m \in DOMAIN left : m < p /\ left[m] = rows[i].write

InOrder(left, stuck, rows) ==
  \A p \in DOMAIN left : left[p].job \notin stuck =>
    \A k \in DOMAIN rows : rows[k].write = left[p] =>
      \A i \in DOMAIN rows :
        i < k /\ rows[i].write.job = left[p].job => Before(p, left, i, rows)

Replays ==
  \A d \in Drains :
    /\ drains[d].left # <<>> => Head(drains[d].left).job \notin drains[d].stuck
    /\ InOrder(drains[d].left, drains[d].stuck, kept)

IInv == OutboxTypeOK /\ CallTyped /\ Fresh /\ Replays

-----------------------------------------------------------------------------
(* Types.                                                                  *)

LEMMA ElapsedNat ==
  ASSUME NEW from \in MaybeTime, NEW to \in Int
  PROVE  Elapsed(from, to) \in Nat
BY NoTimeAssumption DEF Elapsed, MaybeTime

LEMMA ClampInt ==
  ASSUME NEW at \in Int, NEW row \in Lifecycle, NEW start \in Nat
  PROVE  Clamp(at, row, start) \in Int
BY NoTimeAssumption DEF Clamp, Lifecycle, MaybeTime, CreatedAt

LEMMA NoRowType == NoRow \in Lifecycle
BY DEF NoRow, Lifecycle, LifeStates, MaybeTime, NoReason

(* An event leaves a lifecycle row, with the start it had.                 *)
LEMMA ApplyType ==
  ASSUME NEW event \in Events, NEW reason \in Reasons \cup {NoReason},
         NEW cur \in Lifecycle, NEW row \in Lifecycle, NEW at \in Int
  PROVE  Apply(event, reason, cur, row, at) \in Lifecycle
<1>1. at \in MaybeTime /\ NoTime \in MaybeTime
  BY DEF MaybeTime
<1>2. Elapsed(row.pausedAt, at) \in Nat
  BY ElapsedNat DEF Lifecycle
<1>3. FirstStart(row, at) \in MaybeTime
  BY <1>1 DEF FirstStart, Lifecycle
<1>4. NoReason \in Reasons \cup {NoReason}
  OBVIOUS
<1>5. CASE event = "on_the_way"
  BY <1>1, <1>5 DEF Apply, Lifecycle, LifeStates
<1>6. CASE event = "start" /\ cur.state = "paused"
  <2>1. Apply(event, reason, cur, row, at) =
          [row EXCEPT !.state = "started", !.paused = @ + Elapsed(row.pausedAt, at),
                      !.pausedAt = NoTime, !.reason = NoReason, !.last = at]
    BY <1>6 DEF Apply
  <2>2. row.paused + Elapsed(row.pausedAt, at) \in Nat
    BY <1>2 DEF Lifecycle
  <2> QED
    BY <1>1, <1>4, <2>1, <2>2 DEF Lifecycle, LifeStates
<1>7. CASE event = "start" /\ cur.state # "paused"
  BY <1>1, <1>3, <1>7 DEF Apply, Lifecycle, LifeStates
<1>8. CASE event = "pause"
  BY <1>1, <1>8 DEF Apply, Lifecycle, LifeStates
<1>9. CASE event = "stop"
  <2>1. Apply(event, reason, cur, row, at) =
          [row EXCEPT !.state = "stopped", !.stoppedAt = at,
                      !.paused = @ + (IF cur.state = "paused"
                                      THEN Elapsed(row.pausedAt, at) ELSE 0),
                      !.pausedAt = NoTime, !.last = at]
    BY <1>9 DEF Apply
  <2>2. row.paused + (IF cur.state = "paused" THEN Elapsed(row.pausedAt, at) ELSE 0) \in Nat
    BY <1>2 DEF Lifecycle
  <2> QED
    BY <1>1, <2>1, <2>2 DEF Lifecycle, LifeStates
<1>10. CASE event = "sign_off"
  BY <1>1, <1>10 DEF Apply, Lifecycle, LifeStates
<1> QED
  BY <1>5, <1>6, <1>7, <1>8, <1>9, <1>10 DEF Events

ServerRow == [row : Lifecycle, card : {"none", "draft", "signed"},
              content : 0 .. MaxTaps, accepted : 0 .. MaxTaps, mine : BOOLEAN]
OutboxRow == [write : Write, rejected : BOOLEAN]
DrainRec  == [left : Seq(Write), stuck : SUBSET Jobs, reply : Reply]

LEMMA HappensType ==
  ASSUME OutboxTypeOK, NEW w \in Write, NEW event \in Events, NEW row \in Lifecycle
  PROVE  Happens(event, w, row) \in Lifecycle
<1>1. taps \in Nat /\ w.id \in Int /\ w.reason \in Reasons \cup {NoReason}
  BY BoundsAssumption DEF OutboxTypeOK, Write
<1>2. Clamp(w.id, row, taps) \in Int
  BY <1>1, ClampInt
<1> QED
  BY <1>1, <1>2, ApplyType DEF Happens

LEMMA FinishedType ==
  ASSUME OutboxTypeOK, NEW w \in Write, NEW event \in Events, NEW s \in ServerRow
  PROVE  Finished(event, w, s) \in ServerRow
<1> DEFINE row == Happens(event, w, s.row)
           last == IF event = "stop" /\ s.card = "signed"
                   THEN Happens("sign_off", w, row) ELSE row
<1>1. row \in Lifecycle
  BY HappensType DEF ServerRow
<1>2. last \in Lifecycle
  BY <1>1, HappensType DEF Events
<1>3. Finished(event, w, s) = [s EXCEPT !.row = last]
  BY DEF Finished
<1> HIDE DEF last
<1> QED
  BY <1>2, <1>3 DEF ServerRow

LEMMA ServedType ==
  ASSUME OutboxTypeOK, NEW w \in Write, NEW s \in ServerRow
  PROVE  Served(w, s) \in ServerRow
<1>1. /\ w.id \in 0 .. MaxTaps /\ w.id \in Int
      /\ w.content \in 0 .. MaxTaps /\ w.op \in Ops
  BY BoundsAssumption DEF Write
<1>2. CASE w.op \in Events
  <2>1. Served(w, s) = Finished(w.op, w, s)
    BY <1>2 DEF Served, Events
  <2> QED
    BY <1>2, <2>1, FinishedType
<1>3. CASE w.op = "stand_down"
  <2>1. Served(w, s) = [s EXCEPT !.row.state = "not_started", !.row.last = w.id]
    BY <1>3 DEF Served, Events
  <2>2. w.id \in MaybeTime
    BY <1>1 DEF MaybeTime
  <2>3. s.row \in Lifecycle
    BY DEF ServerRow
  <2>4. [s.row EXCEPT !.state = "not_started", !.last = w.id] \in Lifecycle
    BY <2>2, <2>3 DEF Lifecycle, LifeStates
  <2>5. Served(w, s) = [s EXCEPT !.row = [s.row EXCEPT !.state = "not_started", !.last = w.id]]
    BY <2>1, <2>3 DEF ServerRow, Lifecycle
  <2> QED
    BY <2>4, <2>5 DEF ServerRow
<1>4. CASE w.op = "save"
  <2>1. Served(w, s) = [s EXCEPT !.card = "draft", !.content = w.id]
    BY <1>4 DEF Served, Events
  <2> QED
    BY <1>1, <2>1 DEF ServerRow
<1>5. CASE w.op = "sign"
  <2> DEFINE sealed == [s EXCEPT !.card = "signed", !.accepted = w.content]
  <2>1. Served(w, s) = IF HandedBack(s.row) THEN sealed ELSE Finished(Completion(s), w, sealed)
    BY <1>5 DEF Served, Events
  <2>2. sealed \in ServerRow
    BY <1>1 DEF ServerRow
  <2>3. Completion(s) \in Events
    BY DEF Completion, Events
  <2> QED
    BY <2>1, <2>2, <2>3, FinishedType
<1> QED
  BY <1>1, <1>2, <1>3, <1>4, <1>5 DEF Ops

LEMMA RecordType ==
  ASSUME NEW s \in ServerRow
  PROVE  RecordOf(s) \in ShownRecord /\ BundleOf(s) \in {"none", "open", "signed"}
BY DEF RecordOf, BundleOf, ServerRow, ShownRecord, StateOf, Lifecycle, LifeStates

(* The server's step keeps its types, and the history grows by the write.  *)
LEMMA ServeType ==
  ASSUME OutboxTypeOK, NEW w \in Write, ServeWrite(w)
  PROVE  /\ server' \in [Jobs -> ServerRow]
         /\ applied' \in [Jobs -> Seq(1 .. MaxTaps)]
         /\ ReplyTo(w) \in Reply
<1>1. server \in [Jobs -> ServerRow] /\ applied \in [Jobs -> Seq(1 .. MaxTaps)]
  BY DEF OutboxTypeOK, ServerRow
<1>2. w.job \in Jobs /\ w.id \in 1 .. MaxTaps
  BY DEF Write
<1>3. Served(w, server[w.job]) \in ServerRow
  BY <1>1, <1>2, ServedType
<1>4. Append(applied[w.job], w.id) \in Seq(1 .. MaxTaps)
  BY <1>1, <1>2
<1> QED
  BY <1>1, <1>2, <1>3, <1>4 DEF ServeWrite, ReplyTo, Reply

-----------------------------------------------------------------------------
(* Sequences.                                                              *)

LEMMA Smallest ==
  ASSUME NEW S \in SUBSET Nat, S # {}
  PROVE  Min(S) \in S /\ \A m \in S : Min(S) <= m
<1> DEFINE Upto == {1 .. n : n \in S}
<1>1. Upto \subseteq FiniteSubsetsOf(Nat) /\ Upto # {}
  <2>1. \A n \in S : IsFiniteSet(1 .. n) /\ 1 .. n \subseteq Nat
    BY FS_Interval
  <2> QED
    BY <2>1 DEF FiniteSubsetsOf
<1>2. PICK least \in Upto : \A m \in Upto : <<m, least>> \notin StrictSubsetOrdering(Nat)
  BY <1>1, FS_StrictSubsetOrderingWellFounded, WFMin
<1>3. PICK n \in S : least = 1 .. n
  OBVIOUS
<1>4. ASSUME NEW m \in S, m < n
      PROVE  FALSE
  <2>1. 1 .. m \subseteq 1 .. n /\ 1 .. m \subseteq Nat /\ 1 .. n \subseteq Nat
        /\ n \in 1 .. n /\ n \notin 1 .. m
    BY <1>4
  <2>2. <<1 .. m, 1 .. n>> \in StrictSubsetOrdering(Nat)
    BY <2>1, Zenon DEF StrictSubsetOrdering
  <2>3. 1 .. m \in Upto
    OBVIOUS
  <2> QED
    BY <1>2, <1>3, <2>2, <2>3
<1>5. n \in S /\ \A m \in S : n <= m
  BY <1>4
<1> QED
  BY <1>5 DEF Min

(* Part of a sequence, in its order: place maps each index to where the    *)
(* element was.                                                            *)
Drawn(part, s, place) ==
  /\ place \in [DOMAIN part -> DOMAIN s]
  /\ \A i \in DOMAIN part : part[i] = s[place[i]]
  /\ \A i, k \in DOMAIN part : i < k => place[i] < place[k]

LEMMA RemoveAtDraws ==
  ASSUME NEW S, NEW s \in Seq(S), NEW at \in DOMAIN s
  PROVE  /\ RemoveAt(s, at) \in Seq(S)
         /\ \E place : /\ Drawn(RemoveAt(s, at), s, place)
                       /\ \A i \in DOMAIN RemoveAt(s, at) : place[i] # at
                       /\ \A k \in DOMAIN s \ {at} :
                            \E i \in DOMAIN RemoveAt(s, at) : place[i] = k
<1> DEFINE n     == Len(s)
           front == SubSeq(s, 1, at - 1)
           back  == SubSeq(s, at + 1, n)
           part  == RemoveAt(s, at)
           place == [i \in 1 .. n - 1 |-> IF i < at THEN i ELSE i + 1]
<1>1. n \in Nat /\ at \in 1 .. n /\ DOMAIN s = 1 .. n
  BY LenProperties
<1>2. \A i \in 1 .. n : s[i] \in S
  BY ElementOfSeq
<1>3. /\ front \in Seq(S) /\ Len(front) = at - 1
      /\ \A i \in 1 .. at - 1 : front[i] = s[i]
  <2>1. \A i \in 1 .. at - 1 : s[i] \in S
    BY <1>1, <1>2
  <2> QED
    BY <1>1, <2>1, SubSeqProperties
<1>4. /\ back \in Seq(S) /\ Len(back) = n - at
      /\ \A i \in 1 .. n - at : back[i] = s[at + i]
  <2>1. \A i \in at + 1 .. n : s[i] \in S
    BY <1>1, <1>2
  <2> QED
    BY <1>1, <2>1, SubSeqProperties
<1>5. part = front \o back
  BY DEF RemoveAt
<1> HIDE DEF front, back, part
<1>6. /\ part \in Seq(S) /\ Len(part) = n - 1
      /\ \A i \in 1 .. n - 1 : part[i] = IF i <= at - 1 THEN front[i] ELSE back[i - (at - 1)]
  <2>1. Len(front) + Len(back) = n - 1
    BY <1>1, <1>3, <1>4
  <2>2. /\ front \o back \in Seq(S)
        /\ Len(front \o back) = Len(front) + Len(back)
        /\ \A i \in 1 .. Len(front) + Len(back) : (front \o back)[i] =
             IF i <= Len(front) THEN front[i] ELSE back[i - Len(front)]
    BY <1>3, <1>4, ConcatProperties
  <2> QED
    BY <1>3, <1>5, <2>1, <2>2
<1>7. DOMAIN part = 1 .. n - 1
  BY <1>6, LenProperties
<1>8. place \in [DOMAIN part -> DOMAIN s]
  BY <1>1, <1>7
<1>9. ASSUME NEW i \in DOMAIN part
      PROVE  part[i] = s[place[i]]
  <2>1. i \in 1 .. n - 1
    BY <1>7
  <2>2. CASE i < at
    <3>1. i \in 1 .. at - 1 /\ part[i] = front[i]
      BY <1>1, <1>6, <2>1, <2>2
    <3> QED
      BY <1>3, <2>1, <2>2, <3>1
  <2>3. CASE ~(i < at)
    <3>1. i - (at - 1) \in 1 .. n - at /\ part[i] = back[i - (at - 1)]
      BY <1>1, <1>6, <2>1, <2>3
    <3>2. at + (i - (at - 1)) = i + 1
      BY <1>1, <2>1
    <3>3. back[i - (at - 1)] = s[at + (i - (at - 1))]
      BY <1>4, <3>1
    <3> QED
      BY <2>1, <2>3, <3>1, <3>2, <3>3
  <2> QED
    BY <2>2, <2>3
<1>10. \A i, k \in DOMAIN part : i < k => place[i] < place[k]
  BY <1>1, <1>7
<1>11. \A i \in DOMAIN part : place[i] # at
  BY <1>1, <1>7
<1>12. ASSUME NEW k \in DOMAIN s \ {at}
       PROVE  \E i \in DOMAIN part : place[i] = k
  <2> DEFINE i == IF k < at THEN k ELSE k - 1
  <2>1. i \in 1 .. n - 1 /\ place[i] = k
    BY <1>1
  <2> QED
    BY <1>7, <2>1
<1>13. Drawn(part, s, place)
  BY <1>8, <1>9, <1>10 DEF Drawn
<1> QED
  BY <1>6, <1>11, <1>12, <1>13 DEF part

LEMMA AppendIs ==
  ASSUME NEW S, NEW s \in Seq(S), NEW e \in S
  PROVE  /\ Append(s, e) \in Seq(S)
         /\ Len(s) \in Nat /\ DOMAIN s = 1 .. Len(s)
         /\ DOMAIN Append(s, e) = 1 .. Len(s) + 1
         /\ Append(s, e)[Len(s) + 1] = e
         /\ \A i \in DOMAIN s : Append(s, e)[i] = s[i]
<1>1. Len(s) \in Nat /\ DOMAIN s = 1 .. Len(s)
  BY LenProperties
<1>2. Append(s, e) \in Seq(S) /\ Len(Append(s, e)) = Len(s) + 1
      /\ \A i \in 1 .. Len(s) : Append(s, e)[i] = s[i]
      /\ Append(s, e)[Len(s) + 1] = e
  BY AppendProperties
<1>3. DOMAIN Append(s, e) = 1 .. Len(s) + 1
  BY <1>2, LenProperties
<1> QED
  BY <1>1, <1>2, <1>3

LEMMA DrawnOnce ==
  ASSUME NEW part, NEW s, NEW place, Drawn(part, s, place), DOMAIN part \subseteq Int,
         DOMAIN s \subseteq Int,
         \A i, k \in DOMAIN s : s[i].write = s[k].write => i = k
  PROVE  \A i, k \in DOMAIN part : part[i].write = part[k].write => i = k
<1> SUFFICES ASSUME NEW i \in DOMAIN part, NEW k \in DOMAIN part,
                    part[i].write = part[k].write
             PROVE  i = k
  OBVIOUS
<1>1. /\ place[i] \in DOMAIN s /\ part[i] = s[place[i]]
      /\ place[k] \in DOMAIN s /\ part[k] = s[place[k]]
  BY DEF Drawn
<1>2. place[i] = place[k]
  BY <1>1
<1>3. place[i] \in Int /\ ~(place[i] < place[k]) /\ ~(place[k] < place[i])
  BY <1>1, <1>2
<1>4. ~(i < k) /\ ~(k < i) /\ i \in Int /\ k \in Int
  BY <1>3 DEF Drawn
<1> QED
  BY <1>4

(* A write that left the queue is gone from it, the other rows stay in     *)
(* their order.                                                            *)
LEMMA WithoutDraws ==
  ASSUME OutboxTypeOK, NEW w
  PROVE  /\ WithoutWrite(w) \in Seq(OutboxRow)
         /\ \E place : /\ Drawn(WithoutWrite(w), kept, place)
                       /\ \A i \in DOMAIN WithoutWrite(w) : WithoutWrite(w)[i].write # w
                       /\ \A k \in DOMAIN kept : kept[k].write # w =>
                            \E i \in DOMAIN WithoutWrite(w) : place[i] = k
<1> DEFINE at == {i \in DOMAIN kept : kept[i].write = w}
<1>1. kept \in Seq(OutboxRow) /\ DOMAIN kept = 1 .. Len(kept) /\ Len(kept) \in Nat
  BY LenProperties DEF OutboxTypeOK, OutboxRow
<1>2. CASE at = {}
  <2>1. WithoutWrite(w) = kept /\ \A i \in DOMAIN kept : kept[i].write # w
    BY <1>2 DEF WithoutWrite
  <2> DEFINE place == [i \in DOMAIN kept |-> i]
  <2>2. Drawn(kept, kept, place)
    BY DEF Drawn
  <2>3. \A k \in DOMAIN kept : place[k] = k
    OBVIOUS
  <2> HIDE DEF place
  <2> QED
    BY <1>1, <2>1, <2>2, <2>3
<1>3. CASE at # {}
  <2>1. at \in SUBSET Nat
    BY <1>1
  <2>2. Min(at) \in at
    BY <1>3, <2>1, Smallest
  <2>3. WithoutWrite(w) = RemoveAt(kept, Min(at))
    BY <1>3 DEF WithoutWrite
  <2> DEFINE a    == Min(at)
             part == RemoveAt(kept, a)
  <2>4. a \in DOMAIN kept /\ kept[a].write = w
    BY <2>2
  <2>5. \A k \in DOMAIN kept : kept[k].write = w => k = a
    BY <2>4 DEF OutboxTypeOK
  <2> HIDE DEF a, at
  <2>6a. kept \in Seq(OutboxRow) /\ a \in DOMAIN kept
    BY <1>1, <2>4
  <2>6b. part \in Seq(OutboxRow)
    BY <2>6a, RemoveAtDraws
  <2>6. /\ part \in Seq(OutboxRow)
        /\ \E place : /\ Drawn(part, kept, place)
                      /\ \A i \in DOMAIN part : place[i] # a
                      /\ \A k \in DOMAIN kept \ {a} : \E i \in DOMAIN part : place[i] = k
    BY <2>6a, RemoveAtDraws
  <2> HIDE DEF part
  <2>7. PICK place : /\ Drawn(part, kept, place)
                     /\ \A i \in DOMAIN part : place[i] # a
                     /\ \A k \in DOMAIN kept \ {a} : \E i \in DOMAIN part : place[i] = k
    BY <2>6
  <2>8. \A i \in DOMAIN part : part[i].write # w
    BY <2>5, <2>7 DEF Drawn
  <2>9. \A k \in DOMAIN kept : kept[k].write # w => \E i \in DOMAIN part : place[i] = k
    BY <2>4, <2>7
  <2>10. WithoutWrite(w) = part
    BY <2>3 DEF a, part
  <2> QED
    BY <2>6, <2>7, <2>8, <2>9, <2>10
<1> QED
  BY <1>2, <1>3

(* What a drain goes on with: the rest from its first write of a job that  *)
(* is not stuck.                                                           *)
Onward(new, old, skip, stuck) ==
  /\ \A p \in DOMAIN new : p + skip \in DOMAIN old /\ new[p] = old[p + skip]
  /\ \A m \in DOMAIN old : m > skip => m - skip \in DOMAIN new
  /\ \A m \in DOMAIN old : m <= skip => old[m].job \in stuck

LEMMA PastStuckGoesOn ==
  ASSUME NEW left \in Seq(Write), NEW stuck \in SUBSET Jobs
  PROVE  /\ PastStuck(left, stuck) \in Seq(Write)
         /\ PastStuck(left, stuck) # <<>> => Head(PastStuck(left, stuck)).job \notin stuck
         /\ \E skip \in Nat : Onward(PastStuck(left, stuck), left, skip, stuck)
<1> DEFINE free == {i \in DOMAIN left : left[i].job \notin stuck}
           rest == PastStuck(left, stuck)
           n    == Len(left)
<1>1. n \in Nat /\ DOMAIN left = 1 .. n /\ \A i \in 1 .. n : left[i] \in Write
  BY LenProperties, ElementOfSeq
<1>2. CASE free = {}
  <2>1. rest = <<>> /\ \A m \in DOMAIN left : left[m].job \in stuck
    BY <1>2 DEF PastStuck
  <2>2. Onward(<<>>, left, n, stuck)
    BY <1>1, <2>1 DEF Onward
  <2>3. <<>> \in Seq(Write)
    BY EmptySeq
  <2> QED
    BY <1>1, <2>1, <2>2, <2>3
<1>3. CASE free # {}
  <2>1. free \in SUBSET Nat
    BY <1>1
  <2> DEFINE f == Min(free)
  <2>2. f \in free /\ \A m \in free : f <= m
    BY <1>3, <2>1, Smallest
  <2>3. rest = SubSeq(left, f, n)
    BY <1>3 DEF PastStuck
  <2> HIDE DEF f
  <2>4. f \in 1 .. n /\ left[f].job \notin stuck
    BY <1>1, <2>2
  <2>5. \A m \in DOMAIN left : m < f => left[m].job \in stuck
    <3>1. ASSUME NEW m \in DOMAIN left, m < f, left[m].job \notin stuck
          PROVE  FALSE
      <4>1. m \in free
        BY <3>1
      <4>2. f <= m /\ m \in Int /\ f \in Int
        BY <1>1, <2>2, <2>4, <4>1
      <4> QED
        BY <3>1, <4>2
    <3> QED
      BY <3>1
  <2> HIDE DEF rest
  <2>6. /\ rest \in Seq(Write) /\ Len(rest) = n - f + 1
        /\ \A i \in 1 .. n - f + 1 : rest[i] = left[f + i - 1]
    <3>1. \A i \in f .. n : left[i] \in Write
      BY <1>1, <2>4
    <3> QED
      BY <1>1, <2>3, <2>4, <3>1, SubSeqProperties
  <2>7. DOMAIN rest = 1 .. n - f + 1
    BY <2>6, LenProperties
  <2>8. Head(rest) = left[f]
    BY <1>1, <2>3, <2>4, HeadTailOfSubSeq
  <2>9. f - 1 \in Nat
    BY <2>4
  <2>10. Onward(rest, left, f - 1, stuck)
    <3>1. ASSUME NEW p \in DOMAIN rest
          PROVE  p + (f - 1) \in DOMAIN left /\ rest[p] = left[p + (f - 1)]
      <4>1. p \in 1 .. n - f + 1 /\ f + p - 1 = p + (f - 1)
        BY <1>1, <2>4, <2>7
      <4>2. rest[p] = left[f + p - 1]
        BY <2>6, <4>1
      <4> QED
        BY <1>1, <2>4, <4>1, <4>2
    <3>2. \A m \in DOMAIN left : m > f - 1 => m - (f - 1) \in DOMAIN rest
      BY <1>1, <2>4, <2>7
    <3>3. \A m \in DOMAIN left : m <= f - 1 => left[m].job \in stuck
      BY <1>1, <2>4, <2>5
    <3> QED
      BY <3>1, <3>2, <3>3 DEF Onward
  <2> QED
    BY <2>4, <2>6, <2>8, <2>9, <2>10 DEF rest
<1> QED
  BY <1>2, <1>3

-----------------------------------------------------------------------------
(* Types, action by action.                                                *)

Typed == OutboxTypeOK /\ CallTyped

LEMMA StopType == Stop \in DrainRec /\ Stop.left = <<>> /\ DOMAIN Stop.left = {}
BY EmptySeq DEF Stop, DrainRec, Reply

LEMMA InitTyped == OutboxInit => Typed
<1> SUFFICES ASSUME OutboxInit
             PROVE  Typed
  OBVIOUS
<1>1. server \in [Jobs -> ServerRow]
  BY NoRowType, BoundsAssumption DEF OutboxInit, ServerRow
<1>2. /\ cached \in [Jobs -> ShownRecord] /\ bundle \in [Jobs -> {"none", "open", "signed"}]
      /\ form \in [Jobs -> 0 .. MaxTaps] /\ taps \in 0 .. MaxTaps /\ troubles \in 0 .. MaxTroubles
      /\ list = NoList
  BY BoundsAssumption DEF OutboxInit, ShownRecord, LifeStates
<1>3. kept \in Seq(OutboxRow) /\ DOMAIN kept = {}
  BY EmptySeq DEF OutboxInit
<1>4. drains \in [Drains -> DrainRec] /\ \A c \in Calls : calls[c] = NoCall
  BY StopType DEF OutboxInit
<1>5. applied \in [Jobs -> Seq(1 .. MaxTaps)]
  BY EmptySeq DEF OutboxInit
<1>6. calls \in [Calls -> {NoCall} \cup CallRec]
  BY DEF OutboxInit
<1> QED
  BY <1>1, <1>2, <1>3, <1>4, <1>5, <1>6
     DEF Typed, OutboxTypeOK, CallTyped, ServerRow, OutboxRow, DrainRec

(* The record of a call says the types the invariant wants of it.          *)
LEMMA CallsTyped ==
  CallTyped => \A c \in Calls : calls[c] # NoCall =>
    /\ calls[c] \in CallRec
    /\ calls[c].write \in Write
    /\ calls[c].reply \in Reply
    /\ calls[c].shown \in ShownRecord
    /\ calls[c].bundle \in {"none", "open", "signed"}
BY DEF CallTyped, CallRec

LEMMA TypesOut ==
  ASSUME Typed
  PROVE  /\ server \in [Jobs -> ServerRow]
         /\ cached \in [Jobs -> ShownRecord]
         /\ bundle \in [Jobs -> {"none", "open", "signed"}]
         /\ form \in [Jobs -> 0 .. MaxTaps]
         /\ kept \in Seq(OutboxRow)
         /\ \A i, k \in DOMAIN kept : kept[i].write = kept[k].write => i = k
         /\ calls \in [Calls -> {NoCall} \cup CallRec]
         /\ drains \in [Drains -> DrainRec]
         /\ list = NoList \/ list \in [Jobs -> ShownRecord]
         /\ taps \in 0 .. MaxTaps
         /\ troubles \in 0 .. MaxTroubles
         /\ applied \in [Jobs -> Seq(1 .. MaxTaps)]
BY DEF Typed, OutboxTypeOK, CallTyped, ServerRow, OutboxRow, DrainRec

LEMMA TypesBack ==
  ASSUME /\ server' \in [Jobs -> ServerRow]
         /\ cached' \in [Jobs -> ShownRecord]
         /\ bundle' \in [Jobs -> {"none", "open", "signed"}]
         /\ form' \in [Jobs -> 0 .. MaxTaps]
         /\ kept' \in Seq(OutboxRow)
         /\ \A i, k \in DOMAIN kept' : kept'[i].write = kept'[k].write => i = k
         /\ calls' \in [Calls -> {NoCall} \cup CallRec]
         /\ drains' \in [Drains -> DrainRec]
         /\ list' = NoList \/ list' \in [Jobs -> ShownRecord]
         /\ taps' \in 0 .. MaxTaps
         /\ troubles' \in 0 .. MaxTroubles
         /\ applied' \in [Jobs -> Seq(1 .. MaxTaps)]
  PROVE  Typed'
<1>1. CallTyped'
  BY DEF CallTyped
<1>2. \A c \in Calls : calls'[c] # NoCall =>
        /\ calls'[c].write \in Write
        /\ calls'[c].reply \in Reply
        /\ calls'[c].shown \in ShownRecord
        /\ calls'[c].bundle \in {"none", "open", "signed"}
  BY DEF CallRec
<1> QED
  BY <1>1, <1>2 DEF Typed, OutboxTypeOK, ServerRow, OutboxRow, DrainRec

LEMMA FaultType ==
  ASSUME Typed, NEW may, FaultIf(may)
  PROVE  troubles' \in 0 .. MaxTroubles
BY BoundsAssumption, TypesOut DEF FaultIf

LEMMA RecallTypes ==
  ASSUME Typed, NEW j \in Jobs, Recall(j)
  PROVE  Typed'
<1>1. server[j] \in ServerRow
  BY TypesOut
<1>2. [server[j] EXCEPT !.mine = FALSE] \in ServerRow
  BY <1>1 DEF ServerRow
<1>3. server' \in [Jobs -> ServerRow]
  BY <1>2, TypesOut DEF Recall
<1> QED
  BY <1>3, TypesOut, TypesBack DEF Recall

LEMMA CardFetchedTypes ==
  ASSUME Typed, NEW j \in Jobs, CardFetched(j)
  PROVE  Typed'
<1>1. BundleOf(server[j]) \in {"none", "open", "signed"}
  BY TypesOut, RecordType
<1>2. bundle' \in [Jobs -> {"none", "open", "signed"}]
  BY <1>1, TypesOut DEF CardFetched
<1> QED
  BY <1>2, TypesOut, TypesBack DEF CardFetched

LEMMA TapIs ==
  ASSUME Typed, NEW c \in Calls, NEW j \in Jobs, Tap(c, j)
  PROVE  \E w \in Write :
           /\ w.id = taps + 1
           /\ calls' = [calls EXCEPT ![c] = [write |-> w, reply |-> "none",
                                           shown |-> cached[j], bundle |-> bundle[j]]]
           /\ form' \in [Jobs -> 0 .. MaxTaps]
<1>1. PICK op \in Ops \ {"sign_off"} : \E reason \in IF op = "pause" THEN Reasons ELSE {NoReason} :
        LET w == [id |-> taps + 1, job |-> j, op |-> op, reason |-> reason,
                  content |-> form[j]] IN
        /\ calls' = [calls EXCEPT ![c] = [write |-> w, reply |-> "none",
                                        shown |-> cached[j], bundle |-> bundle[j]]]
        /\ form' = IF op = "save" THEN [form EXCEPT ![j] = w.id] ELSE form
  BY DEF Tap
<1>2. PICK reason \in IF op = "pause" THEN Reasons ELSE {NoReason} :
        LET w == [id |-> taps + 1, job |-> j, op |-> op, reason |-> reason,
                  content |-> form[j]] IN
        /\ calls' = [calls EXCEPT ![c] = [write |-> w, reply |-> "none",
                                        shown |-> cached[j], bundle |-> bundle[j]]]
        /\ form' = IF op = "save" THEN [form EXCEPT ![j] = w.id] ELSE form
  BY <1>1
<1> DEFINE w == [id |-> taps + 1, job |-> j, op |-> op, reason |-> reason,
                 content |-> form[j]]
<1>3. taps < MaxTaps /\ taps \in Nat /\ MaxTaps \in Nat
  BY BoundsAssumption, TypesOut DEF Tap
<1>4. reason \in Reasons \cup {NoReason}
  OBVIOUS
<1>5. w \in Write
  BY <1>3, <1>4, TypesOut DEF Write
<1>6. form' \in [Jobs -> 0 .. MaxTaps]
  BY <1>2, <1>3, TypesOut
<1>7. w.id = taps + 1
  OBVIOUS
<1> QED
  BY <1>2, <1>5, <1>6, <1>7

LEMMA TapTypes ==
  ASSUME Typed, NEW c \in Calls, NEW j \in Jobs, Tap(c, j)
  PROVE  Typed'
<1>1. PICK w \in Write :
        /\ calls' = [calls EXCEPT ![c] = [write |-> w, reply |-> "none",
                                        shown |-> cached[j], bundle |-> bundle[j]]]
        /\ form' \in [Jobs -> 0 .. MaxTaps]
  BY TapIs
<1>2. [write |-> w, reply |-> "none", shown |-> cached[j], bundle |-> bundle[j]] \in CallRec
  BY TypesOut DEF CallRec, Reply
<1>3. calls' \in [Calls -> {NoCall} \cup CallRec]
  BY <1>1, <1>2, TypesOut
<1>4. taps' \in 0 .. MaxTaps
  BY BoundsAssumption, TypesOut DEF Tap
<1> QED
  BY <1>1, <1>3, <1>4, TypesOut, TypesBack DEF Tap

LEMMA RpcServedTypes ==
  ASSUME Typed, NEW c \in Calls, RpcServed(c)
  PROVE  Typed'
<1> DEFINE w == calls[c].write
<1>1. calls[c] # NoCall /\ ServeWrite(w) /\ w \in Write /\ w.job \in Jobs
  BY CallsTyped DEF RpcServed, Typed, Write
<1>2. PICK lost \in {FALSE} \cup {"lost_answer" \in Acts} :
        /\ FaultIf(lost)
        /\ calls' = [calls EXCEPT ![c] =
                      [write |-> w, reply |-> IF lost THEN "lost" ELSE ReplyTo(w),
                       shown |-> RecordOf(server'[w.job]), bundle |-> BundleOf(server'[w.job])]]
  BY DEF RpcServed
<1>3. /\ server' \in [Jobs -> ServerRow] /\ applied' \in [Jobs -> Seq(1 .. MaxTaps)]
      /\ ReplyTo(w) \in Reply
  BY <1>1, ServeType DEF Typed
<1>4. /\ RecordOf(server'[w.job]) \in ShownRecord
      /\ BundleOf(server'[w.job]) \in {"none", "open", "signed"}
  BY <1>1, <1>3, RecordType
<1>5. (IF lost THEN "lost" ELSE ReplyTo(w)) \in Reply
  BY <1>3 DEF Reply
<1>6. calls' \in [Calls -> {NoCall} \cup CallRec]
  BY <1>1, <1>2, <1>4, <1>5, TypesOut DEF CallRec
<1>7. troubles' \in 0 .. MaxTroubles
  BY <1>2, FaultType
<1> QED
  BY <1>3, <1>6, <1>7, TypesOut, TypesBack DEF RpcServed

LEMMA RpcLostTypes ==
  ASSUME Typed, NEW c \in Calls, RpcLost(c)
  PROVE  Typed'
<1>1. calls[c] \in CallRec
  BY CallsTyped DEF RpcLost, Typed
<1>2. [calls[c] EXCEPT !.reply = "lost"] \in CallRec
  BY <1>1 DEF CallRec, Reply
<1>3. calls' \in [Calls -> {NoCall} \cup CallRec]
  BY <1>2, TypesOut DEF RpcLost
<1> QED
  BY <1>3, TypesOut, TypesBack DEF RpcLost

LEMMA ShownType ==
  ASSUME Typed, NEW w \in Write, NEW reply, NEW answer \in ShownRecord
  PROVE  ShownAfter(w, reply, answer) \in ShownRecord
<1>1. cached[w.job] \in ShownRecord
  BY TypesOut DEF Write
<1>2. SignShown(cached[w.job]) \in ShownRecord
  BY <1>1 DEF SignShown, ShownRecord, LifeStates
<1>3. Moved(w.op, cached[w.job]) \in ShownRecord
  BY <1>1 DEF Moved, ShownRecord, LifeStates
<1> QED
  BY <1>1, <1>2, <1>3 DEF ShownAfter

LEMMA RpcDoneTypes ==
  ASSUME Typed, Fresh, NEW c \in Calls, RpcDone(c)
  PROVE  Typed'
<1> DEFINE w   == calls[c].write
           row == [write |-> w, rejected |-> FALSE]
<1>1. /\ calls[c] # NoCall /\ w \in Write /\ w.job \in Jobs
      /\ calls[c].shown \in ShownRecord /\ calls[c].bundle \in {"none", "open", "signed"}
  BY CallsTyped DEF RpcDone, Typed, Write
<1>2. cached' \in [Jobs -> ShownRecord]
  BY <1>1, ShownType, TypesOut DEF RpcDone
<1>3. bundle' \in [Jobs -> {"none", "open", "signed"}]
  BY <1>1, TypesOut DEF RpcDone
<1>4. kept \in Seq(OutboxRow) /\ row \in OutboxRow
  BY <1>1, TypesOut DEF OutboxRow
<1>5. /\ Append(kept, row) \in Seq(OutboxRow)
      /\ \A i, k \in DOMAIN Append(kept, row) :
           Append(kept, row)[i].write = Append(kept, row)[k].write => i = k
  <2>1. \A k \in DOMAIN kept : kept[k].write # w
    BY <1>1 DEF Fresh, Asks, Holds
  <2>2. \A i, k \in DOMAIN kept : kept[i].write = kept[k].write => i = k
    BY TypesOut
  <2> QED
    BY <1>4, <2>1, <2>2, AppendIs
<1>6. /\ kept' \in Seq(OutboxRow)
      /\ \A i, k \in DOMAIN kept' : kept'[i].write = kept'[k].write => i = k
  BY <1>5, TypesOut DEF RpcDone
<1>7. calls' \in [Calls -> {NoCall} \cup CallRec]
  BY TypesOut DEF RpcDone
<1> QED
  BY <1>2, <1>3, <1>6, <1>7, TypesOut, TypesBack DEF RpcDone

LEMMA ListTypes ==
  ASSUME Typed, ListServed \/ ListDone
  PROVE  Typed'
<1>1. CASE ListServed
  <2>1. \A j \in Jobs : RecordOf(server[j]) \in ShownRecord
    BY TypesOut, RecordType
  <2>2. list' \in [Jobs -> ShownRecord]
    BY <1>1, <2>1 DEF ListServed
  <2> QED
    BY <1>1, <2>2, TypesOut, TypesBack DEF ListServed
<1>2. CASE ListDone
  <2>1. cached' \in [Jobs -> ShownRecord]
    BY <1>2, TypesOut DEF ListDone
  <2> QED
    BY <1>2, <2>1, TypesOut, TypesBack DEF ListDone
<1> QED
  BY <1>1, <1>2

LEMMA KeptRows ==
  ASSUME Typed
  PROVE  /\ Len(kept) \in Nat /\ DOMAIN kept = 1 .. Len(kept)
         /\ \A i \in DOMAIN kept : kept[i] \in OutboxRow
<1>1. kept \in Seq(OutboxRow)
  BY TypesOut
<1> QED
  BY <1>1, LenProperties, ElementOfSeq

LEMMA SnapshotIs ==
  ASSUME Typed
  PROVE  /\ Snapshot \in Seq(Write) /\ DOMAIN Snapshot = DOMAIN kept
         /\ \A p \in DOMAIN kept : Snapshot[p] = kept[p].write
<1>1. /\ Len(kept) \in Nat /\ DOMAIN kept = 1 .. Len(kept)
      /\ \A i \in DOMAIN kept : kept[i].write \in Write
  BY KeptRows DEF OutboxRow
<1>2. Snapshot \in [1 .. Len(kept) -> Write]
  BY <1>1 DEF Snapshot
<1>3. Snapshot \in Seq(Write)
  BY <1>1, <1>2, SeqDef
<1> QED
  BY <1>3 DEF Snapshot

LEMMA ReplayStartTypes ==
  ASSUME Typed, NEW d \in Drains, ReplayStart(d)
  PROVE  Typed'
<1>1. [left |-> Snapshot, stuck |-> {}, reply |-> "none"] \in DrainRec
  BY SnapshotIs DEF DrainRec, Reply
<1>2. drains' \in [Drains -> DrainRec]
  BY <1>1, TypesOut DEF ReplayStart
<1> QED
  BY <1>2, TypesOut, TypesBack DEF ReplayStart

LEMMA HeadIs ==
  ASSUME Typed, NEW d \in Drains, drains[d].left # <<>>
  PROVE  /\ drains[d] \in DrainRec /\ Head(drains[d].left) \in Write
         /\ 1 \in DOMAIN drains[d].left /\ Head(drains[d].left) = drains[d].left[1]
         /\ Tail(drains[d].left) \in Seq(Write)
         /\ \A p \in DOMAIN Tail(drains[d].left) :
              p \in Nat /\ p + 1 \in DOMAIN drains[d].left
              /\ Tail(drains[d].left)[p] = drains[d].left[p + 1]
         /\ \A m \in DOMAIN drains[d].left :
              m # 1 => m - 1 \in DOMAIN Tail(drains[d].left)
<1> DEFINE left == drains[d].left
<1>1. drains[d] \in DrainRec /\ left \in Seq(Write) /\ left # <<>>
  BY TypesOut DEF DrainRec
<1> HIDE DEF left
<1>2. Head(left) \in Write /\ Tail(left) \in Seq(Write) /\ Len(Tail(left)) = Len(left) - 1
      /\ \A i \in 1 .. Len(Tail(left)) : Tail(left)[i] = left[i + 1]
  BY <1>1, HeadTailProperties
<1>3. Len(left) \in Nat \ {0} /\ DOMAIN left = 1 .. Len(left) /\ Head(left) = left[1]
  BY <1>1, EmptySeq, LenProperties
<1>4. DOMAIN Tail(left) = 1 .. Len(left) - 1
  BY <1>2, LenProperties
<1> QED
  BY <1>1, <1>2, <1>3, <1>4 DEF left

LEMMA ReplayServedTypes ==
  ASSUME Typed, NEW d \in Drains, ReplayServed(d)
  PROVE  Typed'
<1> DEFINE w == Head(drains[d].left)
<1>1. w \in Write /\ ServeWrite(w) /\ drains[d] \in DrainRec
  BY HeadIs DEF ReplayServed
<1>2. PICK lost \in {FALSE} \cup {"lost_answer" \in Acts} :
        /\ FaultIf(lost)
        /\ drains' = [drains EXCEPT ![d].reply = IF lost THEN "lost" ELSE ReplyTo(w)]
  BY DEF ReplayServed
<1>3. /\ server' \in [Jobs -> ServerRow] /\ applied' \in [Jobs -> Seq(1 .. MaxTaps)]
      /\ ReplyTo(w) \in Reply
  BY <1>1, ServeType DEF Typed
<1> DEFINE reply == IF lost THEN "lost" ELSE ReplyTo(w)
<1>4. reply \in Reply
  BY <1>3 DEF Reply
<1> HIDE DEF reply
<1>5. [drains[d] EXCEPT !.reply = reply] \in DrainRec
  BY <1>1, <1>4 DEF DrainRec
<1>6. drains' \in [Drains -> DrainRec]
  BY <1>2, <1>5, TypesOut DEF reply
<1>7. troubles' \in 0 .. MaxTroubles
  BY <1>2, FaultType
<1> QED
  BY <1>3, <1>6, <1>7, TypesOut, TypesBack DEF ReplayServed

LEMMA GoesOnIs ==
  ASSUME NEW left \in Seq(Write), NEW stuck \in SUBSET Jobs
  PROVE  /\ GoesOn(left, stuck) \in DrainRec
         /\ GoesOn(left, stuck).left = PastStuck(left, stuck)
         /\ GoesOn(left, stuck).reply = "none"
         /\ PastStuck(left, stuck) # <<>> => GoesOn(left, stuck).stuck = stuck
<1>1. CASE PastStuck(left, stuck) = <<>>
  BY <1>1, StopType DEF GoesOn, Stop
<1>2. CASE PastStuck(left, stuck) # <<>>
  BY <1>2, PastStuckGoesOn DEF GoesOn, DrainRec, Reply
<1> QED
  BY <1>1, <1>2

(* A refusal is noted on its row; no row moves.                            *)
LEMMA RejectedIs ==
  ASSUME Typed, NEW w
  PROVE  /\ Rejected(w) \in Seq(OutboxRow) /\ DOMAIN Rejected(w) = DOMAIN kept
         /\ \A k \in DOMAIN kept : Rejected(w)[k].write = kept[k].write
<1>1. /\ Len(kept) \in Nat /\ DOMAIN kept = 1 .. Len(kept)
      /\ \A i \in DOMAIN kept : kept[i] \in OutboxRow
  BY KeptRows
<1>2. \A i \in DOMAIN kept : /\ [kept[i] EXCEPT !.rejected = TRUE] \in OutboxRow
                             /\ [kept[i] EXCEPT !.rejected = TRUE].write = kept[i].write
  BY <1>1 DEF OutboxRow
<1>3. Rejected(w) \in [1 .. Len(kept) -> OutboxRow]
  BY <1>1, <1>2 DEF Rejected
<1>4. Rejected(w) \in Seq(OutboxRow)
  BY <1>1, <1>3, SeqDef
<1> QED
  BY <1>2, <1>4 DEF Rejected

(* What a drain notes of an answer: the stuck jobs and the queue.          *)
LEMMA ReplayRecordIs ==
  ASSUME Typed, NEW d \in Drains, ReplayRecord(d)
  PROVE  LET w    == Head(drains[d].left)
             more == IF drains[d].reply = "ok" THEN drains[d].stuck
                     ELSE drains[d].stuck \cup {w.job}
         IN
         /\ drains[d].left # <<>> /\ more \in SUBSET Jobs
         /\ drains' = [drains EXCEPT ![d] = GoesOn(Tail(drains[d].left), more)]
         /\ \/ drains[d].reply = "ok" /\ kept' = WithoutWrite(w)
            \/ drains[d].reply = "refused" /\ kept' = Rejected(w)
<1>1. drains[d].left # <<>>
  BY DEF ReplayRecord
<1>2. drains[d].stuck \in SUBSET Jobs /\ Head(drains[d].left).job \in Jobs
  BY <1>1, HeadIs DEF DrainRec, Write
<1> QED
  BY <1>1, <1>2 DEF ReplayRecord

LEMMA ReplayRecordTypes ==
  ASSUME Typed, NEW d \in Drains, ReplayRecord(d)
  PROVE  Typed'
<1> DEFINE w    == Head(drains[d].left)
           more == IF drains[d].reply = "ok" THEN drains[d].stuck
                   ELSE drains[d].stuck \cup {w.job}
<1>1. /\ drains[d].left # <<>> /\ more \in SUBSET Jobs
      /\ drains' = [drains EXCEPT ![d] = GoesOn(Tail(drains[d].left), more)]
      /\ \/ kept' = WithoutWrite(w)
         \/ kept' = Rejected(w)
  BY ReplayRecordIs
<1> HIDE DEF w, more
<1>2. Tail(drains[d].left) \in Seq(Write)
  BY <1>1, HeadIs
<1>3. drains' \in [Drains -> DrainRec]
  BY <1>1, <1>2, GoesOnIs, TypesOut
<1>4. \A i, k \in DOMAIN kept : kept[i].write = kept[k].write => i = k
  BY TypesOut
<1>5. CASE kept' = Rejected(w)
  <2>1. /\ kept' \in Seq(OutboxRow)
        /\ \A i, k \in DOMAIN kept' : kept'[i].write = kept'[k].write => i = k
    BY <1>4, <1>5, RejectedIs
  <2> QED
    BY <1>3, <2>1, TypesOut, TypesBack DEF ReplayRecord
<1>6. CASE kept' = WithoutWrite(w)
  <2>1. kept' \in Seq(OutboxRow)
    BY <1>6, WithoutDraws DEF Typed
  <2>2. PICK place : Drawn(kept', kept, place)
    BY <1>6, WithoutDraws DEF Typed
  <2>3. DOMAIN kept' \subseteq Int /\ DOMAIN kept \subseteq Int
    BY <2>1, KeptRows, LenProperties
  <2>4. \A i, k \in DOMAIN kept' : kept'[i].write = kept'[k].write => i = k
    BY <1>4, <2>2, <2>3, DrawnOnce
  <2> QED
    BY <1>3, <2>1, <2>4, TypesOut, TypesBack DEF ReplayRecord
<1> QED
  BY <1>1, <1>5, <1>6

LEMMA StopTypes ==
  ASSUME Typed, (\E d \in Drains : ReplayCut(d)) \/ KillApp
  PROVE  Typed'
<1>1. CASE KillApp
  <2>1. drains' \in [Drains -> DrainRec] /\ calls' \in [Calls -> {NoCall} \cup CallRec]
        /\ list' = NoList /\ troubles' \in 0 .. MaxTroubles
    BY <1>1, StopType, FaultType DEF KillApp
  <2> QED
    BY <1>1, <2>1, TypesOut, TypesBack DEF KillApp
<1>2. ASSUME NEW d \in Drains, ReplayCut(d)
      PROVE  Typed'
  <2>1. drains' \in [Drains -> DrainRec] /\ kept' = kept /\ troubles' \in 0 .. MaxTroubles
    BY <1>2, StopType, TypesOut, FaultType DEF ReplayCut, KeepOutbox
  <2> QED
    BY <1>2, <2>1, TypesOut, TypesBack DEF ReplayCut
<1> QED
  BY <1>1, <1>2

-----------------------------------------------------------------------------
(* The order.                                                              *)

LEMMA InitIInv == OutboxInit => IInv
<1> SUFFICES ASSUME OutboxInit
             PROVE  IInv
  OBVIOUS
<1>1. /\ kept = <<>> /\ DOMAIN kept = {}
      /\ \A c \in Calls : ~Asks(c)
      /\ \A d \in Drains : drains[d] = Stop
  BY EmptySeq DEF OutboxInit, Asks
<1>2. Fresh /\ Replays
  BY <1>1, StopType DEF Fresh, Replays, InOrder
<1> QED
  BY <1>2, InitTyped DEF IInv, Typed

LEMMA WriteFacts ==
  ASSUME Typed
  PROVE  /\ taps \in Nat
         /\ \A k \in DOMAIN kept : kept[k].write \in Write /\ kept[k].write.id \in Nat
         /\ \A d \in Drains : \A p \in DOMAIN drains[d].left :
              drains[d].left[p] \in Write /\ drains[d].left[p].id \in Nat
         /\ \A c \in Calls : Asks(c) => calls[c].write \in Write /\ calls[c].write.id \in Nat
<1>1. \A w \in Write : w.id \in Nat
  BY BoundsAssumption DEF Write
<1>2. \A k \in DOMAIN kept : kept[k].write \in Write
  BY KeptRows DEF OutboxRow
<1>3. ASSUME NEW d \in Drains, NEW p \in DOMAIN drains[d].left
      PROVE  drains[d].left[p] \in Write
  <2>1. drains[d].left \in Seq(Write)
    BY TypesOut DEF DrainRec
  <2> QED
    BY <2>1, LenProperties, ElementOfSeq
<1>4. \A c \in Calls : Asks(c) => calls[c].write \in Write
  BY CallsTyped DEF Typed, Asks
<1> QED
  BY <1>1, <1>2, <1>3, <1>4, BoundsAssumption, TypesOut

(* A step that adds nothing to the queue, to a drain or to the screens.    *)
LEMMA QuietKeeps ==
  ASSUME Fresh, Replays, kept' = kept, taps' = taps,
         \A d \in Drains : \/ /\ drains'[d].left = drains[d].left
                              /\ drains'[d].stuck = drains[d].stuck
                           \/ drains'[d] = Stop,
         \A c \in Calls : Asks(c)' => Asks(c) /\ calls'[c].write = calls[c].write
  PROVE  Fresh' /\ Replays'
<1>1. Fresh'
  <2>1. \A d \in Drains : \A p \in DOMAIN drains'[d].left :
          p \in DOMAIN drains[d].left /\ drains'[d].left[p] = drains[d].left[p]
    BY StopType
  <2>2. \A k \in DOMAIN kept' : kept'[k].write.id <= taps'
    BY DEF Fresh
  <2>3. \A d \in Drains : \A p \in DOMAIN drains'[d].left : drains'[d].left[p].id <= taps'
    BY <2>1 DEF Fresh
  <2>4. ASSUME NEW c \in Calls, Asks(c)'
        PROVE  /\ calls'[c].write.id <= taps'
               /\ ~Holds(kept', calls'[c].write)
               /\ \A d \in Drains : ~Has(drains'[d].left, calls'[c].write)
               /\ \A e \in Calls : Asks(e)' /\ calls'[e].write = calls'[c].write => e = c
    <3>1. Asks(c) /\ calls'[c].write = calls[c].write
      BY <2>4
    <3>2. calls'[c].write.id <= taps' /\ ~Holds(kept', calls'[c].write)
      BY <3>1 DEF Fresh, Holds
    <3>3. \A d \in Drains : ~Has(drains'[d].left, calls'[c].write)
      BY <2>1, <3>1 DEF Fresh, Has
    <3>4. \A e \in Calls : Asks(e)' /\ calls'[e].write = calls'[c].write => e = c
      BY <3>1 DEF Fresh
    <3> QED
      BY <3>1, <3>2, <3>3, <3>4
  <2> QED
    BY <2>2, <2>3, <2>4 DEF Fresh, Asks
<1>2. Replays'
  BY StopType DEF Replays, InOrder, Before
<1> QED
  BY <1>1, <1>2

(* A new write is numbered past all the others.                            *)
LEMMA TapKeeps ==
  ASSUME IInv, NEW c \in Calls, NEW j \in Jobs, Tap(c, j)
  PROVE  Fresh' /\ Replays'
<1>1. Typed /\ Fresh /\ Replays
  BY DEF IInv, Typed
<1>2. PICK w \in Write :
        /\ w.id = taps + 1
        /\ calls' = [calls EXCEPT ![c] = [write |-> w, reply |-> "none",
                                        shown |-> cached[j], bundle |-> bundle[j]]]
  BY <1>1, TapIs
<1>3. taps' = taps + 1 /\ kept' = kept /\ drains' = drains /\ taps \in Nat
  BY <1>1, WriteFacts DEF Tap
<1>4. /\ calls'[c].write = w
      /\ \A e \in Calls \ {c} : calls'[e] = calls[e]
  BY <1>1, <1>2, TypesOut
<1>5. \A k \in DOMAIN kept : kept[k].write.id <= taps /\ kept[k].write.id \in Nat
  BY <1>1, WriteFacts DEF Fresh
<1>6. \A d \in Drains : \A p \in DOMAIN drains[d].left :
        drains[d].left[p].id <= taps /\ drains[d].left[p].id \in Nat
  BY <1>1, WriteFacts DEF Fresh
<1>7. \A e \in Calls \ {c} : Asks(e) =>
        calls[e].write.id <= taps /\ calls[e].write.id \in Nat
  BY <1>1, WriteFacts DEF Fresh
<1>8. ASSUME NEW e \in Calls, calls'[e] # NoCall
      PROVE  /\ calls'[e].write.id <= taps'
             /\ ~Holds(kept', calls'[e].write)
             /\ \A d \in Drains : ~Has(drains'[d].left, calls'[e].write)
             /\ \A f \in Calls :
                  calls'[f] # NoCall /\ calls'[f].write = calls'[e].write => f = e
  <2>1. CASE e = c
    <3>1. calls'[e].write = w
      BY <1>4, <2>1
    <3>2. w.id <= taps' /\ ~(w.id <= taps)
      BY <1>2, <1>3
    <3>3. ~Holds(kept', w) /\ \A d \in Drains : ~Has(drains'[d].left, w)
      BY <1>3, <1>5, <1>6, <3>2 DEF Holds, Has
    <3>4. \A f \in Calls \ {c} : Asks(f) => calls[f].write # w
      BY <1>7, <3>2
    <3> QED
      BY <1>4, <2>1, <3>1, <3>2, <3>3, <3>4 DEF Asks
  <2>2. CASE e # c
    <3>1. calls'[e] = calls[e] /\ Asks(e)
      BY <1>4, <1>8, <2>2 DEF Asks
    <3>2. calls[e].write.id <= taps + 1 /\ calls[e].write # w
      BY <1>2, <1>3, <1>7, <2>2, <3>1
    <3>3. ~Holds(kept, calls[e].write) /\ \A d \in Drains : ~Has(drains[d].left, calls[e].write)
      BY <1>1, <3>1 DEF Fresh
    <3>4. \A f \in Calls \ {c} : Asks(f) /\ calls[f].write = calls[e].write => f = e
      BY <1>1, <3>1 DEF Fresh
    <3> QED
      BY <1>3, <1>4, <3>1, <3>2, <3>3, <3>4 DEF Asks
  <2> QED
    BY <2>1, <2>2
<1>9. /\ \A k \in DOMAIN kept' : kept'[k].write.id <= taps'
      /\ \A d \in Drains : \A p \in DOMAIN drains'[d].left : drains'[d].left[p].id <= taps'
  BY <1>3, <1>5, <1>6
<1>10. Fresh'
  BY <1>8, <1>9 DEF Fresh, Asks
<1> QED
  BY <1>1, <1>3, <1>10 DEF Replays

(* A write joins the queue at its end, and no drain has it yet.            *)
LEMMA RpcDoneKeeps ==
  ASSUME IInv, NEW c \in Calls, RpcDone(c)
  PROVE  Fresh' /\ Replays'
<1> DEFINE w   == calls[c].write
           row == [write |-> w, rejected |-> FALSE]
<1>1. Typed /\ Fresh /\ Replays
  BY DEF IInv, Typed
<1>2. /\ Asks(c) /\ drains' = drains /\ taps' = taps
      /\ calls' = [calls EXCEPT ![c] = NoCall]
      /\ kept' = Append(kept, row) \/ kept' = kept
  BY DEF RpcDone, Asks
<1>3. /\ calls'[c] = NoCall
      /\ \A e \in Calls \ {c} : calls'[e] = calls[e]
  BY <1>1, <1>2, TypesOut
<1>4. CASE kept' = kept
  <2>1. \A e \in Calls : Asks(e)' => Asks(e) /\ calls'[e].write = calls[e].write
    BY <1>3 DEF Asks
  <2> QED
    BY <1>1, <1>2, <1>4, <2>1, QuietKeeps
<1>5. CASE kept' = Append(kept, row)
  <2>1. kept \in Seq(OutboxRow) /\ row \in OutboxRow
    BY <1>1, <1>2, WriteFacts, TypesOut DEF OutboxRow
  <2> HIDE DEF row
  <2>2. /\ Len(kept) \in Nat /\ DOMAIN kept = 1 .. Len(kept)
        /\ DOMAIN kept' = 1 .. Len(kept) + 1
        /\ kept'[Len(kept) + 1] = row
        /\ \A i \in DOMAIN kept : kept'[i] = kept[i]
    BY <1>5, <2>1, AppendIs
  <2>3. row.write = w
    BY DEF row
  <2>4. \A k \in DOMAIN kept' : (k \in DOMAIN kept /\ kept'[k] = kept[k]) \/ kept'[k].write = w
    BY <2>2, <2>3
  <2> HIDE DEF w
  <2>5. /\ w.id <= taps /\ \A d \in Drains : ~Has(drains[d].left, w)
        /\ \A e \in Calls \ {c} : Asks(e) => calls[e].write # w
    BY <1>1, <1>2 DEF Fresh, w
  <2>6. \A k \in DOMAIN kept' : kept'[k].write.id <= taps'
    BY <1>1, <1>2, <2>4, <2>5 DEF Fresh
  <2>7. \A d \in Drains : \A p \in DOMAIN drains'[d].left : drains'[d].left[p].id <= taps'
    BY <1>1, <1>2 DEF Fresh
  <2>8. ASSUME NEW e \in Calls, calls'[e] # NoCall
        PROVE  /\ calls'[e].write.id <= taps'
               /\ ~Holds(kept', calls'[e].write)
               /\ \A d \in Drains : ~Has(drains'[d].left, calls'[e].write)
               /\ \A f \in Calls :
                    calls'[f] # NoCall /\ calls'[f].write = calls'[e].write => f = e
    <3>1. e # c /\ calls'[e] = calls[e] /\ Asks(e)
      BY <1>3, <2>8 DEF Asks
    <3>2. calls[e].write # w /\ ~Holds(kept, calls[e].write)
      BY <1>1, <2>5, <3>1 DEF Fresh
    <3>3. ~Holds(kept', calls[e].write)
      BY <2>4, <3>2 DEF Holds
    <3>4. \A f \in Calls : Asks(f) /\ calls[f].write = calls[e].write => f = e
      BY <1>1, <3>1 DEF Fresh
    <3>5. \A d \in Drains : ~Has(drains[d].left, calls[e].write)
      BY <1>1, <3>1 DEF Fresh
    <3>6. calls[e].write.id <= taps
      BY <1>1, <3>1 DEF Fresh
    <3> QED
      BY <1>2, <1>3, <3>1, <3>3, <3>4, <3>5, <3>6 DEF Asks
  <2>9. Fresh'
    BY <2>6, <2>7, <2>8 DEF Fresh, Asks
  <2>10. ASSUME NEW d \in Drains
         PROVE  InOrder(drains[d].left, drains[d].stuck, kept')
    <3> DEFINE left == drains[d].left
    <3> SUFFICES ASSUME NEW p \in DOMAIN left, left[p].job \notin drains[d].stuck,
                        NEW k \in DOMAIN kept', kept'[k].write = left[p],
                        NEW i \in DOMAIN kept', i < k, kept'[i].write.job = left[p].job
                 PROVE  Before(p, left, i, kept')
      BY DEF InOrder
    <3>1. left[p] # w
      BY <2>5 DEF Has
    <3>2. k \in DOMAIN kept /\ kept'[k] = kept[k]
      BY <2>4, <3>1
    <3>3. i \in DOMAIN kept /\ kept'[i] = kept[i]
      BY <2>2, <3>2
    <3>4. Before(p, left, i, kept)
      BY <1>1, <3>2, <3>3 DEF Replays, InOrder
    <3> QED
      BY <3>3, <3>4 DEF Before
  <2> QED
    BY <1>1, <1>2, <2>9, <2>10 DEF Replays
<1> QED
  BY <1>2, <1>4, <1>5

(* A drain starts with all that is queued, in its order.                   *)
LEMMA ReplayStartKeeps ==
  ASSUME IInv, NEW d \in Drains, ReplayStart(d)
  PROVE  Fresh' /\ Replays'
<1>1. Typed /\ Fresh /\ Replays
  BY DEF IInv, Typed
<1>2. /\ kept' = kept /\ taps' = taps /\ calls' = calls
      /\ drains' = [drains EXCEPT ![d] = [left |-> Snapshot, stuck |-> {}, reply |-> "none"]]
  BY DEF ReplayStart
<1>3. /\ drains'[d].left = Snapshot /\ drains'[d].stuck = {}
      /\ \A e \in Drains \ {d} : drains'[e] = drains[e]
  BY <1>1, <1>2, TypesOut
<1>4. /\ DOMAIN Snapshot = DOMAIN kept
      /\ \A p \in DOMAIN kept : Snapshot[p] = kept[p].write
  BY <1>1, SnapshotIs
<1>5. \A e \in Drains : \A p \in DOMAIN drains'[e].left : drains'[e].left[p].id <= taps
  BY <1>1, <1>3, <1>4 DEF Fresh
<1>6. ASSUME NEW c \in Calls, Asks(c), NEW e \in Drains
      PROVE  ~Has(drains'[e].left, calls[c].write)
  <2>1. ~Holds(kept, calls[c].write) /\ ~Has(drains[e].left, calls[c].write)
    BY <1>1, <1>6 DEF Fresh
  <2> QED
    BY <1>3, <1>4, <2>1 DEF Holds, Has
<1>7. Fresh'
  BY <1>1, <1>2, <1>5, <1>6 DEF Fresh, Asks
<1>8. InOrder(Snapshot, {}, kept)
  <2> SUFFICES ASSUME NEW p \in DOMAIN Snapshot,
                      NEW k \in DOMAIN kept, kept[k].write = Snapshot[p],
                      NEW i \in DOMAIN kept, i < k
               PROVE  Before(p, Snapshot, i, kept)
    BY DEF InOrder
  <2>1. p = k
    BY <1>1, <1>4, TypesOut
  <2> QED
    BY <1>4, <2>1 DEF Before
<1>9. \A e \in Drains :
        /\ drains'[e].left # <<>> => Head(drains'[e].left).job \notin drains'[e].stuck
        /\ InOrder(drains'[e].left, drains'[e].stuck, kept)
  BY <1>1, <1>3, <1>8 DEF Replays
<1> QED
  BY <1>2, <1>7, <1>9 DEF Replays

(* Rows may leave the queue.                                               *)
LEMMA OrderThins ==
  ASSUME NEW left, NEW stuck, NEW rows, NEW part, NEW place,
         InOrder(left, stuck, rows), Drawn(part, rows, place)
  PROVE  InOrder(left, stuck, part)
<1> SUFFICES ASSUME NEW p \in DOMAIN left, left[p].job \notin stuck,
                    NEW k \in DOMAIN part, part[k].write = left[p],
                    NEW i \in DOMAIN part, i < k, part[i].write.job = left[p].job
             PROVE  Before(p, left, i, part)
  BY DEF InOrder
<1>1. /\ place[i] \in DOMAIN rows /\ part[i] = rows[place[i]]
      /\ place[k] \in DOMAIN rows /\ part[k] = rows[place[k]]
      /\ place[i] < place[k]
  BY DEF Drawn
<1>2. Before(p, left, place[i], rows)
  BY <1>1 DEF InOrder
<1> QED
  BY <1>1, <1>2 DEF Before

(* A drain may go on, past what it is stuck on, once the write it handled  *)
(* is out of the queue or its job is stuck.                                *)
LEMMA OrderGoesOn ==
  ASSUME Typed, NEW d \in Drains, drains[d].left # <<>>, NEW more \in SUBSET Jobs, NEW rows,
         drains[d].stuck \subseteq more,
         InOrder(drains[d].left, drains[d].stuck, rows),
         ~Holds(rows, Head(drains[d].left)) \/ Head(drains[d].left).job \in more
  PROVE  InOrder(PastStuck(Tail(drains[d].left), more), more, rows)
<1> DEFINE left == drains[d].left
           tail == Tail(left)
           new  == PastStuck(tail, more)
<1>1. tail \in Seq(Write)
  BY HeadIs
<1>2. PICK skip \in Nat : Onward(new, tail, skip, more)
  BY <1>1, PastStuckGoesOn
<1>3. /\ Head(left) = left[1]
      /\ \A p \in DOMAIN tail : p \in Nat /\ p + 1 \in DOMAIN left /\ tail[p] = left[p + 1]
      /\ \A m \in DOMAIN left : m # 1 => m - 1 \in DOMAIN tail
  BY HeadIs
<1>4. DOMAIN new \subseteq Nat /\ DOMAIN left \subseteq Nat
  <2>1. new \in Seq(Write) /\ left \in Seq(Write)
    BY <1>1, PastStuckGoesOn, TypesOut DEF DrainRec
  <2> HIDE DEF new, left
  <2> QED
    BY <2>1, LenProperties
<1> HIDE DEF left, tail, new
<1> SUFFICES ASSUME NEW p \in DOMAIN new, new[p].job \notin more,
                    NEW k \in DOMAIN rows, rows[k].write = new[p],
                    NEW i \in DOMAIN rows, i < k, rows[i].write.job = new[p].job
             PROVE  Before(p, new, i, rows)
  BY DEF InOrder, new, tail, left
<1>5. /\ p + skip \in DOMAIN tail /\ new[p] = tail[p + skip]
      /\ p + skip + 1 \in DOMAIN left /\ new[p] = left[p + skip + 1]
  BY <1>2, <1>3, <1>4 DEF Onward
<1>6. Before(p + skip + 1, left, i, rows)
  BY <1>5 DEF InOrder, left
<1>7. PICK m \in DOMAIN left : m < p + skip + 1 /\ left[m] = rows[i].write
  BY <1>6 DEF Before
<1>8. left[m].job \notin more
  BY <1>7
<1>9. m # 1
  BY <1>3, <1>7, <1>8 DEF Holds, left
<1>10. m - 1 \in DOMAIN tail /\ tail[m - 1] = left[m] /\ m \in Nat
  <2>1. m - 1 \in DOMAIN tail /\ m \in Nat
    BY <1>3, <1>4, <1>9
  <2>2. tail[m - 1] = left[(m - 1) + 1] /\ (m - 1) + 1 = m
    BY <1>3, <2>1
  <2> QED
    BY <2>1, <2>2
<1>11. ~(m - 1 <= skip)
  BY <1>2, <1>8, <1>10 DEF Onward
<1>12. m - 1 - skip \in DOMAIN new
  BY <1>2, <1>10, <1>11 DEF Onward
<1>13. new[m - 1 - skip] = tail[(m - 1 - skip) + skip] /\ (m - 1 - skip) + skip = m - 1
  BY <1>2, <1>10, <1>12 DEF Onward
<1>14. m - 1 - skip < p
  BY <1>4, <1>7, <1>10
<1> QED
  BY <1>7, <1>10, <1>12, <1>13, <1>14 DEF Before

LEMMA ReplayRecordKeeps ==
  ASSUME IInv, NEW d \in Drains, ReplayRecord(d)
  PROVE  Fresh' /\ Replays'
<1> DEFINE left == drains[d].left
           w    == Head(left)
           more == IF drains[d].reply = "ok" THEN drains[d].stuck
                   ELSE drains[d].stuck \cup {w.job}
           new  == PastStuck(Tail(left), more)
<1>1. Typed /\ Fresh /\ Replays
  BY DEF IInv, Typed
<1>2. /\ left # <<>> /\ more \in SUBSET Jobs
      /\ drains' = [drains EXCEPT ![d] = GoesOn(Tail(left), more)]
      /\ \/ drains[d].reply = "ok" /\ kept' = WithoutWrite(w)
         \/ drains[d].reply = "refused" /\ kept' = Rejected(w)
      /\ calls' = calls /\ taps' = taps
  BY <1>1, ReplayRecordIs DEF ReplayRecord
<1>3. Tail(left) \in Seq(Write)
  BY <1>1, <1>2, HeadIs
<1>4. /\ drains'[d].left = new
      /\ new # <<>> => drains'[d].stuck = more /\ Head(new).job \notin more
      /\ \A e \in Drains \ {d} : drains'[e] = drains[e]
  BY <1>1, <1>2, <1>3, GoesOnIs, PastStuckGoesOn, TypesOut
(* Every row is an old one, in the old order.                              *)
<1>5. /\ \A k \in DOMAIN kept' : \E i \in DOMAIN kept : kept'[k].write = kept[i].write
      /\ \A lot, stuck : InOrder(lot, stuck, kept) => InOrder(lot, stuck, kept')
      /\ drains[d].reply = "ok" => ~Holds(kept', w)
  <2>1. CASE drains[d].reply = "ok" /\ kept' = WithoutWrite(w)
    <3>1. PICK place : /\ Drawn(kept', kept, place)
                       /\ \A i \in DOMAIN kept' : kept'[i].write # w
      BY <1>1, <2>1, WithoutDraws DEF Typed
    <3>2. \A k \in DOMAIN kept' : \E i \in DOMAIN kept : kept'[k].write = kept[i].write
      BY <3>1 DEF Drawn
    <3>3. \A lot, stuck : InOrder(lot, stuck, kept) => InOrder(lot, stuck, kept')
      BY <3>1, OrderThins
    <3> QED
      BY <3>1, <3>2, <3>3 DEF Holds
  <2>2. CASE drains[d].reply = "refused" /\ kept' = Rejected(w)
    <3>1. DOMAIN kept' = DOMAIN kept /\ \A k \in DOMAIN kept : kept'[k].write = kept[k].write
      BY <1>1, <2>2, RejectedIs
    <3>2. \A lot, stuck : InOrder(lot, stuck, kept) => InOrder(lot, stuck, kept')
      BY <3>1 DEF InOrder, Before
    <3> QED
      BY <2>2, <3>1, <3>2
  <2> QED
    BY <1>2, <2>1, <2>2
(* What a drain has left is what it had.                                   *)
<1>6. \A p \in DOMAIN new : \E m \in DOMAIN left : new[p] = left[m]
  <2>1. PICK skip \in Nat : Onward(new, Tail(left), skip, more)
    BY <1>2, <1>3, PastStuckGoesOn
  <2>2. \A m \in DOMAIN Tail(left) : m + 1 \in DOMAIN left /\ Tail(left)[m] = left[m + 1]
    BY <1>1, <1>2, HeadIs
  <2> HIDE DEF new, left
  <2> QED
    BY <2>1, <2>2 DEF Onward
<1>7. InOrder(new, more, kept')
  <2>1. InOrder(left, drains[d].stuck, kept')
    BY <1>1, <1>5 DEF Replays
  <2>2. drains[d].stuck \subseteq more
    OBVIOUS
  <2>3. ~Holds(kept', w) \/ w.job \in more
    BY <1>5
  <2> QED
    BY <1>1, <1>2, <2>1, <2>2, <2>3, OrderGoesOn
<1> HIDE DEF new, more, w, left
<1>8. \A e \in Drains : \A p \in DOMAIN drains'[e].left :
        \E m \in DOMAIN drains[e].left : drains'[e].left[p] = drains[e].left[m]
  BY <1>4, <1>6 DEF left
<1>9. /\ \A k \in DOMAIN kept' : kept'[k].write.id <= taps'
      /\ \A e \in Drains : \A p \in DOMAIN drains'[e].left : drains'[e].left[p].id <= taps'
  BY <1>1, <1>2, <1>5, <1>8 DEF Fresh
<1>10. ASSUME NEW c \in Calls, Asks(c)
       PROVE  /\ ~Holds(kept', calls[c].write)
              /\ \A e \in Drains : ~Has(drains'[e].left, calls[c].write)
  <2>1. ~Holds(kept, calls[c].write) /\ \A e \in Drains : ~Has(drains[e].left, calls[c].write)
    BY <1>1, <1>10 DEF Fresh
  <2> QED
    BY <1>5, <1>8, <2>1 DEF Holds, Has
<1>11. Fresh'
  BY <1>1, <1>2, <1>9, <1>10 DEF Fresh, Asks
<1>12. ASSUME NEW e \in Drains
       PROVE  /\ drains'[e].left # <<>> => Head(drains'[e].left).job \notin drains'[e].stuck
              /\ InOrder(drains'[e].left, drains'[e].stuck, kept')
  <2>1. CASE e # d
    BY <1>1, <1>4, <1>5, <2>1 DEF Replays
  <2>2. CASE e = d /\ new # <<>>
    BY <1>4, <1>7, <2>2
  <2>3. CASE e = d /\ new = <<>>
    <3>1. drains'[e].left = <<>> /\ DOMAIN drains'[e].left = {}
      BY <1>4, <2>3
    <3> QED
      BY <3>1 DEF InOrder
  <2> QED
    BY <2>1, <2>2, <2>3
<1> QED
  BY <1>11, <1>12 DEF Replays

LEMMA NextIInv == IInv /\ [OutboxNext]_outboxVars => IInv'
<1> SUFFICES ASSUME IInv, [OutboxNext]_outboxVars
             PROVE  IInv'
  OBVIOUS
<1>1. Typed /\ Fresh /\ Replays
  BY DEF IInv, Typed
<1>2. ASSUME Typed', Fresh', Replays'
      PROVE  IInv'
  BY <1>2 DEF IInv, Typed
<1>3. CASE UNCHANGED outboxVars
  <2>1. Typed'
    BY <1>1, <1>3, TypesOut, TypesBack DEF outboxVars
  <2>2. Fresh' /\ Replays'
    BY <1>1, <1>3, QuietKeeps DEF outboxVars, Asks
  <2> QED
    BY <1>2, <2>1, <2>2
<1>4. ASSUME NEW j \in Jobs, Recall(j) \/ CardFetched(j)
      PROVE  IInv'
  <2>1. Typed'
    BY <1>1, <1>4, RecallTypes, CardFetchedTypes
  <2>2. kept' = kept /\ taps' = taps /\ drains' = drains /\ calls' = calls
    BY <1>4 DEF Recall, CardFetched
  <2>3. Fresh' /\ Replays'
    BY <1>1, <2>2, QuietKeeps DEF Asks
  <2> QED
    BY <1>2, <2>1, <2>3
<1>5. ASSUME NEW c \in Calls, NEW j \in Jobs, Tap(c, j)
      PROVE  IInv'
  BY <1>1, <1>2, <1>5, TapTypes, TapKeeps
<1>6. ASSUME NEW c \in Calls, RpcServed(c)
      PROVE  IInv'
  <2>1. Typed'
    BY <1>1, <1>6, RpcServedTypes
  <2>2. /\ kept' = kept /\ taps' = taps /\ drains' = drains /\ Asks(c)
        /\ \A e \in Calls : calls'[e] = calls[e] \/ (e = c /\ calls'[e].write = calls[c].write)
    BY <1>1, <1>6, TypesOut DEF RpcServed, Asks
  <2>3. Fresh' /\ Replays'
    BY <1>1, <2>2, QuietKeeps DEF Asks
  <2> QED
    BY <1>2, <2>1, <2>3
<1>7. ASSUME NEW c \in Calls, RpcLost(c)
      PROVE  IInv'
  <2>1. Typed'
    BY <1>1, <1>7, RpcLostTypes
  <2>2. calls[c] \in CallRec /\ Asks(c)
    BY <1>1, <1>7, CallsTyped DEF Typed, RpcLost, Asks
  <2>3. /\ kept' = kept /\ taps' = taps /\ drains' = drains
        /\ calls' = [calls EXCEPT ![c] = [calls[c] EXCEPT !.reply = "lost"]]
    BY <1>7 DEF RpcLost
  <2>4. \A e \in Calls : calls'[e] = calls[e] \/ (e = c /\ calls'[e].write = calls[c].write)
    BY <1>1, <2>2, <2>3, TypesOut DEF CallRec
  <2>5. Fresh' /\ Replays'
    BY <1>1, <2>2, <2>3, <2>4, QuietKeeps DEF Asks
  <2> QED
    BY <1>2, <2>1, <2>5
<1>8. ASSUME NEW c \in Calls, RpcDone(c)
      PROVE  IInv'
  BY <1>1, <1>2, <1>8, RpcDoneTypes, RpcDoneKeeps
<1>9. ASSUME ListServed \/ ListDone
      PROVE  IInv'
  <2>1. Typed'
    BY <1>1, <1>9, ListTypes
  <2>2. kept' = kept /\ taps' = taps /\ drains' = drains /\ calls' = calls
    BY <1>9 DEF ListServed, ListDone
  <2>3. Fresh' /\ Replays'
    BY <1>1, <2>2, QuietKeeps DEF Asks
  <2> QED
    BY <1>2, <2>1, <2>3
<1>10. ASSUME NEW d \in Drains, ReplayStart(d)
       PROVE  IInv'
  BY <1>1, <1>2, <1>10, ReplayStartTypes, ReplayStartKeeps
<1>11. ASSUME NEW d \in Drains, ReplayServed(d)
       PROVE  IInv'
  <2>1. Typed'
    BY <1>1, <1>11, ReplayServedTypes
  <2>2. /\ kept' = kept /\ taps' = taps /\ calls' = calls
        /\ \A e \in Drains : drains'[e].left = drains[e].left /\ drains'[e].stuck = drains[e].stuck
    BY <1>1, <1>11, TypesOut DEF ReplayServed, DrainRec
  <2>3. Fresh' /\ Replays'
    BY <1>1, <2>2, QuietKeeps DEF Asks
  <2> QED
    BY <1>2, <2>1, <2>3
<1>12. ASSUME NEW d \in Drains, ReplayRecord(d)
       PROVE  IInv'
  BY <1>1, <1>2, <1>12, ReplayRecordTypes, ReplayRecordKeeps
<1>13. ASSUME NEW d \in Drains, ReplayCut(d)
       PROVE  IInv'
  <2>1. Typed'
    BY <1>1, <1>13, StopTypes
  <2>2. /\ kept' = kept /\ taps' = taps /\ calls' = calls
        /\ \A e \in Drains : drains'[e] = drains[e] \/ drains'[e] = Stop
    BY <1>1, <1>13, TypesOut DEF ReplayCut, KeepOutbox
  <2>3. Fresh' /\ Replays'
    BY <1>1, <2>2, QuietKeeps DEF Asks
  <2> QED
    BY <1>2, <2>1, <2>3
<1>14. CASE KillApp
  <2>1. Typed'
    BY <1>1, <1>14, StopTypes
  <2>2. /\ kept' = kept /\ taps' = taps
        /\ \A c \in Calls : calls'[c] = NoCall
        /\ \A e \in Drains : drains'[e] = Stop
    BY <1>14 DEF KillApp
  <2>3. Fresh' /\ Replays'
    BY <1>1, <2>2, QuietKeeps DEF Asks
  <2> QED
    BY <1>2, <2>1, <2>3
<1> QED
  BY <1>3, <1>4, <1>5, <1>6, <1>7, <1>8, <1>9, <1>10, <1>11, <1>12, <1>13, <1>14
     DEF OutboxNext

(* What a drain sends has nothing of its job before it in the queue.       *)
LEMMA FirstInQueue ==
  ASSUME IInv, NEW d \in Drains, drains[d].left # <<>>,
         NEW k \in DOMAIN kept, kept[k].write = Head(drains[d].left),
         NEW i \in DOMAIN kept, i < k
  PROVE  kept[i].write.job # Head(drains[d].left).job
<1>1. Typed /\ Replays
  BY DEF IInv, Typed
<1>2. /\ 1 \in DOMAIN drains[d].left /\ Head(drains[d].left) = drains[d].left[1]
      /\ Head(drains[d].left).job \notin drains[d].stuck
  BY <1>1, HeadIs DEF Replays
<1>3. kept[i].write.job = Head(drains[d].left).job => Before(1, drains[d].left, i, kept)
  BY <1>1, <1>2 DEF Replays, InOrder
<1>4. DOMAIN drains[d].left \subseteq Nat \ {0}
  <2>1. drains[d].left \in Seq(Write)
    BY <1>1, TypesOut DEF DrainRec
  <2> QED
    BY <2>1, LenProperties
<1> QED
  BY <1>3, <1>4 DEF Before

-----------------------------------------------------------------------------
(* Type correctness of the device's outbox, its screens and the server's   *)
(* rows.                                                                   *)
THEOREM OutboxTypes == OutboxSpec => []OutboxTypeOK
<1>1. IInv => OutboxTypeOK
  BY DEF IInv
<1> QED
  BY InitIInv, NextIInv, <1>1, PTL DEF OutboxSpec

(* "A rejected lifecycle event blocks every later event for the SAME work  *)
(* order" (outbox.ts): a drain never sends a write while an earlier one of *)
(* its job waits, for any number of drains and whatever is lost, refused   *)
(* or overtaken.                                                           *)
THEOREM DrainsKeepOrder == OutboxSpec => []ReplayInOrder
<1>1. IInv => ReplayInOrder
  <2> SUFFICES ASSUME IInv, NEW d \in Drains, drains[d].left # <<>>,
                      NEW k \in DOMAIN kept, kept[k].write = Head(drains[d].left),
                      NEW i \in 1 .. k - 1, kept[i].write.job = Head(drains[d].left).job
               PROVE  FALSE
    BY DEF ReplayInOrder
  <2>1. i \in DOMAIN kept /\ i < k
    BY KeptRows DEF IInv, Typed
  <2> QED
    BY <2>1, FirstInQueue
<1> QED
  BY InitIInv, NextIInv, <1>1, PTL DEF OutboxSpec

-----------------------------------------------------------------------------
(* The server applies the writes of a job in the order they were made,     *)
(* where no answer gets lost, no call is served past a queue, the app is   *)
(* not killed, and one call and one drain are under way at a time.         *)
Plain ==
  /\ \A c, e \in Calls : c = e
  /\ \A d, e \in Drains : d = e
  /\ Acts \cap {"overtake", "lost_answer", "kill"} = {}

(* The server has taken the write, the queue has not been told.            *)
Recorded(ds, w) ==
  \E d \in Drains : ds[d].left # <<>> /\ ds[d].reply = "ok" /\ Head(ds[d].left) = w

(* The queue is sorted, and what a drain has left is in it, once.          *)
Queued ==
  /\ \A i, k \in DOMAIN kept : i < k => kept[i].write.id < kept[k].write.id
  /\ \A d \in Drains :
       /\ \A p \in DOMAIN drains[d].left : Holds(kept, drains[d].left[p])
       /\ \A p, m \in DOMAIN drains[d].left : drains[d].left[p] = drains[d].left[m] => p = m
       /\ drains[d].reply # "lost"

(* What is queued has not been applied, nor has anything after it.         *)
AppliedBefore ==
  \A j \in Jobs : \A m \in DOMAIN applied[j] :
    /\ applied[j][m] <= taps
    /\ \A k \in DOMAIN kept :
         kept[k].write.job = j /\ ~Recorded(drains, kept[k].write)
           => applied[j][m] < kept[k].write.id

CallLast ==
  \A c \in Calls : Asks(c) =>
    /\ \A k \in DOMAIN kept : kept[k].write.id < calls[c].write.id
    /\ calls[c].reply \in {"none", "lost"} =>
         \A m \in DOMAIN applied[calls[c].write.job] :
           applied[calls[c].write.job][m] < calls[c].write.id

PlainInv == IInv /\ Queued /\ AppliedBefore /\ CallLast /\ AppliedInOrder

LEMMA InitPlain == OutboxInit => PlainInv
<1> SUFFICES ASSUME OutboxInit
             PROVE  PlainInv
  OBVIOUS
<1>1. /\ DOMAIN kept = {}
      /\ \A c \in Calls : ~Asks(c)
      /\ \A d \in Drains : drains[d] = Stop
      /\ \A j \in Jobs : DOMAIN applied[j] = {}
  BY EmptySeq DEF OutboxInit, Asks
<1>2. Stop.reply = "none"
  BY DEF Stop
<1>3. Queued /\ AppliedBefore /\ CallLast /\ AppliedInOrder
  BY <1>1, <1>2, StopType DEF Queued, AppliedBefore, CallLast, AppliedInOrder
<1> QED
  BY <1>3, InitIInv DEF PlainInv

LEMMA AppliedFacts ==
  ASSUME Typed, NEW j \in Jobs
  PROVE  /\ applied[j] \in Seq(1 .. MaxTaps)
         /\ DOMAIN applied[j] = 1 .. Len(applied[j]) /\ Len(applied[j]) \in Nat
         /\ \A m \in DOMAIN applied[j] : applied[j][m] \in Nat
<1>1. applied[j] \in Seq(1 .. MaxTaps)
  BY TypesOut
<1>2. DOMAIN applied[j] = 1 .. Len(applied[j]) /\ Len(applied[j]) \in Nat
  BY <1>1, LenProperties
<1>3. \A m \in 1 .. Len(applied[j]) : applied[j][m] \in 1 .. MaxTaps
  BY <1>1, ElementOfSeq
<1> QED
  BY <1>1, <1>2, <1>3, BoundsAssumption

(* A write the server takes comes last in the history of its job.          *)
LEMMA ServeIs ==
  ASSUME Typed, NEW w \in Write, ServeWrite(w)
  PROVE  \/ ReplyTo(w) = "refused" /\ applied' = applied
         \/ /\ ReplyTo(w) = "ok"
            /\ \A j \in Jobs \ {w.job} : applied'[j] = applied[j]
            /\ DOMAIN applied'[w.job] = 1 .. Len(applied[w.job]) + 1
            /\ applied'[w.job][Len(applied[w.job]) + 1] = w.id
            /\ \A m \in DOMAIN applied[w.job] : applied'[w.job][m] = applied[w.job][m]
<1>1. w.job \in Jobs /\ w.id \in 1 .. MaxTaps
  BY DEF Write
<1>2. applied \in [Jobs -> Seq(1 .. MaxTaps)] /\ applied[w.job] \in Seq(1 .. MaxTaps)
  BY <1>1, TypesOut
<1>3. CASE Accepts(w, server[w.job])
  <2>1. applied' = [applied EXCEPT ![w.job] = Append(applied[w.job], w.id)] /\ ReplyTo(w) = "ok"
    BY <1>3 DEF ServeWrite, ReplyTo
  <2>2. /\ applied'[w.job] = Append(applied[w.job], w.id)
        /\ \A j \in Jobs \ {w.job} : applied'[j] = applied[j]
    BY <1>1, <1>2, <2>1
  <2> QED
    BY <1>1, <1>2, <2>1, <2>2, AppendIs
<1>4. CASE ~Accepts(w, server[w.job])
  BY <1>4 DEF ServeWrite, ReplyTo
<1> QED
  BY <1>3, <1>4

LEMMA ServeInOrder ==
  ASSUME Typed, AppliedInOrder, NEW w \in Write, ServeWrite(w),
         \A m \in DOMAIN applied[w.job] : applied[w.job][m] < w.id
  PROVE  AppliedInOrder'
<1>1. CASE applied' = applied
  BY <1>1 DEF AppliedInOrder
<1>2. CASE applied' # applied
  <2>1. /\ \A j \in Jobs \ {w.job} : applied'[j] = applied[j]
        /\ DOMAIN applied'[w.job] = 1 .. Len(applied[w.job]) + 1
        /\ applied'[w.job][Len(applied[w.job]) + 1] = w.id
        /\ \A m \in DOMAIN applied[w.job] : applied'[w.job][m] = applied[w.job][m]
    BY <1>2, ServeIs
  <2>2. w.job \in Jobs
    BY DEF Write
  <2>3. /\ DOMAIN applied[w.job] = 1 .. Len(applied[w.job]) /\ Len(applied[w.job]) \in Nat
    BY <2>2, AppliedFacts
  <2>4. ASSUME NEW m \in DOMAIN applied'[w.job], NEW n \in DOMAIN applied'[w.job], m < n
        PROVE  applied'[w.job][m] < applied'[w.job][n]
    <3>1. m \in DOMAIN applied[w.job]
      BY <2>1, <2>3, <2>4
    <3>2. CASE n \in DOMAIN applied[w.job]
      BY <2>1, <2>2, <2>4, <3>1, <3>2 DEF AppliedInOrder
    <3>3. CASE n = Len(applied[w.job]) + 1
      BY <2>1, <3>1, <3>3
    <3> QED
      BY <2>1, <2>3, <3>2, <3>3
  <2> QED
    BY <2>1, <2>4 DEF AppliedInOrder
<1> QED
  BY <1>1, <1>2

LEMMA TapPlain ==
  ASSUME PlainInv, NEW c \in Calls, NEW j \in Jobs, Tap(c, j)
  PROVE  Queued' /\ AppliedBefore' /\ CallLast' /\ AppliedInOrder'
<1>1. Typed /\ Fresh
  BY DEF PlainInv, IInv, Typed
<1>2. PICK w \in Write :
        /\ w.id = taps + 1
        /\ calls' = [calls EXCEPT ![c] = [write |-> w, reply |-> "none",
                                        shown |-> cached[j], bundle |-> bundle[j]]]
  BY <1>1, TapIs
<1>3. /\ taps' = taps + 1 /\ kept' = kept /\ drains' = drains /\ applied' = applied
      /\ taps \in Nat
  BY <1>1, WriteFacts DEF Tap
<1>4. calls'[c].write = w /\ \A e \in Calls \ {c} : calls'[e] = calls[e]
  BY <1>1, <1>2, TypesOut
<1>5. \A i \in Jobs : \A m \in DOMAIN applied[i] : applied[i][m] <= taps /\ applied[i][m] \in Nat
  BY <1>1, AppliedFacts DEF PlainInv, AppliedBefore
<1>6. Queued' /\ AppliedInOrder'
  BY <1>3 DEF PlainInv, Queued, AppliedInOrder
<1>7. AppliedBefore'
  BY <1>3, <1>5 DEF PlainInv, AppliedBefore
<1>8. \A k \in DOMAIN kept : kept[k].write.id < w.id
  BY <1>1, <1>2, <1>3, WriteFacts DEF Fresh
<1>9. \A m \in DOMAIN applied[w.job] : applied[w.job][m] < w.id
  BY <1>2, <1>3, <1>5 DEF Write
<1>10. CallLast'
  BY <1>3, <1>4, <1>8, <1>9 DEF PlainInv, CallLast, Asks
<1> QED
  BY <1>6, <1>7, <1>10

LEMMA RpcServedPlain ==
  ASSUME Plain, PlainInv, NEW c \in Calls, RpcServed(c)
  PROVE  Queued' /\ AppliedBefore' /\ CallLast' /\ AppliedInOrder'
<1> DEFINE w == calls[c].write
<1>1. Typed /\ Fresh
  BY DEF PlainInv, IInv, Typed
<1>2. /\ Asks(c) /\ calls[c].reply = "none" /\ ServeWrite(w) /\ w \in Write /\ w.job \in Jobs
      /\ \A i \in DOMAIN kept : kept[i].write.job # w.job
      /\ kept' = kept /\ drains' = drains /\ taps' = taps
  BY <1>1, CallsTyped DEF RpcServed, Typed, Asks, Write, Plain
<1>3. /\ calls' = [calls EXCEPT ![c] =
                    [write |-> w, reply |-> ReplyTo(w),
                     shown |-> RecordOf(server'[w.job]), bundle |-> BundleOf(server'[w.job])]]
  BY DEF RpcServed, Plain
<1>4. calls'[c].write = w /\ calls'[c].reply = ReplyTo(w) /\ \A e \in Calls : e = c
  BY <1>1, <1>3, TypesOut DEF Plain
<1>5. \A m \in DOMAIN applied[w.job] : applied[w.job][m] < w.id
  BY <1>2 DEF PlainInv, CallLast
<1>6. w.id <= taps
  BY <1>1, <1>2 DEF Fresh
<1>7. DOMAIN applied[w.job] = 1 .. Len(applied[w.job]) /\ Len(applied[w.job]) \in Nat
  BY <1>1, <1>2, AppliedFacts
<1> HIDE DEF w
<1>8. AppliedInOrder'
  BY <1>1, <1>2, <1>5, ServeInOrder DEF PlainInv
<1>9. Queued'
  BY <1>2 DEF PlainInv, Queued
<1>10. ReplyTo(w) \in {"ok", "refused"}
  BY DEF ReplyTo
<1>11. CallLast'
  BY <1>2, <1>4, <1>10 DEF PlainInv, CallLast, Asks, w
<1>12. AppliedBefore'
  <2>1. CASE applied' = applied
    BY <1>2, <2>1 DEF PlainInv, AppliedBefore
  <2>2. CASE applied' # applied
    <3>1. /\ \A j \in Jobs \ {w.job} : applied'[j] = applied[j]
          /\ DOMAIN applied'[w.job] = 1 .. Len(applied[w.job]) + 1
          /\ applied'[w.job][Len(applied[w.job]) + 1] = w.id
          /\ \A m \in DOMAIN applied[w.job] : applied'[w.job][m] = applied[w.job][m]
      BY <1>1, <1>2, <2>2, ServeIs
    <3>2. \A m \in DOMAIN applied'[w.job] : applied'[w.job][m] <= taps
      BY <1>2, <1>6, <1>7, <3>1 DEF PlainInv, AppliedBefore
    <3> QED
      BY <1>2, <3>1, <3>2 DEF PlainInv, AppliedBefore
  <2> QED
    BY <2>1, <2>2
<1> QED
  BY <1>8, <1>9, <1>11, <1>12

LEMMA RpcLostPlain ==
  ASSUME PlainInv, NEW c \in Calls, RpcLost(c)
  PROVE  Queued' /\ AppliedBefore' /\ CallLast' /\ AppliedInOrder'
<1>1. Typed
  BY DEF PlainInv, IInv, Typed
<1>2. calls[c] \in CallRec /\ Asks(c) /\ calls[c].reply = "none"
  BY <1>1, CallsTyped DEF Typed, RpcLost, Asks
<1>3. /\ kept' = kept /\ taps' = taps /\ drains' = drains /\ applied' = applied
      /\ calls' = [calls EXCEPT ![c] = [calls[c] EXCEPT !.reply = "lost"]]
  BY DEF RpcLost
<1>4. \A e \in Calls : calls'[e] = calls[e] \/ (e = c /\ calls'[e].write = calls[c].write)
  BY <1>1, <1>2, <1>3, TypesOut DEF CallRec
<1>5. Queued' /\ AppliedBefore' /\ AppliedInOrder'
  BY <1>3 DEF PlainInv, Queued, AppliedBefore, AppliedInOrder
<1>6. CallLast'
  BY <1>2, <1>3, <1>4 DEF PlainInv, CallLast, Asks
<1> QED
  BY <1>5, <1>6

LEMMA RpcDonePlain ==
  ASSUME Plain, PlainInv, NEW c \in Calls, RpcDone(c)
  PROVE  Queued' /\ AppliedBefore' /\ CallLast' /\ AppliedInOrder'
<1> DEFINE w   == calls[c].write
           row == [write |-> w, rejected |-> FALSE]
<1>1. Typed /\ Fresh
  BY DEF PlainInv, IInv, Typed
<1>2. /\ Asks(c) /\ drains' = drains /\ taps' = taps /\ applied' = applied
      /\ calls' = [calls EXCEPT ![c] = NoCall]
      /\ \/ kept' = Append(kept, row) /\ calls[c].reply = "lost"
         \/ kept' = kept
  BY DEF RpcDone, Asks
<1>3. \A e \in Calls : calls'[e] = NoCall
  BY <1>1, <1>2, TypesOut DEF Plain
<1>4. CallLast' /\ AppliedInOrder'
  BY <1>2, <1>3 DEF PlainInv, CallLast, AppliedInOrder, Asks
<1>5. CASE kept' = kept
  BY <1>2, <1>4, <1>5 DEF PlainInv, Queued, AppliedBefore
<1>6. CASE kept' = Append(kept, row) /\ calls[c].reply = "lost"
  <2>1. kept \in Seq(OutboxRow) /\ row \in OutboxRow /\ w.job \in Jobs
    BY <1>1, <1>2, WriteFacts, TypesOut DEF OutboxRow, Write
  <2> HIDE DEF row
  <2>2. /\ Len(kept) \in Nat /\ DOMAIN kept = 1 .. Len(kept)
        /\ DOMAIN kept' = 1 .. Len(kept) + 1
        /\ kept'[Len(kept) + 1] = row
        /\ \A i \in DOMAIN kept : kept'[i] = kept[i]
    BY <1>6, <2>1, AppendIs
  <2>3. row.write = w
    BY DEF row
  <2>4. /\ \A k \in DOMAIN kept : kept[k].write.id < w.id
        /\ \A m \in DOMAIN applied[w.job] : applied[w.job][m] < w.id
    BY <1>2, <1>6 DEF PlainInv, CallLast
  <2> HIDE DEF w
  <2>5. ASSUME NEW i \in DOMAIN kept', NEW k \in DOMAIN kept', i < k
        PROVE  kept'[i].write.id < kept'[k].write.id
    <3>1. i \in DOMAIN kept
      BY <2>2, <2>5
    <3>2. CASE k \in DOMAIN kept
      BY <2>2, <2>5, <3>1, <3>2 DEF PlainInv, Queued
    <3>3. CASE k = Len(kept) + 1
      BY <2>2, <2>3, <2>4, <3>1, <3>3
    <3> QED
      BY <2>2, <3>2, <3>3
  <2>6. ASSUME NEW x, Holds(kept, x)
        PROVE  Holds(kept', x)
    BY <2>2, <2>6 DEF Holds
  <2>7. Queued'
    BY <1>2, <2>5, <2>6 DEF PlainInv, Queued
  <2>8. ASSUME NEW j \in Jobs, NEW m \in DOMAIN applied[j], NEW k \in DOMAIN kept',
               kept'[k].write.job = j, ~Recorded(drains, kept'[k].write)
        PROVE  applied[j][m] < kept'[k].write.id
    <3>1. CASE k \in DOMAIN kept
      BY <2>2, <2>8, <3>1 DEF PlainInv, AppliedBefore
    <3>2. CASE k = Len(kept) + 1
      BY <2>2, <2>3, <2>4, <2>8, <3>2
    <3> QED
      BY <2>2, <3>1, <3>2
  <2>9. AppliedBefore'
    BY <1>2, <2>8 DEF PlainInv, AppliedBefore
  <2> QED
    BY <1>4, <2>7, <2>9
<1> QED
  BY <1>2, <1>5, <1>6

LEMMA ReplayStartPlain ==
  ASSUME Plain, PlainInv, NEW d \in Drains, ReplayStart(d)
  PROVE  Queued' /\ AppliedBefore' /\ CallLast' /\ AppliedInOrder'
<1>1. Typed
  BY DEF PlainInv, IInv, Typed
<1>2. /\ kept' = kept /\ taps' = taps /\ calls' = calls /\ applied' = applied
      /\ drains' = [drains EXCEPT ![d] = [left |-> Snapshot, stuck |-> {}, reply |-> "none"]]
      /\ drains[d] = Stop
  BY DEF ReplayStart
<1>3. drains'[d].left = Snapshot /\ drains'[d].reply = "none" /\ \A e \in Drains : e = d
  BY <1>1, <1>2, TypesOut DEF Plain
<1>4. /\ DOMAIN Snapshot = DOMAIN kept
      /\ \A p \in DOMAIN kept : Snapshot[p] = kept[p].write
  BY <1>1, SnapshotIs
<1>5. \A w : ~Recorded(drains, w)
  BY <1>2, <1>3, StopType DEF Recorded
<1>6. \A p, m \in DOMAIN Snapshot : Snapshot[p] = Snapshot[m] => p = m
  BY <1>1, <1>4, TypesOut
<1>7. \A p \in DOMAIN Snapshot : Holds(kept, Snapshot[p])
  BY <1>4 DEF Holds
<1>8. Queued'
  BY <1>2, <1>3, <1>6, <1>7 DEF PlainInv, Queued
<1>9. AppliedBefore' /\ CallLast' /\ AppliedInOrder'
  BY <1>2, <1>5 DEF PlainInv, AppliedBefore, CallLast, AppliedInOrder, Asks
<1> QED
  BY <1>8, <1>9

LEMMA ReplayServedPlain ==
  ASSUME Plain, PlainInv, NEW d \in Drains, ReplayServed(d)
  PROVE  Queued' /\ AppliedBefore' /\ CallLast' /\ AppliedInOrder'
<1> DEFINE w == Head(drains[d].left)
<1>1. Typed /\ Fresh /\ IInv
  BY DEF PlainInv, IInv, Typed
<1>2. /\ drains[d].left # <<>> /\ drains[d].reply = "none" /\ ServeWrite(w)
      /\ kept' = kept /\ taps' = taps /\ calls' = calls
      /\ drains' = [drains EXCEPT ![d].reply = ReplyTo(w)]
  BY DEF ReplayServed, Plain
<1>3. /\ w \in Write /\ w.job \in Jobs /\ 1 \in DOMAIN drains[d].left /\ w = drains[d].left[1]
      /\ drains[d] \in DrainRec
  BY <1>1, <1>2, HeadIs DEF Write
<1>4. /\ drains'[d].left = drains[d].left /\ drains'[d].reply = ReplyTo(w)
      /\ \A e \in Drains : e = d
  BY <1>1, <1>2, <1>3, TypesOut DEF Plain, DrainRec
<1>5. \A x : ~Recorded(drains, x)
  BY <1>2, <1>4 DEF Recorded
<1>6. PICK k0 \in DOMAIN kept : kept[k0].write = w
  BY <1>3 DEF PlainInv, Queued, Holds
<1>7. \A m \in DOMAIN applied[w.job] : applied[w.job][m] < w.id
  BY <1>3, <1>5, <1>6 DEF PlainInv, AppliedBefore
<1>8. w.id <= taps
  BY <1>1, <1>3 DEF Fresh
<1>9. DOMAIN applied[w.job] = 1 .. Len(applied[w.job]) /\ Len(applied[w.job]) \in Nat
  BY <1>1, <1>3, AppliedFacts
<1>10. \A k \in DOMAIN kept : kept[k].write.job = w.job /\ kept[k].write # w =>
         w.id < kept[k].write.id
  <2> SUFFICES ASSUME NEW k \in DOMAIN kept, kept[k].write.job = w.job, kept[k].write # w
               PROVE  w.id < kept[k].write.id
    OBVIOUS
  <2>1. ~(k < k0)
    BY <1>1, <1>2, <1>6, FirstInQueue
  <2>2. k0 < k
    BY <1>1, <1>6, <2>1, KeptRows
  <2> QED
    BY <1>6, <2>2 DEF PlainInv, Queued
<1>11. \A c \in Calls : Asks(c) => w.id < calls[c].write.id
  BY <1>6 DEF PlainInv, CallLast
<1>12. ReplyTo(w) \in {"ok", "refused"}
  BY DEF ReplyTo
<1>13. ReplyTo(w) = "ok" => Recorded(drains', w)
  BY <1>2, <1>4 DEF Recorded
<1> HIDE DEF w
<1>14. AppliedInOrder'
  BY <1>1, <1>2, <1>3, <1>7, ServeInOrder DEF PlainInv
<1>15. Queued'
  BY <1>2, <1>4, <1>12 DEF PlainInv, Queued
<1>16. CASE ReplyTo(w) = "refused" /\ applied' = applied
  <2>1. AppliedBefore'
    BY <1>2, <1>5, <1>16 DEF PlainInv, AppliedBefore
  <2>2. CallLast'
    BY <1>2, <1>16 DEF PlainInv, CallLast, Asks
  <2> QED
    BY <1>14, <1>15, <2>1, <2>2
<1>17. CASE /\ ReplyTo(w) = "ok"
            /\ \A j \in Jobs \ {w.job} : applied'[j] = applied[j]
            /\ DOMAIN applied'[w.job] = 1 .. Len(applied[w.job]) + 1
            /\ applied'[w.job][Len(applied[w.job]) + 1] = w.id
            /\ \A m \in DOMAIN applied[w.job] : applied'[w.job][m] = applied[w.job][m]
  <2>1. \A j \in Jobs : \A m \in DOMAIN applied'[j] :
          \/ m \in DOMAIN applied[j] /\ applied'[j][m] = applied[j][m]
          \/ j = w.job /\ applied'[j][m] = w.id
    BY <1>9, <1>17
  <2>2. AppliedBefore'
    BY <1>2, <1>5, <1>8, <1>10, <1>13, <1>17, <2>1 DEF PlainInv, AppliedBefore
  <2>3. ASSUME NEW c \in Calls, Asks(c), calls[c].reply \in {"none", "lost"},
               NEW m \in DOMAIN applied'[calls[c].write.job]
        PROVE  applied'[calls[c].write.job][m] < calls[c].write.id
    <3>1. calls[c].write.job \in Jobs
      BY <1>1, <2>3, WriteFacts DEF Write
    <3> QED
      BY <1>11, <2>1, <2>3, <3>1 DEF PlainInv, CallLast
  <2>4. CallLast'
    BY <1>2, <2>3 DEF PlainInv, CallLast, Asks
  <2> QED
    BY <1>14, <1>15, <2>2, <2>4
<1> QED
  BY <1>1, <1>2, <1>3, <1>16, <1>17, ServeIs

LEMMA ReplayRecordPlain ==
  ASSUME Plain, PlainInv, NEW d \in Drains, ReplayRecord(d)
  PROVE  Queued' /\ AppliedBefore' /\ CallLast' /\ AppliedInOrder'
<1> DEFINE left == drains[d].left
           w    == Head(left)
           more == IF drains[d].reply = "ok" THEN drains[d].stuck
                   ELSE drains[d].stuck \cup {w.job}
           new  == PastStuck(Tail(left), more)
<1>1. Typed /\ Fresh
  BY DEF PlainInv, IInv, Typed
<1>2. /\ left # <<>> /\ more \in SUBSET Jobs
      /\ drains' = [drains EXCEPT ![d] = GoesOn(Tail(left), more)]
      /\ \/ drains[d].reply = "ok" /\ kept' = WithoutWrite(w)
         \/ drains[d].reply = "refused" /\ kept' = Rejected(w)
      /\ calls' = calls /\ taps' = taps /\ applied' = applied
  BY <1>1, ReplayRecordIs DEF ReplayRecord
<1>3. Tail(left) \in Seq(Write)
  BY <1>1, <1>2, HeadIs
<1>4. /\ drains'[d].left = new /\ drains'[d].reply = "none"
      /\ \A e \in Drains : e = d
  BY <1>1, <1>2, <1>3, GoesOnIs, TypesOut DEF Plain
(* What is left of the drain is what it had behind the write it handled.   *)
<1>5. /\ \A p \in DOMAIN new : Holds(kept, new[p]) /\ new[p] # w
      /\ \A p, m \in DOMAIN new : new[p] = new[m] => p = m
  <2>1. PICK skip \in Nat : Onward(new, Tail(left), skip, more)
    BY <1>2, <1>3, PastStuckGoesOn
  <2>2. /\ 1 \in DOMAIN left /\ w = left[1]
        /\ \A m \in DOMAIN Tail(left) : m \in Nat /\ m + 1 \in DOMAIN left
                                        /\ Tail(left)[m] = left[m + 1]
    BY <1>1, <1>2, HeadIs
  <2>3. new \in Seq(Write) /\ Tail(left) \in Seq(Write)
    BY <1>2, <1>3, PastStuckGoesOn
  <2> HIDE DEF new, w
  <2>4. DOMAIN new \subseteq Nat \ {0} /\ DOMAIN Tail(left) \subseteq Nat \ {0}
    BY <2>3, LenProperties
  <2>5. \A p \in DOMAIN new : p + skip + 1 \in DOMAIN left /\ new[p] = left[p + skip + 1]
    BY <2>1, <2>2, <2>4 DEF Onward
  <2>6. \A p, m \in DOMAIN left : left[p] = left[m] => p = m
    BY DEF PlainInv, Queued
  <2>7. \A p \in DOMAIN new : p + skip + 1 # 1
    BY <2>4
  <2>8. \A p \in DOMAIN new : new[p] # w
    BY <2>2, <2>5, <2>6, <2>7
  <2>9. \A p, m \in DOMAIN new : new[p] = new[m] => p = m
    BY <2>4, <2>5, <2>6
  <2>10. \A p \in DOMAIN new : Holds(kept, new[p])
    BY <2>5 DEF PlainInv, Queued
  <2> QED
    BY <2>8, <2>9, <2>10
(* The queue is part of what it was.                                       *)
<1>6. PICK place : /\ Drawn([k \in DOMAIN kept' |-> kept'[k].write],
                            [k \in DOMAIN kept |-> kept[k].write], place)
                   /\ \A x : Holds(kept, x) /\ x # w => Holds(kept', x)
                   /\ \A k \in DOMAIN kept' : ~Recorded(drains, kept'[k].write)
  <2>1. CASE drains[d].reply = "ok" /\ kept' = WithoutWrite(w)
    <3>1. PICK place : /\ Drawn(kept', kept, place)
                       /\ \A i \in DOMAIN kept' : kept'[i].write # w
                       /\ \A k \in DOMAIN kept : kept[k].write # w =>
                            \E i \in DOMAIN kept' : place[i] = k
      BY <1>1, <2>1, WithoutDraws DEF Typed
    <3> HIDE DEF w
    <3>2. Drawn([k \in DOMAIN kept' |-> kept'[k].write],
                [k \in DOMAIN kept |-> kept[k].write], place)
      BY <3>1 DEF Drawn
    <3>3. \A x : Holds(kept, x) /\ x # w => Holds(kept', x)
      BY <3>1 DEF Holds, Drawn
    <3>4. \A k \in DOMAIN kept' : ~Recorded(drains, kept'[k].write)
      BY <1>4, <3>1 DEF Recorded, w
    <3> QED
      BY <3>2, <3>3, <3>4
  <2>2. CASE drains[d].reply = "refused" /\ kept' = Rejected(w)
    <3> DEFINE place == [k \in DOMAIN kept |-> k]
    <3>1. DOMAIN kept' = DOMAIN kept /\ \A k \in DOMAIN kept : kept'[k].write = kept[k].write
      BY <1>1, <2>2, RejectedIs
    <3>2. Drawn([k \in DOMAIN kept' |-> kept'[k].write],
                [k \in DOMAIN kept |-> kept[k].write], place)
      BY <3>1 DEF Drawn
    <3>3. \A x : Holds(kept, x) => Holds(kept', x)
      BY <3>1 DEF Holds
    <3>4. \A x : ~Recorded(drains, x)
      BY <1>4, <2>2 DEF Recorded
    <3> QED
      BY <3>2, <3>3, <3>4
  <2> QED
    BY <1>2, <2>1, <2>2
<1> HIDE DEF new, more, w, left
<1>7. /\ \A k \in DOMAIN kept' :
           place[k] \in DOMAIN kept /\ kept'[k].write = kept[place[k]].write
      /\ \A i, k \in DOMAIN kept' : i < k => place[i] < place[k]
  BY <1>6 DEF Drawn
<1>8. Queued'
  <2>1. \A i, k \in DOMAIN kept' : i < k => kept'[i].write.id < kept'[k].write.id
    BY <1>7 DEF PlainInv, Queued
  <2>2. \A p \in DOMAIN new : Holds(kept', new[p])
    BY <1>5, <1>6
  <2> QED
    BY <1>4, <1>5, <2>1, <2>2 DEF Queued
<1>9. AppliedBefore'
  <2>1. \A k \in DOMAIN kept' : ~Recorded(drains, kept[place[k]].write)
    BY <1>6, <1>7
  <2> QED
    BY <1>2, <1>7, <2>1 DEF PlainInv, AppliedBefore
<1>10. CallLast' /\ AppliedInOrder'
  BY <1>2, <1>7 DEF PlainInv, CallLast, AppliedInOrder, Asks
<1> QED
  BY <1>8, <1>9, <1>10

LEMMA ReplayCutPlain ==
  ASSUME Plain, PlainInv, NEW d \in Drains, ReplayCut(d)
  PROVE  Queued' /\ AppliedBefore' /\ CallLast' /\ AppliedInOrder'
<1>1. Typed
  BY DEF PlainInv, IInv, Typed
<1>2. /\ kept' = kept /\ taps' = taps /\ calls' = calls /\ applied' = applied
      /\ drains[d].reply # "ok" /\ drains' = [drains EXCEPT ![d] = Stop]
  BY DEF ReplayCut, KeepOutbox
<1>3. drains'[d] = Stop /\ \A e \in Drains : e = d
  BY <1>1, <1>2, TypesOut DEF Plain
<1>4. \A x : ~Recorded(drains, x)
  BY <1>2, <1>3 DEF Recorded
<1>5. Queued'
  BY <1>2, <1>3, StopType DEF PlainInv, Queued, Stop
<1>6. AppliedBefore' /\ CallLast' /\ AppliedInOrder'
  BY <1>2, <1>4 DEF PlainInv, AppliedBefore, CallLast, AppliedInOrder, Asks
<1> QED
  BY <1>5, <1>6

LEMMA NextPlain ==
  ASSUME Plain
  PROVE  PlainInv /\ [OutboxNext]_outboxVars => PlainInv'
<1> SUFFICES ASSUME PlainInv, [OutboxNext]_outboxVars
             PROVE  Queued' /\ AppliedBefore' /\ CallLast' /\ AppliedInOrder'
  BY NextIInv DEF PlainInv
<1>1. ASSUME \/ UNCHANGED outboxVars
             \/ \E j \in Jobs : Recall(j) \/ CardFetched(j)
             \/ ListServed \/ ListDone
      PROVE  Queued' /\ AppliedBefore' /\ CallLast' /\ AppliedInOrder'
  <2>1. kept' = kept /\ drains' = drains /\ calls' = calls /\ taps' = taps /\ applied' = applied
    BY <1>1 DEF outboxVars, Recall, CardFetched, ListServed, ListDone
  <2> QED
    BY <2>1 DEF PlainInv, Queued, AppliedBefore, CallLast, AppliedInOrder, Asks
<1>2. ASSUME NEW c \in Calls,
             (\E j \in Jobs : Tap(c, j)) \/ RpcServed(c) \/ RpcLost(c) \/ RpcDone(c)
      PROVE  Queued' /\ AppliedBefore' /\ CallLast' /\ AppliedInOrder'
  BY <1>2, TapPlain, RpcServedPlain, RpcLostPlain, RpcDonePlain
<1>3. ASSUME NEW d \in Drains,
             ReplayStart(d) \/ ReplayServed(d) \/ ReplayRecord(d) \/ ReplayCut(d)
      PROVE  Queued' /\ AppliedBefore' /\ CallLast' /\ AppliedInOrder'
  BY <1>3, ReplayStartPlain, ReplayServedPlain, ReplayRecordPlain, ReplayCutPlain
<1>4. ~KillApp
  BY DEF KillApp, Plain
<1> QED
  BY <1>1, <1>2, <1>3, <1>4 DEF OutboxNext

(* "Replayed IN ORDER" (outbox.ts): with one call and one drain at a time, *)
(* no call past a queue, no lost answer and no killed app, the server      *)
(* applies the writes of every job in the order they were made, each once. *)
THEOREM AppliesInOrder == ASSUME Plain PROVE OutboxSpec => []AppliedInOrder
<1>1. PlainInv => AppliedInOrder
  BY DEF PlainInv
<1>2. PlainInv /\ [OutboxNext]_outboxVars => PlainInv'
  BY NextPlain
<1> QED
  BY InitPlain, <1>1, <1>2, PTL DEF OutboxSpec

-----------------------------------------------------------------------------
(* What the screens show once everything is delivered.                     *)
(*                                                                         *)
(* Beyond Plain, no list read earlier arrives (the server's word on a job  *)
(* comes in the answer to its write), and no pause is made with a reason   *)
(* that hands the job back: the device knows a resumable pause only.       *)
Listless == "stale_list" \notin Acts /\ NoReason \notin Blocking

Resumable == \A c \in Calls : Asks(c) => calls[c].write.reason \notin Blocking

(* The state a queued write leads to, on the device and on the server.     *)
Moving   == {"on_the_way", "stand_down", "start", "pause", "sign"}
Leads(w) == CASE w.op = "on_the_way" -> "on_the_way"
              [] w.op = "stand_down" -> "not_started"
              [] w.op = "start" -> "started"
              [] w.op = "pause" -> "paused"
              [] w.op = "sign" -> "signed_off"

(* What the server has still to hear.                                      *)
Waiting == {w \in {kept[k].write : k \in DOMAIN kept} : ~Recorded(drains, w)}

(* A call the server has taken and the screen has not heard of.            *)
Answered(c) == Asks(c) /\ calls[c].reply = "ok" /\ calls[c].write.op # "save"
Heard(j) == \A c \in Calls : Answered(c) => calls[c].write.job # j

(* A screen shows the server's state, or where the last write that waits   *)
(* will lead it.                                                           *)
ShowsServer(j) ==
  /\ \A w \in Waiting : w.job = j => w.op = "save"
  /\ cached[j].state = StateOf(server[j].row)
ShowsLast(j) ==
  \E w \in Waiting :
    /\ w.job = j
    /\ w.op # "save"
    /\ \A x \in Waiting : x.job = j /\ x.id > w.id => x.op = "save"
    /\ cached[j].state = Leads(w)
Mirrored == \A j \in Jobs : Heard(j) => ShowsServer(j) \/ ShowsLast(j)

AnswerFits ==
  \A c \in Calls : Answered(c) =>
    /\ calls[c].shown.state = StateOf(server[calls[c].write.job].row)
    /\ calls[c].write.op = "sign" => calls[c].shown.state = "signed_off"
    /\ \A w \in Waiting : w.job # calls[c].write.job

(* No job is, or is about to be, handed back.                              *)
Unblocked ==
  /\ \A j \in Jobs : ~cached[j].blocks /\ server[j].row.reason \notin Blocking
  /\ \A w \in Waiting : w.reason \notin Blocking
  /\ \A c \in Calls : Asks(c) => ~calls[c].shown.blocks

(* A signed card ends its job, and the device does not see one earlier.    *)
SealsEnd ==
  /\ \A j \in Jobs : server[j].card = "signed" => server[j].row.state = "signed_off"
  /\ \A j \in Jobs : bundle[j] = "signed" => server[j].card = "signed"
  /\ \A c \in Calls : Asks(c) /\ calls[c].bundle = "signed" =>
       server[calls[c].write.job].card = "signed"

(* So a stop is never asked for, and after a signature only signatures.    *)
Asked ==
  /\ \A w \in Waiting : w.op \in Moving \cup {"save"}
  /\ \A c \in Calls : Asks(c) =>
       /\ calls[c].write.op \in Moving \cup {"save"}
       /\ calls[c].write.op = "sign" \/ cached[calls[c].write.job].state # "signed_off"
SignsLast ==
  /\ \A w, x \in Waiting : w.job = x.job /\ w.op = "sign" /\ w.id < x.id => x.op = "sign"
  /\ \A w \in Waiting : server[w.job].row.state = "signed_off" => w.op = "sign"

Mirrors ==
  /\ list = NoList
  /\ Mirrored /\ AnswerFits /\ Unblocked /\ SealsEnd /\ Asked /\ SignsLast

MirrorInv == PlainInv /\ Mirrors

(* The server takes a write to the state it leads to.                      *)
LEMMA HappensIs ==
  ASSUME NEW event \in {"on_the_way", "start", "pause", "stop", "sign_off"},
         NEW w, NEW row \in Lifecycle, NoReason \notin Blocking,
         row.reason \notin Blocking, w.reason \notin Blocking
  PROVE  /\ Happens(event, w, row).reason \notin Blocking
         /\ event = "on_the_way" => Happens(event, w, row).state = "on_the_way"
         /\ event = "start" => Happens(event, w, row).state = "started"
         /\ event = "pause" => Happens(event, w, row).state = "paused"
         /\ event = "sign_off" => Happens(event, w, row).state = "signed_off"
<1> DEFINE at == Clamp(w.id, row, taps)
<1>1. Happens(event, w, row) = Apply(event, w.reason, row, row, at)
  BY DEF Happens
<1> HIDE DEF at
<1>2. CASE event = "on_the_way"
  BY <1>1, <1>2 DEF Apply, Lifecycle
<1>3. CASE event = "start" /\ row.state = "paused"
  BY <1>1, <1>3 DEF Apply, Lifecycle
<1>4. CASE event = "start" /\ row.state # "paused"
  BY <1>1, <1>4 DEF Apply, Lifecycle
<1>5. CASE event = "pause"
  BY <1>1, <1>5 DEF Apply, Lifecycle
<1>6. CASE event = "stop"
  BY <1>1, <1>6 DEF Apply, Lifecycle
<1>7. CASE event = "sign_off"
  BY <1>1, <1>7 DEF Apply, Lifecycle
<1> QED
  BY <1>2, <1>3, <1>4, <1>5, <1>6, <1>7

LEMMA ServedMoves ==
  ASSUME Typed, Listless, NEW w \in Write, NEW s \in ServerRow, Accepts(w, s),
         w.op \in Moving \cup {"save"}, w.reason \notin Blocking,
         s.row.reason \notin Blocking, s.card = "signed" => s.row.state = "signed_off"
  PROVE  /\ Served(w, s).row.reason \notin Blocking
         /\ w.op = "save" => Served(w, s).row = s.row
         /\ w.op # "save" => Served(w, s).row.state = Leads(w)
         /\ s.card = "signed" => Served(w, s).card = "signed"
         /\ Served(w, s).card = "signed" => Served(w, s).row.state = "signed_off"
<1>1. /\ s.row \in Lifecycle /\ NoReason \notin Blocking
      /\ Happens("stop", w, s.row) \in Lifecycle
  BY HappensType DEF ServerRow, Listless, Typed, Events
<1>2. CASE w.op \in {"on_the_way", "start", "pause"}
  <2>1. s.card # "signed"
    BY <1>2 DEF Accepts, Allowed, StateOf
  <2>2. Served(w, s) = [s EXCEPT !.row = Happens(w.op, w, s.row)]
    BY <1>2 DEF Served, Finished, Events
  <2>3. Served(w, s).row = Happens(w.op, w, s.row) /\ Served(w, s).card = s.card
    BY <2>2 DEF ServerRow
  <2>4. /\ Happens(w.op, w, s.row).reason \notin Blocking
        /\ Happens(w.op, w, s.row).state = Leads(w)
    BY <1>1, <1>2, HappensIs DEF Leads
  <2> QED
    BY <1>2, <2>1, <2>3, <2>4
<1>3. CASE w.op = "stand_down"
  <2>1. s.card # "signed"
    BY <1>3 DEF Accepts, Events
  <2> DEFINE back == [s.row EXCEPT !.state = "not_started", !.last = w.id]
  <2>2. Served(w, s) = [s EXCEPT !.row = back]
    BY <1>3 DEF Served, Events, ServerRow
  <2>4. back.state = "not_started" /\ back.reason = s.row.reason
    BY <1>1 DEF Lifecycle
  <2> HIDE DEF back
  <2>3. /\ Served(w, s).row.state = "not_started" /\ Served(w, s).row.reason = s.row.reason
        /\ Served(w, s).card = s.card
    BY <2>2, <2>4 DEF ServerRow
  <2> QED
    BY <1>3, <2>1, <2>3 DEF Leads
<1>4. CASE w.op = "save"
  <2>1. s.card # "signed"
    BY <1>4 DEF Accepts, Events
  <2>2. Served(w, s) = [s EXCEPT !.card = "draft", !.content = w.id]
    BY <1>4 DEF Served, Events
  <2>3. Served(w, s).row = s.row /\ Served(w, s).card = "draft"
    BY <2>2 DEF ServerRow
  <2> QED
    BY <1>4, <2>1, <2>3
<1>5. CASE w.op = "sign"
  <2> DEFINE sealed == [s EXCEPT !.card = "signed", !.accepted = w.content]
             over   == IF Completion(s) = "stop" THEN Happens("stop", w, s.row) ELSE s.row
             done   == Happens("sign_off", w, over)
  <2>1. ~HandedBack(s.row) /\ Completion(s) \in {"stop", "sign_off"}
    BY DEF HandedBack, Completion
  <2>2. sealed.row = s.row /\ sealed.card = "signed"
    BY DEF ServerRow
  <2>3. Served(w, s) = Finished(Completion(s), w, sealed)
    BY <1>5, <2>1 DEF Served, Events
  <2>4. Finished(Completion(s), w, sealed) = [sealed EXCEPT !.row = done]
    BY <2>1, <2>2 DEF Finished
  <2>5. Served(w, s).row = done /\ Served(w, s).card = "signed"
    BY <2>3, <2>4 DEF ServerRow
  <2>6. Happens("stop", w, s.row).reason \notin Blocking
    BY <1>1, HappensIs
  <2>7. done.state = "signed_off" /\ done.reason \notin Blocking
    BY <1>1, <2>6, HappensIs
  <2> HIDE DEF done
  <2> QED
    BY <1>5, <2>5, <2>7 DEF Leads
<1> QED
  BY <1>2, <1>3, <1>4, <1>5 DEF Moving

(* The server's step, for the rows of all jobs.                            *)
LEMMA ServeMoves ==
  ASSUME Typed, Listless, Unblocked, SealsEnd, NEW w \in Write, ServeWrite(w),
         w.op \in Moving \cup {"save"}, w.reason \notin Blocking
  PROVE  /\ \A j \in Jobs \ {w.job} : server'[j] = server[j]
         /\ w.op = "save" \/ ReplyTo(w) = "refused" => server'[w.job].row = server[w.job].row
         /\ w.op # "save" /\ ReplyTo(w) = "ok" =>
              server'[w.job].row.state = Leads(w) /\ StateOf(server'[w.job].row) = Leads(w)
         /\ ReplyTo(w) = "refused" => server' = server
         /\ ReplyTo(w) \in {"ok", "refused"}
         /\ \A j \in Jobs : /\ server'[j].row.reason \notin Blocking
                            /\ server[j].card = "signed" => server'[j].card = "signed"
                            /\ server'[j].card = "signed" => server'[j].row.state = "signed_off"
<1> DEFINE s == server[w.job]
<1>1. server \in [Jobs -> ServerRow] /\ w.job \in Jobs /\ s \in ServerRow
  BY TypesOut DEF Write
<1>2. \A j \in Jobs : /\ server[j].row.reason \notin Blocking
                      /\ server[j].card = "signed" => server[j].row.state = "signed_off"
  BY DEF Unblocked, SealsEnd
<1>3. CASE Accepts(w, s)
  <2>1. server' = [server EXCEPT ![w.job] = Served(w, s)] /\ ReplyTo(w) = "ok"
    BY <1>3 DEF ServeWrite, ReplyTo
  <2>2. /\ server'[w.job] = Served(w, s)
        /\ \A j \in Jobs \ {w.job} : server'[j] = server[j]
    BY <1>1, <2>1
  <2>3. /\ Served(w, s).row.reason \notin Blocking
        /\ w.op = "save" => Served(w, s).row = s.row
        /\ w.op # "save" => Served(w, s).row.state = Leads(w)
        /\ s.card = "signed" => Served(w, s).card = "signed"
        /\ Served(w, s).card = "signed" => Served(w, s).row.state = "signed_off"
    BY <1>1, <1>2, <1>3, ServedMoves
  <2>4. w.op # "save" => Leads(w) # "absent"
    BY DEF Leads, Moving
  <2>5. w.op # "save" => StateOf(server'[w.job].row) = Leads(w)
    BY <2>2, <2>3, <2>4 DEF StateOf
  <2> HIDE DEF s
  <2> QED
    BY <1>1, <1>2, <2>1, <2>2, <2>3, <2>5 DEF s
<1>4. CASE ~Accepts(w, s)
  <2>1. server' = server /\ ReplyTo(w) = "refused"
    BY <1>4 DEF ServeWrite, ReplyTo
  <2> QED
    BY <1>2, <2>1
<1> QED
  BY <1>3, <1>4

(* The device moves its copy to the same state.                            *)
LEMMA DeviceMoves ==
  ASSUME NEW w, NEW m \in ShownRecord, ~m.blocks
  PROVE  /\ w.op \in Moving \ {"sign"} => Moved(w.op, m).state = Leads(w) /\ ~Moved(w.op, m).blocks
         /\ w.op = "sign" => SignShown(m).state = Leads(w)
         /\ ~SignShown(m).blocks
<1>1. CASE w.op = "start" /\ m.state = "paused"
  BY <1>1 DEF Moved, Leads, ShownRecord, SignShown
<1>2. CASE w.op = "start" /\ m.state # "paused"
  BY <1>2 DEF Moved, Leads, ShownRecord, SignShown
<1>3. CASE w.op # "start"
  BY <1>3 DEF Moved, Moving, Leads, ShownRecord, SignShown
<1> QED
  BY <1>1, <1>2, <1>3

-----------------------------------------------------------------------------
(* What waits.                                                             *)

LEMMA WaitingFacts ==
  ASSUME Typed, Queued
  PROVE  /\ \A w \in Waiting : w \in Write /\ w.job \in Jobs /\ w.id \in Nat
         /\ \A w \in Waiting : \E k \in DOMAIN kept : kept[k].write = w
         /\ \A w, x \in Waiting : w.id = x.id => w = x
<1>1. \A w \in Waiting : \E k \in DOMAIN kept : kept[k].write = w
  BY DEF Waiting
<1>2. \A w \in Waiting : w \in Write /\ w.id \in Nat
  BY <1>1, WriteFacts
<1>3. ASSUME NEW w \in Waiting, NEW x \in Waiting, w.id = x.id
      PROVE  w = x
  <2>1. PICK i \in DOMAIN kept : kept[i].write = w
    BY <1>1
  <2>2. PICK k \in DOMAIN kept : kept[k].write = x
    BY <1>1
  <2>3. i \in Nat /\ k \in Nat /\ w.id \in Nat
    BY <1>2, KeptRows
  <2>4. ~(i < k) /\ ~(k < i)
    BY <1>3, <2>1, <2>2, <2>3 DEF Queued
  <2> QED
    BY <2>1, <2>2, <2>3, <2>4
<1> QED
  BY <1>1, <1>2, <1>3 DEF Write

LEMMA WaitingKept ==
  ASSUME kept' = kept, \A w : Recorded(drains, w)' <=> Recorded(drains, w)
  PROVE  Waiting' = Waiting
BY DEF Waiting

(* Beginning a replay, or giving it up, tells the queue nothing.           *)
LEMMA ReplayEdgeWaits ==
  ASSUME Plain, Typed, NEW d \in Drains, ReplayStart(d) \/ ReplayCut(d)
  PROVE  Waiting' = Waiting
<1>1. kept' = kept /\ \A e \in Drains : e = d
  BY DEF ReplayStart, ReplayCut, KeepOutbox, Plain
<1>2. CASE ReplayStart(d)
  <2>1. /\ drains[d] = Stop
        /\ drains' = [drains EXCEPT ![d] = [left |-> Snapshot, stuck |-> {}, reply |-> "none"]]
    BY <1>2 DEF ReplayStart
  <2>2. drains'[d].reply = "none" /\ drains[d].reply = "none"
    BY <2>1, TypesOut DEF Stop
  <2> QED
    BY <1>1, <2>2, WaitingKept DEF Recorded
<1>3. CASE ReplayCut(d)
  <2>1. drains[d].reply # "ok" /\ drains' = [drains EXCEPT ![d] = Stop]
    BY <1>3 DEF ReplayCut
  <2>2. drains'[d].reply = "none"
    BY <2>1, TypesOut DEF Stop
  <2> QED
    BY <1>1, <2>1, <2>2, WaitingKept DEF Recorded
<1> QED
  BY <1>2, <1>3

(* Deleting a row tells the queue what the server has taken.               *)
LEMMA ReplayRecordWaits ==
  ASSUME Plain, Typed, NEW d \in Drains, ReplayRecord(d)
  PROVE  Waiting' = Waiting
<1> DEFINE w    == Head(drains[d].left)
           more == IF drains[d].reply = "ok" THEN drains[d].stuck
                   ELSE drains[d].stuck \cup {w.job}
<1>1. /\ drains[d].left # <<>> /\ more \in SUBSET Jobs
      /\ drains' = [drains EXCEPT ![d] = GoesOn(Tail(drains[d].left), more)]
      /\ \/ drains[d].reply = "ok" /\ kept' = WithoutWrite(w)
         \/ drains[d].reply = "refused" /\ kept' = Rejected(w)
  BY ReplayRecordIs
<1>2. GoesOn(Tail(drains[d].left), more).reply = "none"
  BY <1>1, HeadIs, GoesOnIs
<1>3. drains'[d].reply = "none" /\ \A e \in Drains : e = d
  BY <1>1, <1>2, TypesOut DEF Plain
<1>4. \A x : ~Recorded(drains, x)'
  BY <1>3 DEF Recorded
<1>5. CASE drains[d].reply = "ok" /\ kept' = WithoutWrite(w)
  <2>1. \A x : Recorded(drains, x) <=> x = w
    BY <1>1, <1>3, <1>5 DEF Recorded
  <2>2. PICK place : /\ Drawn(kept', kept, place)
                     /\ \A i \in DOMAIN kept' : kept'[i].write # w
                     /\ \A k \in DOMAIN kept : kept[k].write # w =>
                          \E i \in DOMAIN kept' : place[i] = k
    BY <1>5, WithoutDraws DEF Typed
  <2> HIDE DEF w
  <2>3. \A i \in DOMAIN kept' : place[i] \in DOMAIN kept /\ kept'[i] = kept[place[i]]
    BY <2>2 DEF Drawn
  <2>4. ASSUME NEW x \in Waiting PROVE x \in Waiting'
    <3>1. PICK k \in DOMAIN kept : kept[k].write = x /\ x # w
      BY <2>1, <2>4 DEF Waiting
    <3>2. PICK i \in DOMAIN kept' : place[i] = k
      BY <2>2, <3>1
    <3>3. kept'[i].write = x
      BY <2>3, <3>1, <3>2
    <3> QED
      BY <1>4, <3>3 DEF Waiting
  <2>5. ASSUME NEW x \in Waiting' PROVE x \in Waiting
    <3>1. PICK i \in DOMAIN kept' : kept'[i].write = x
      BY <2>5 DEF Waiting
    <3>2. place[i] \in DOMAIN kept /\ kept[place[i]].write = x /\ x # w
      BY <2>2, <2>3, <3>1
    <3> QED
      BY <2>1, <3>2 DEF Waiting
  <2> QED
    BY <2>4, <2>5
<1>6. CASE drains[d].reply = "refused" /\ kept' = Rejected(w)
  <2>1. \A x : ~Recorded(drains, x)
    BY <1>3, <1>6 DEF Recorded
  <2>2. DOMAIN kept' = DOMAIN kept /\ \A k \in DOMAIN kept : kept'[k].write = kept[k].write
    BY <1>6, RejectedIs
  <2> QED
    BY <1>4, <2>1, <2>2 DEF Waiting
<1> QED
  BY <1>1, <1>5, <1>6

(* A replay the server takes is of the first write of its job that waits.  *)
LEMMA ReplayServedWaits ==
  ASSUME Plain, PlainInv, NEW d \in Drains, ReplayServed(d)
  PROVE  LET w == Head(drains[d].left) IN
         /\ w \in Waiting /\ w \in Write
         /\ \A x \in Waiting : x.job = w.job /\ x # w => w.id < x.id
         /\ ReplyTo(w) = "ok" => Waiting' = Waiting \ {w}
         /\ ReplyTo(w) = "refused" => Waiting' = Waiting
<1> DEFINE w == Head(drains[d].left)
<1>1. Typed /\ IInv /\ Queued
  BY DEF PlainInv, IInv, Typed
<1>2. /\ drains[d].left # <<>> /\ drains[d].reply = "none"
      /\ kept' = kept /\ drains' = [drains EXCEPT ![d].reply = ReplyTo(w)]
  BY DEF ReplayServed, Plain
<1>3. /\ w \in Write /\ 1 \in DOMAIN drains[d].left /\ w = drains[d].left[1]
      /\ drains[d] \in DrainRec
  BY <1>1, <1>2, HeadIs
<1>4. /\ drains'[d].left = drains[d].left /\ drains'[d].reply = ReplyTo(w)
      /\ \A e \in Drains : e = d
  BY <1>1, <1>2, <1>3, TypesOut DEF Plain, DrainRec
<1>5. \A x : ~Recorded(drains, x)
  BY <1>2, <1>4 DEF Recorded
<1>6. PICK k0 \in DOMAIN kept : kept[k0].write = w
  BY <1>1, <1>3 DEF Queued, Holds
<1>7. ASSUME NEW x \in Waiting, x.job = w.job, x # w
      PROVE  w.id < x.id
  <2>1. PICK k \in DOMAIN kept : kept[k].write = x
    BY <1>7 DEF Waiting
  <2>2. ~(k < k0)
    BY <1>1, <1>2, <1>6, <1>7, <2>1, FirstInQueue
  <2>3. k0 < k
    BY <1>1, <1>6, <1>7, <2>1, <2>2, KeptRows
  <2> QED
    BY <1>1, <1>6, <2>1, <2>3 DEF Queued
<1>8. w \in Waiting
  BY <1>5, <1>6 DEF Waiting
<1>9. \A x : Recorded(drains, x)' <=> ReplyTo(w) = "ok" /\ x = w
  BY <1>2, <1>4 DEF Recorded
<1> HIDE DEF w
<1>10. ReplyTo(w) = "ok" => Waiting' = Waiting \ {w}
  BY <1>2, <1>5, <1>9 DEF Waiting
<1>11. ReplyTo(w) = "refused" => Waiting' = Waiting
  BY <1>2, <1>5, <1>9 DEF Waiting
<1> QED
  BY <1>3, <1>7, <1>8, <1>10, <1>11 DEF w

(* A write that could not be sent joins them as the last.                  *)
LEMMA RpcDoneWaits ==
  ASSUME Plain, PlainInv, NEW c \in Calls, RpcDone(c)
  PROVE  LET w == calls[c].write IN
         /\ calls[c].reply = "lost" => Waiting' = Waiting \cup {w}
         /\ calls[c].reply # "lost" => Waiting' = Waiting
         /\ \A x \in Waiting : x.id < w.id
<1> DEFINE w   == calls[c].write
           row == [write |-> w, rejected |-> FALSE]
<1>1. Typed /\ Fresh /\ Queued
  BY DEF PlainInv, IInv, Typed
<1>2. /\ Asks(c) /\ drains' = drains
      /\ kept' = IF calls[c].reply = "lost" THEN Append(kept, row) ELSE kept
  BY DEF RpcDone, Asks
<1>3. \A x \in Waiting : x.id < w.id
  BY <1>2 DEF PlainInv, CallLast, Waiting
<1>4. CASE calls[c].reply # "lost"
  BY <1>2, <1>3, <1>4 DEF Waiting
<1>5. CASE calls[c].reply = "lost"
  <2>1. kept \in Seq(OutboxRow) /\ row \in OutboxRow
    BY <1>1, <1>2, WriteFacts, TypesOut DEF OutboxRow
  <2> HIDE DEF row
  <2>2. /\ Len(kept) \in Nat /\ DOMAIN kept = 1 .. Len(kept)
        /\ DOMAIN kept' = 1 .. Len(kept) + 1
        /\ kept'[Len(kept) + 1] = row
        /\ \A i \in DOMAIN kept : kept'[i] = kept[i]
    BY <1>2, <1>5, <2>1, AppendIs
  <2>3. row.write = w
    BY DEF row
  <2>4. \A e \in Drains : \A p \in DOMAIN drains[e].left : drains[e].left[p] # w
    BY <1>1, <1>2 DEF Fresh, Has
  <2>5. ~Recorded(drains, w)
    BY <1>1, <2>4, HeadIs DEF Recorded
  <2> HIDE DEF w
  <2>6. \A x : x \in {kept'[k].write : k \in DOMAIN kept'} <=>
               x = w \/ x \in {kept[k].write : k \in DOMAIN kept}
    BY <2>2, <2>3
  <2>7. Waiting' = Waiting \cup {w}
    BY <1>2, <2>5, <2>6 DEF Waiting
  <2> QED
    BY <1>3, <1>5, <2>7 DEF w
<1> QED
  BY <1>4, <1>5

-----------------------------------------------------------------------------
(* Each step keeps the screens with the server.                            *)

(* A step that moves no state and answers no call.                         *)
LEMMA StillMirrors ==
  ASSUME Typed, Mirrors, Typed',
         list' = list, cached' = cached, Waiting' = Waiting,
         \A j \in Jobs :
           /\ server'[j].row = server[j].row
           /\ server[j].card = "signed" => server'[j].card = "signed"
           /\ server'[j].card = "signed" => server'[j].row.state = "signed_off"
           /\ bundle'[j] = "signed" => server'[j].card = "signed",
         \A c \in Calls : Asks(c)' =>
           /\ Asks(c) /\ calls'[c].write = calls[c].write
           /\ ~calls'[c].shown.blocks
           /\ calls'[c].bundle = "signed" => server'[calls[c].write.job].card = "signed",
         \A c \in Calls : /\ Answered(c)' <=> Answered(c)
                          /\ Answered(c) => calls'[c].shown = calls[c].shown
  PROVE  Mirrors'
<1>1. \A w \in Waiting : w.job \in Jobs
  <2>1. \A k \in DOMAIN kept : kept[k].write \in Write
    BY WriteFacts
  <2> QED
    BY <2>1 DEF Waiting, Write
<1>2. \A c \in Calls : Asks(c) => calls[c].write.job \in Jobs
  BY WriteFacts DEF Write
<1>3. \A c \in Calls : Answered(c)' => Asks(c)' /\ calls'[c].write = calls[c].write
  BY DEF Answered
<1>4. \A j \in Jobs : Heard(j)' => Heard(j)
  BY <1>3 DEF Heard
<1>5. Mirrored'
  <2> SUFFICES ASSUME NEW j \in Jobs, Heard(j)'
               PROVE  ShowsServer(j)' \/ ShowsLast(j)'
    BY DEF Mirrored
  <2>1. ShowsServer(j) \/ ShowsLast(j)
    BY <1>4 DEF Mirrors, Mirrored
  <2>2. CASE ShowsServer(j)
    BY <2>2 DEF ShowsServer
  <2>3. CASE ShowsLast(j)
    BY <2>3 DEF ShowsLast
  <2> QED
    BY <2>1, <2>2, <2>3
<1>6. AnswerFits'
  BY <1>2, <1>3 DEF Mirrors, AnswerFits, Answered
<1>7. Unblocked'
  BY DEF Mirrors, Unblocked
<1>8. SealsEnd'
  BY DEF Mirrors, SealsEnd
<1>9. Asked'
  BY DEF Mirrors, Asked
<1>10. SignsLast'
  BY <1>1 DEF Mirrors, SignsLast
<1> QED
  BY <1>5, <1>6, <1>7, <1>8, <1>9, <1>10 DEF Mirrors

(* A screen knows of a signature that is made, or waits.                   *)
LEMMA SealShows ==
  ASSUME Typed, Queued, Mirrors, NEW j \in Jobs, Heard(j),
         \/ server[j].row.state = "signed_off"
         \/ \E w \in Waiting : w.job = j /\ w.op = "sign"
  PROVE  cached[j].state = "signed_off"
<1>1. CASE ShowsServer(j)
  <2>1. server[j].row.state = "signed_off"
    BY <1>1 DEF ShowsServer
  <2> QED
    BY <1>1, <2>1 DEF ShowsServer, StateOf
<1>2. CASE ShowsLast(j)
  <2>1. PICK y \in Waiting : /\ y.job = j
                             /\ \A x \in Waiting : x.job = j /\ x.id > y.id => x.op = "save"
                             /\ cached[j].state = Leads(y)
    BY <1>2 DEF ShowsLast
  <2>2. CASE server[j].row.state = "signed_off"
    BY <2>1, <2>2 DEF Mirrors, SignsLast, Leads
  <2>3. CASE \E w \in Waiting : w.job = j /\ w.op = "sign"
    <3>1. PICK w \in Waiting : w.job = j /\ w.op = "sign"
      BY <2>3
    <3>2. w.id \in Nat /\ y.id \in Nat /\ ~(w.id > y.id)
      BY <2>1, <3>1, WaitingFacts
    <3>3. w.id < y.id => y.op = "sign"
      BY <2>1, <3>1 DEF Mirrors, SignsLast
    <3>4. w.id = y.id => y.op = "sign"
      BY <3>1, WaitingFacts
    <3> QED
      BY <2>1, <3>2, <3>3, <3>4 DEF Leads
  <2> QED
    BY <2>2, <2>3
<1> QED
  BY <1>1, <1>2 DEF Mirrors, Mirrored

LEMMA TapMirrors ==
  ASSUME Plain, MirrorInv, NEW c \in Calls, NEW j \in Jobs, Tap(c, j)
  PROVE  Mirrors'
<1>1. Typed /\ Queued /\ Mirrors
  BY DEF MirrorInv, PlainInv, IInv, Typed
<1>2. PICK op \in Ops \ {"sign_off"}, reason \in Reasons \cup {NoReason} :
        /\ MayTap(op, j)
        /\ calls' = [calls EXCEPT ![c] =
             [write |-> [id |-> taps + 1, job |-> j, op |-> op, reason |-> reason,
                         content |-> form[j]],
              reply |-> "none", shown |-> cached[j], bundle |-> bundle[j]]]
  BY DEF Tap
<1>3. /\ list' = list /\ cached' = cached /\ server' = server /\ bundle' = bundle
      /\ kept' = kept /\ drains' = drains /\ calls[c] = NoCall
  BY DEF Tap
<1>4. \A e \in Calls : e = c /\ ~Asks(e)
  BY <1>3 DEF Plain, Asks
<1> DEFINE w == [id |-> taps + 1, job |-> j, op |-> op, reason |-> reason, content |-> form[j]]
<1>5. /\ calls'[c].write = w /\ calls'[c].reply = "none"
      /\ calls'[c].shown = cached[j] /\ calls'[c].bundle = bundle[j]
  BY <1>1, <1>2, TypesOut
<1>6. w.job = j /\ w.op = op
  OBVIOUS
<1> HIDE DEF w
<1>7. Heard(j) /\ \A e \in Calls : ~Answered(e)
  BY <1>4 DEF Heard, Answered
<1>8. \A e \in Calls : ~Answered(e)'
  BY <1>4, <1>5 DEF Answered
<1>9. Waiting' = Waiting
  BY <1>3, WaitingKept DEF Recorded
(* A stop is offered with a signed card only, and then the job is over.    *)
<1>10. bundle[j] = "signed" => cached[j].state = "signed_off"
  BY <1>1, <1>7, SealShows DEF Mirrors, SealsEnd
<1>11. /\ op = "sign" \/ cached[j].state # "signed_off"
       /\ op \in Moving \cup {"save"}
  BY <1>2, <1>10 DEF MayTap, Moving, Ops, Events
<1>12. Mirrored'
  <2> SUFFICES ASSUME NEW i \in Jobs
               PROVE  ShowsServer(i)' \/ ShowsLast(i)'
    BY DEF Mirrored
  <2>1. Heard(i)
    BY <1>7 DEF Heard
  <2>2. CASE ShowsServer(i)
    BY <1>3, <1>9, <2>2 DEF ShowsServer
  <2>3. CASE ShowsLast(i)
    BY <1>3, <1>9, <2>3 DEF ShowsLast
  <2> QED
    BY <1>1, <2>1, <2>2, <2>3 DEF Mirrors, Mirrored
<1>13. AnswerFits'
  BY <1>8 DEF AnswerFits
<1>14. Unblocked'
  BY <1>1, <1>3, <1>4, <1>5, <1>9 DEF Mirrors, Unblocked
<1>15. SealsEnd'
  BY <1>1, <1>3, <1>4, <1>5, <1>6 DEF Mirrors, SealsEnd
<1>16. Asked'
  BY <1>1, <1>3, <1>4, <1>5, <1>6, <1>9, <1>11 DEF Mirrors, Asked
<1>17. SignsLast'
  BY <1>1, <1>3, <1>9 DEF Mirrors, SignsLast
<1> QED
  BY <1>1, <1>3, <1>12, <1>13, <1>14, <1>15, <1>16, <1>17 DEF Mirrors

LEMMA RpcServedMirrors ==
  ASSUME Plain, Listless, MirrorInv, Typed', Resumable, NEW c \in Calls, RpcServed(c)
  PROVE  Mirrors'
<1> DEFINE w == calls[c].write
<1>1. Typed /\ Queued /\ Mirrors
  BY DEF MirrorInv, PlainInv, IInv, Typed
<1>2. /\ Asks(c) /\ calls[c].reply = "none" /\ ServeWrite(w) /\ w \in Write /\ w.job \in Jobs
      /\ \A i \in DOMAIN kept : kept[i].write.job # w.job
      /\ kept' = kept /\ drains' = drains /\ cached' = cached /\ bundle' = bundle /\ list' = list
  BY <1>1, CallsTyped DEF RpcServed, Typed, Asks, Write, Plain
<1>3. /\ calls' = [calls EXCEPT ![c] =
                    [write |-> w, reply |-> ReplyTo(w),
                     shown |-> RecordOf(server'[w.job]), bundle |-> BundleOf(server'[w.job])]]
  BY DEF RpcServed, Plain
<1>4. /\ calls'[c].write = w /\ calls'[c].reply = ReplyTo(w)
      /\ calls'[c].shown = RecordOf(server'[w.job]) /\ calls'[c].bundle = BundleOf(server'[w.job])
      /\ \A e \in Calls : e = c
  BY <1>1, <1>3, TypesOut DEF Plain
<1>5. w.op \in Moving \cup {"save"} /\ w.reason \notin Blocking
  BY <1>1, <1>2 DEF Mirrors, Asked, Resumable
<1>6. Waiting' = Waiting /\ \A x \in Waiting : x.job # w.job
  BY <1>2, WaitingKept DEF Recorded, Waiting
<1> HIDE DEF w
<1>7. /\ \A j \in Jobs \ {w.job} : server'[j] = server[j]
      /\ w.op = "save" \/ ReplyTo(w) = "refused" => server'[w.job].row = server[w.job].row
      /\ w.op # "save" /\ ReplyTo(w) = "ok" =>
           server'[w.job].row.state = Leads(w) /\ StateOf(server'[w.job].row) = Leads(w)
      /\ ReplyTo(w) \in {"ok", "refused"}
      /\ \A j \in Jobs : /\ server'[j].row.reason \notin Blocking
                         /\ server[j].card = "signed" => server'[j].card = "signed"
                         /\ server'[j].card = "signed" => server'[j].row.state = "signed_off"
  BY <1>1, <1>2, <1>5, ServeMoves DEF Mirrors
<1>8. ~RecordOf(server'[w.job]).blocks
  BY <1>2, <1>7 DEF RecordOf
<1>9. BundleOf(server'[w.job]) = "signed" => server'[w.job].card = "signed"
  BY DEF BundleOf
<1>10. \A e \in Calls : ~Answered(e)
  BY <1>2, <1>4 DEF Answered
<1>11. \A j \in Jobs : bundle'[j] = "signed" => server'[j].card = "signed"
  BY <1>1, <1>2, <1>7 DEF Mirrors, SealsEnd
<1>12. CASE w.op = "save" \/ ReplyTo(w) = "refused"
  <2>1. \A e \in Calls : ~Answered(e)'
    BY <1>4, <1>12 DEF Answered
  <2>2. \A j \in Jobs : server'[j].row = server[j].row
    BY <1>7, <1>12
  <2>3. calls[c].write = w
    BY DEF w
  <2> QED
    BY <1>1, <1>2, <1>4, <1>6, <1>7, <1>8, <1>9, <1>10, <1>11, <2>1, <2>2, <2>3, StillMirrors
<1>13. CASE w.op # "save" /\ ReplyTo(w) = "ok"
  <2>1. server'[w.job].row.state = Leads(w) /\ StateOf(server'[w.job].row) = Leads(w)
    BY <1>7, <1>13
  <2>2. Asks(c)' /\ Answered(c)'
    BY <1>2, <1>3, <1>4, <1>7, <1>13, CallsTyped, <1>1 DEF Answered, Asks, NoCall, Typed, CallTyped
  <2>3. Mirrored'
    <3> SUFFICES ASSUME NEW j \in Jobs, Heard(j)'
                 PROVE  ShowsServer(j)' \/ ShowsLast(j)'
      BY DEF Mirrored
    <3>1. j # w.job /\ Heard(j)
      BY <1>4, <1>10, <2>2 DEF Heard
    <3>2. CASE ShowsServer(j)
      BY <1>2, <1>6, <1>7, <3>1, <3>2 DEF ShowsServer
    <3>3. CASE ShowsLast(j)
      BY <1>2, <1>6, <3>3 DEF ShowsLast
    <3> QED
      BY <1>1, <3>1, <3>2, <3>3 DEF Mirrors, Mirrored
  <2>4. RecordOf(server'[w.job]).state = StateOf(server'[w.job].row)
    BY DEF RecordOf
  <2>5. AnswerFits'
    BY <1>4, <1>6, <2>1, <2>4 DEF AnswerFits, Leads
  <2>6. Unblocked'
    BY <1>1, <1>2, <1>4, <1>6, <1>7, <1>8 DEF Mirrors, Unblocked
  <2>7. SealsEnd'
    BY <1>4, <1>7, <1>9, <1>11 DEF SealsEnd
  <2>8. Asked'
    BY <1>1, <1>2, <1>4, <1>6 DEF Mirrors, Asked, w
  <2>9. SignsLast'
    <3>1. \A x \in Waiting : server'[x.job] = server[x.job]
      BY <1>1, <1>6, <1>7, WaitingFacts
    <3> QED
      BY <1>1, <1>6, <3>1 DEF Mirrors, SignsLast
  <2> QED
    BY <1>1, <1>2, <2>3, <2>5, <2>6, <2>7, <2>8, <2>9 DEF Mirrors
<1> QED
  BY <1>7, <1>12, <1>13

LEMMA ShownAfterIs ==
  ASSUME NEW w, NEW reply, NEW answer
  PROVE  /\ reply = "refused" \/ w.op = "save" => ShownAfter(w, reply, answer) = cached[w.job]
         /\ reply # "refused" /\ w.op = "sign" =>
              ShownAfter(w, reply, answer) = SignShown(cached[w.job])
         /\ reply = "ok" /\ w.op \notin {"save", "sign"} => ShownAfter(w, reply, answer) = answer
         /\ reply = "lost" /\ w.op \notin {"save", "sign"} =>
              ShownAfter(w, reply, answer) = Moved(w.op, cached[w.job])
BY DEF ShownAfter

LEMMA RpcDoneMirrors ==
  ASSUME Plain, MirrorInv, Typed', Resumable, NEW c \in Calls, RpcDone(c)
  PROVE  Mirrors'
<1> DEFINE w == calls[c].write
<1>1. Typed /\ Queued /\ Mirrors
  BY DEF MirrorInv, PlainInv, IInv, Typed
<1>2. /\ Asks(c) /\ calls[c].reply # "none" /\ w \in Write /\ w.job \in Jobs
      /\ calls[c].reply \in Reply /\ calls[c].shown \in ShownRecord
      /\ server' = server /\ list' = list
      /\ calls' = [calls EXCEPT ![c] = NoCall]
      /\ cached' = [cached EXCEPT ![w.job] = ShownAfter(w, calls[c].reply, calls[c].shown)]
      /\ bundle' = IF calls[c].reply = "ok" /\ w.op \in {"save", "sign"}
                   THEN [bundle EXCEPT ![w.job] = calls[c].bundle] ELSE bundle
  BY <1>1, CallsTyped DEF RpcDone, Typed, Asks, Write
<1>3. \A e \in Calls : e = c /\ calls'[e] = NoCall /\ ~Asks(e)'
  BY <1>1, <1>2, TypesOut DEF Plain, Asks
<1>4. \A e \in Calls : ~Answered(e)'
  BY <1>3 DEF Answered
<1>5. w.op \in Moving \cup {"save"} /\ w.reason \notin Blocking
  BY <1>1, <1>2 DEF Mirrors, Asked, Resumable
<1>6. /\ calls[c].reply = "lost" => Waiting' = Waiting \cup {w}
      /\ calls[c].reply # "lost" => Waiting' = Waiting
      /\ \A x \in Waiting : x.id < w.id
  BY RpcDoneWaits DEF MirrorInv
<1>7. w.op = "sign" \/ cached[w.job].state # "signed_off"
  BY <1>1, <1>2 DEF Mirrors, Asked
<1>8. Answered(c) <=> calls[c].reply = "ok" /\ w.op # "save"
  BY <1>2 DEF Answered
<1> DEFINE m == ShownAfter(w, calls[c].reply, calls[c].shown)
<1>9. /\ cached'[w.job] = m
      /\ \A j \in Jobs \ {w.job} : cached'[j] = cached[j]
      /\ m = cached[w.job] => cached' = cached
  BY <1>1, <1>2, TypesOut
<1>10. calls[c].bundle = "signed" => server[w.job].card = "signed"
  BY <1>1, <1>2 DEF Mirrors, SealsEnd
<1> HIDE DEF w, m
<1>11. \A j \in Jobs : /\ server[j].card = "signed" => server[j].row.state = "signed_off"
                       /\ bundle'[j] = "signed" => server[j].card = "signed"
  BY <1>1, <1>2, <1>10, TypesOut DEF Mirrors, SealsEnd
<1>12. CASE calls[c].reply = "refused" \/ (calls[c].reply = "ok" /\ w.op = "save")
  <2>1. m = cached[w.job]
    BY <1>12, ShownAfterIs DEF m
  <2>2. \A e \in Calls : ~Answered(e)
    BY <1>3, <1>8, <1>12
  <2>3. Waiting' = Waiting
    BY <1>6, <1>12
  <2> QED
    BY <1>1, <1>2, <1>3, <1>4, <1>9, <1>11, <2>1, <2>2, <2>3, StillMirrors
<1>13. ~cached[w.job].blocks /\ cached[w.job] \in ShownRecord /\ ~calls[c].shown.blocks
  BY <1>1, <1>2, TypesOut DEF Mirrors, Unblocked
<1>14. SealsEnd' /\ AnswerFits'
  BY <1>2, <1>3, <1>4, <1>11 DEF SealsEnd, AnswerFits
(* The server has answered: the screen shows what it said.                 *)
<1>15. CASE calls[c].reply = "ok" /\ w.op # "save"
  <2>1. /\ calls[c].shown.state = StateOf(server[w.job].row)
        /\ w.op = "sign" => calls[c].shown.state = "signed_off"
        /\ \A x \in Waiting : x.job # w.job
    BY <1>1, <1>8, <1>15 DEF Mirrors, AnswerFits, w
  <2>2. m.state = StateOf(server[w.job].row) /\ ~m.blocks
    <3>1. CASE w.op = "sign"
      <4>1. m = SignShown(cached[w.job])
        BY <1>15, <3>1, ShownAfterIs DEF m
      <4>2. m.state = "signed_off" /\ ~m.blocks
        BY <1>13, <3>1, <4>1, DeviceMoves DEF Leads
      <4> QED
        BY <2>1, <3>1, <4>2
    <3>2. CASE w.op # "sign"
      <4>1. m = calls[c].shown
        BY <1>15, <3>2, ShownAfterIs DEF m
      <4> QED
        BY <1>13, <2>1, <4>1
    <3> QED
      BY <3>1, <3>2
  <2>3. Waiting' = Waiting
    BY <1>6, <1>15
  <2>4. Mirrored'
    <3> SUFFICES ASSUME NEW j \in Jobs
                 PROVE  ShowsServer(j)' \/ ShowsLast(j)'
      BY DEF Mirrored
    <3>1. CASE j = w.job
      BY <1>2, <1>9, <2>1, <2>2, <2>3, <3>1 DEF ShowsServer
    <3>2. CASE j # w.job
      <4>1. Heard(j)
        BY <1>3, <3>2 DEF Heard, w
      <4>2. CASE ShowsServer(j)
        BY <1>2, <1>9, <2>3, <3>2, <4>2 DEF ShowsServer
      <4>3. CASE ShowsLast(j)
        BY <1>9, <2>3, <3>2, <4>3 DEF ShowsLast
      <4> QED
        BY <1>1, <4>1, <4>2, <4>3 DEF Mirrors, Mirrored
    <3> QED
      BY <3>1, <3>2
  <2>5. Unblocked'
    BY <1>1, <1>2, <1>3, <1>9, <2>2, <2>3 DEF Mirrors, Unblocked
  <2>6. Asked' /\ SignsLast'
    BY <1>1, <1>2, <1>3, <2>3 DEF Mirrors, Asked, SignsLast
  <2> QED
    BY <1>1, <1>2, <1>14, <2>4, <2>5, <2>6 DEF Mirrors
(* No signal: the screen shows where the write will lead.                  *)
<1>16. CASE calls[c].reply = "lost"
  <2>1. Waiting' = Waiting \cup {w} /\ \A j \in Jobs : Heard(j)
    BY <1>3, <1>6, <1>8, <1>16 DEF Heard
  <2>2. /\ w.op = "save" => m = cached[w.job]
        /\ w.op = "sign" => m = SignShown(cached[w.job])
        /\ w.op \notin {"save", "sign"} => m = Moved(w.op, cached[w.job])
    BY <1>16, ShownAfterIs DEF m
  <2>3. (w.op # "save" => m.state = Leads(w)) /\ ~m.blocks
    BY <1>5, <1>13, <2>2, DeviceMoves
  <2>4. \A x \in Waiting : x.id \in Nat /\ x.job \in Jobs
    BY <1>1, WaitingFacts
  <2>5. w.id \in Nat
    BY <1>2, BoundsAssumption DEF Write
  <2>6. Mirrored'
    <3> SUFFICES ASSUME NEW j \in Jobs
                 PROVE  ShowsServer(j)' \/ ShowsLast(j)'
      BY DEF Mirrored
    <3>1. ShowsServer(j) \/ ShowsLast(j)
      BY <1>1, <2>1 DEF Mirrors, Mirrored
    <3>2. CASE j = w.job /\ w.op # "save"
      <4>1. \A x \in Waiting' : ~(x.id > w.id)
        BY <1>6, <2>1, <2>4, <2>5
      <4> QED
        BY <1>9, <2>1, <2>3, <3>2, <4>1 DEF ShowsLast
    <3>3. CASE ~(j = w.job /\ w.op # "save")
      <4>1. /\ cached'[j] = cached[j]
            /\ \A x \in Waiting' \ Waiting : x.job = j => x.op = "save"
        BY <1>9, <2>1, <2>2, <3>3
      <4>2. CASE ShowsServer(j)
        BY <1>2, <4>1, <4>2 DEF ShowsServer
      <4>3. CASE ShowsLast(j)
        BY <2>1, <4>1, <4>3 DEF ShowsLast
      <4> QED
        BY <3>1, <4>2, <4>3
    <3> QED
      BY <3>2, <3>3
  <2>7. Unblocked'
    BY <1>1, <1>2, <1>3, <1>5, <1>9, <2>1, <2>3 DEF Mirrors, Unblocked
  <2>8. Asked'
    BY <1>1, <1>3, <1>5, <2>1 DEF Mirrors, Asked
  <2>9. SignsLast'
    <3>1. ASSUME \/ server[w.job].row.state = "signed_off"
                 \/ \E x \in Waiting : x.job = w.job /\ x.op = "sign"
          PROVE  w.op = "sign"
      BY <1>1, <1>2, <1>7, <2>1, <3>1, SealShows
    <3>2. ASSUME NEW a \in Waiting', NEW b \in Waiting', a.job = b.job, a.op = "sign", a.id < b.id
          PROVE  b.op = "sign"
      <4>1. a \in Waiting
        BY <1>6, <2>1, <2>4, <2>5, <3>2
      <4>2. CASE b \in Waiting
        BY <1>1, <3>2, <4>1, <4>2 DEF Mirrors, SignsLast
      <4>3. CASE b = w
        BY <3>1, <3>2, <4>1, <4>3
      <4> QED
        BY <2>1, <4>2, <4>3
    <3>3. ASSUME NEW a \in Waiting', server[a.job].row.state = "signed_off"
          PROVE  a.op = "sign"
      BY <1>1, <2>1, <3>1, <3>3 DEF Mirrors, SignsLast
    <3> QED
      BY <1>2, <3>2, <3>3 DEF SignsLast
  <2> QED
    BY <1>1, <1>2, <1>14, <2>6, <2>7, <2>8, <2>9 DEF Mirrors
<1> QED
  BY <1>2, <1>12, <1>15, <1>16 DEF Reply

LEMMA ReplayServedMirrors ==
  ASSUME Plain, Listless, MirrorInv, Typed', NEW d \in Drains, ReplayServed(d)
  PROVE  Mirrors'
<1> DEFINE w == Head(drains[d].left)
<1>1. Typed /\ Queued /\ Mirrors /\ PlainInv
  BY DEF MirrorInv, PlainInv, IInv, Typed
<1>2. /\ w \in Waiting /\ w \in Write
      /\ \A x \in Waiting : x.job = w.job /\ x # w => w.id < x.id
      /\ ReplyTo(w) = "ok" => Waiting' = Waiting \ {w}
      /\ ReplyTo(w) = "refused" => Waiting' = Waiting
  BY <1>1, ReplayServedWaits
<1>3. /\ ServeWrite(w) /\ cached' = cached /\ bundle' = bundle /\ calls' = calls /\ list' = list
  BY DEF ReplayServed
<1> HIDE DEF w
<1>4. w.op \in Moving \cup {"save"} /\ w.reason \notin Blocking /\ w.job \in Jobs
  BY <1>1, <1>2 DEF Mirrors, Asked, Unblocked, Write
<1>5. /\ \A j \in Jobs \ {w.job} : server'[j] = server[j]
      /\ w.op = "save" \/ ReplyTo(w) = "refused" => server'[w.job].row = server[w.job].row
      /\ w.op # "save" /\ ReplyTo(w) = "ok" =>
           server'[w.job].row.state = Leads(w) /\ StateOf(server'[w.job].row) = Leads(w)
      /\ ReplyTo(w) \in {"ok", "refused"}
      /\ \A j \in Jobs : /\ server'[j].row.reason \notin Blocking
                         /\ server[j].card = "signed" => server'[j].card = "signed"
                         /\ server'[j].card = "signed" => server'[j].row.state = "signed_off"
  BY <1>1, <1>2, <1>3, <1>4, ServeMoves DEF Mirrors
<1>6. /\ \A j \in Jobs : bundle'[j] = "signed" => server'[j].card = "signed"
      /\ \A c \in Calls : Asks(c) /\ calls[c].bundle = "signed" =>
           server'[calls[c].write.job].card = "signed"
  BY <1>1, <1>3, <1>5, WriteFacts DEF Mirrors, SealsEnd, Write
<1>7. \A c \in Calls : Asks(c) => ~calls[c].shown.blocks
  BY <1>1 DEF Mirrors, Unblocked
<1>8. /\ \A c \in Calls : (Asks(c)' <=> Asks(c)) /\ (Answered(c)' <=> Answered(c))
      /\ \A j \in Jobs : Heard(j)' <=> Heard(j)
  BY <1>3 DEF Asks, Answered, Heard
<1>9. CASE ReplyTo(w) = "refused"
  <2>1. Waiting' = Waiting /\ \A j \in Jobs : server'[j].row = server[j].row
    BY <1>2, <1>5, <1>9
  <2> QED
    BY <1>1, <1>3, <1>5, <1>6, <1>7, <1>8, <2>1, StillMirrors
<1>10. CASE ReplyTo(w) = "ok"
  <2>1. Waiting' = Waiting \ {w}
    BY <1>2, <1>10
  <2>2. \A x \in Waiting : x.id \in Nat /\ x.job \in Jobs
    BY <1>1, WaitingFacts
  <2>3. ASSUME NEW j \in Jobs, Heard(j)
        PROVE  ShowsServer(j)' \/ ShowsLast(j)'
    <3>1. ShowsServer(j) \/ ShowsLast(j)
      BY <1>1, <2>3 DEF Mirrors, Mirrored
    <3>2. CASE ShowsServer(j)
      <4>1. server'[j].row = server[j].row
        BY <1>2, <1>5, <3>2 DEF ShowsServer
      <4> QED
        BY <1>3, <2>1, <3>2, <4>1 DEF ShowsServer
    <3>3. CASE ShowsLast(j)
      <4>1. PICK y \in Waiting :
              /\ y.job = j /\ y.op # "save" /\ cached[j].state = Leads(y)
              /\ \A x \in Waiting : x.job = j /\ x.id > y.id => x.op = "save"
        BY <3>3 DEF ShowsLast
      <4>2. CASE y = w
        <5>1. StateOf(server'[j].row) = Leads(w)
          BY <1>5, <1>10, <4>1, <4>2
        <5>2. \A x \in Waiting' : x.job = j => x.op = "save"
          BY <1>2, <2>1, <2>2, <4>1, <4>2
        <5> QED
          BY <1>3, <4>1, <4>2, <5>1, <5>2 DEF ShowsServer
      <4>3. CASE y # w
        BY <1>3, <2>1, <4>1, <4>3 DEF ShowsLast
      <4> QED
        BY <4>2, <4>3
    <3> QED
      BY <3>1, <3>2, <3>3
  <2>4. Mirrored'
    BY <1>8, <2>3 DEF Mirrored
  <2>5. AnswerFits'
    <3>1. \A c \in Calls : Answered(c) =>
            calls[c].write.job \in Jobs \ {w.job}
      BY <1>1, <1>2, WriteFacts DEF Mirrors, AnswerFits, Answered, Write
    <3> QED
      BY <1>1, <1>3, <1>5, <1>8, <2>1, <3>1 DEF Mirrors, AnswerFits
  <2>6. Unblocked'
    BY <1>1, <1>3, <1>5, <1>8, <2>1 DEF Mirrors, Unblocked
  <2>7. SealsEnd'
    BY <1>3, <1>5, <1>6, <1>8 DEF SealsEnd
  <2>8. Asked'
    BY <1>1, <1>3, <1>8, <2>1 DEF Mirrors, Asked
  <2>9. ASSUME NEW x \in Waiting', server'[x.job].row.state = "signed_off"
        PROVE  x.op = "sign"
    <3>1. CASE server'[x.job].row = server[x.job].row
      BY <1>1, <2>1, <2>9, <3>1 DEF Mirrors, SignsLast
    <3>2. CASE x.job = w.job /\ w.op # "save"
      <4>1. w.op = "sign"
        BY <1>4, <1>5, <1>10, <2>9, <3>2 DEF Leads, Moving
      <4> QED
        BY <1>1, <1>2, <2>1, <2>9, <3>2, <4>1 DEF Mirrors, SignsLast
    <3> QED
      BY <1>5, <2>1, <2>2, <3>1, <3>2
  <2>10. SignsLast'
    BY <1>1, <2>1, <2>9 DEF Mirrors, SignsLast
  <2> QED
    BY <1>1, <1>3, <2>4, <2>5, <2>6, <2>7, <2>8, <2>10 DEF Mirrors
<1> QED
  BY <1>5, <1>9, <1>10

LEMMA InitMirrors == Listless /\ OutboxInit => MirrorInv
<1> SUFFICES ASSUME Listless, OutboxInit
             PROVE  Mirrors
  BY InitPlain DEF MirrorInv
<1>1. /\ \A j \in Jobs : /\ server[j].row = NoRow /\ server[j].card = "none"
                         /\ cached[j] = [state |-> "not_started", blocks |-> FALSE]
                         /\ bundle[j] = "none"
      /\ \A c \in Calls : ~Asks(c) /\ ~Answered(c)
      /\ list = NoList
  BY DEF OutboxInit, Asks, Answered
<1>2. Waiting = {}
  BY EmptySeq DEF OutboxInit, Waiting
<1>3. StateOf(NoRow) = "not_started" /\ NoRow.reason \notin Blocking
  BY DEF NoRow, StateOf, Listless
<1>4. Mirrored
  BY <1>1, <1>2, <1>3 DEF Mirrored, ShowsServer
<1>5. AnswerFits /\ SealsEnd /\ Asked /\ SignsLast
  BY <1>1, <1>2 DEF AnswerFits, SealsEnd, Asked, SignsLast
<1>6. Unblocked
  BY <1>1, <1>2, <1>3 DEF Unblocked
<1> QED
  BY <1>1, <1>4, <1>5, <1>6 DEF Mirrors

LEMMA NextMirrors ==
  ASSUME Plain, Listless
  PROVE  MirrorInv /\ Resumable /\ [OutboxNext]_outboxVars => MirrorInv'
<1> SUFFICES ASSUME MirrorInv, Resumable, [OutboxNext]_outboxVars
             PROVE  Mirrors'
  BY NextPlain DEF MirrorInv
<1>1. Typed /\ Mirrors /\ PlainInv
  BY DEF MirrorInv, PlainInv, IInv, Typed
<1>2. Typed'
  BY <1>1, NextPlain DEF PlainInv, IInv, Typed
<1>3. /\ \A c \in Calls : Asks(c) /\ calls[c].bundle = "signed" =>
           server[calls[c].write.job].card = "signed"
      /\ \A c \in Calls : Asks(c) => ~calls[c].shown.blocks
      /\ \A j \in Jobs : server[j].card = "signed" => server[j].row.state = "signed_off"
      /\ \A j \in Jobs : bundle[j] = "signed" => server[j].card = "signed"
  BY <1>1 DEF Mirrors, Unblocked, SealsEnd
(* What touches neither a state, nor what waits, nor a call.               *)
<1>4. ASSUME list' = list, cached' = cached, Waiting' = Waiting, calls' = calls,
             \A j \in Jobs :
               /\ server'[j].row = server[j].row /\ server'[j].card = server[j].card
               /\ bundle'[j] = "signed" => server[j].card = "signed"
      PROVE  Mirrors'
  <2>1. \A c \in Calls : (Asks(c)' <=> Asks(c)) /\ (Answered(c)' <=> Answered(c))
    BY <1>4 DEF Asks, Answered
  <2>2. \A c \in Calls : Asks(c) => calls[c].write.job \in Jobs
    BY <1>1, WriteFacts DEF Write
  <2> QED
    BY <1>1, <1>2, <1>3, <1>4, <2>1, <2>2, StillMirrors
<1>5. CASE UNCHANGED outboxVars
  <2>1. Waiting' = Waiting
    BY <1>5 DEF outboxVars, Waiting, Recorded
  <2> QED
    BY <1>3, <1>4, <1>5, <2>1 DEF outboxVars
<1>6. ASSUME NEW j \in Jobs, Recall(j)
      PROVE  Mirrors'
  <2>1. Waiting' = Waiting
    BY <1>6 DEF Recall, Waiting, Recorded
  <2>2. \A i \in Jobs : server'[i].row = server[i].row /\ server'[i].card = server[i].card
    BY <1>1, <1>6, TypesOut DEF Recall, ServerRow
  <2> QED
    BY <1>3, <1>4, <1>6, <2>1, <2>2 DEF Recall
<1>7. ASSUME NEW j \in Jobs, CardFetched(j)
      PROVE  Mirrors'
  <2>1. Waiting' = Waiting
    BY <1>7 DEF CardFetched, Waiting, Recorded
  <2>2. \A i \in Jobs : bundle'[i] = "signed" => server[i].card = "signed"
    BY <1>1, <1>3, <1>7, TypesOut DEF CardFetched, BundleOf
  <2> QED
    BY <1>4, <1>7, <2>1, <2>2 DEF CardFetched
<1>8. ASSUME NEW c \in Calls, RpcLost(c)
      PROVE  Mirrors'
  <2>1. /\ calls' = [calls EXCEPT ![c] = [calls[c] EXCEPT !.reply = "lost"]]
        /\ calls[c] \in CallRec /\ Asks(c) /\ calls[c].reply = "none"
    BY <1>1, <1>8, CallsTyped DEF RpcLost, Typed, Asks
  <2>2. /\ calls'[c].write = calls[c].write /\ calls'[c].reply = "lost"
        /\ calls'[c].shown = calls[c].shown /\ calls'[c].bundle = calls[c].bundle
        /\ \A e \in Calls : e = c
    BY <1>1, <2>1, TypesOut DEF CallRec, Plain
  <2>3. \A e \in Calls : ~Answered(e) /\ ~Answered(e)'
    BY <2>1, <2>2 DEF Answered
  <2>4. Waiting' = Waiting
    BY <1>8 DEF RpcLost, Waiting, Recorded
  <2> QED
    BY <1>1, <1>2, <1>3, <1>8, <2>1, <2>2, <2>3, <2>4, StillMirrors DEF RpcLost
<1>9. ASSUME NEW d \in Drains, ReplayStart(d) \/ ReplayRecord(d) \/ ReplayCut(d)
      PROVE  Mirrors'
  <2>1. Waiting' = Waiting
    BY <1>1, <1>9, ReplayEdgeWaits, ReplayRecordWaits
  <2>2. /\ list' = list /\ cached' = cached /\ calls' = calls /\ server' = server
        /\ bundle' = bundle
    BY <1>9 DEF ReplayStart, ReplayRecord, ReplayCut
  <2> QED
    BY <1>3, <1>4, <2>1, <2>2
<1>10. ~KillApp /\ ~ListServed /\ ~ListDone
  BY <1>1 DEF KillApp, ListServed, ListDone, Plain, Listless, Mirrors
<1> QED
  BY <1>2, <1>5, <1>6, <1>7, <1>8, <1>9, <1>10,
     TapMirrors, RpcServedMirrors, RpcDoneMirrors, ReplayServedMirrors
     DEF OutboxNext

(* "The screen and the cached list agree with what the server will do when *)
(* the queue drains" (outbox.ts): under the same conditions, where no list *)
(* read earlier arrives and no pause hands a job back, the screen of a job *)
(* with nothing under way shows the server's state of it.                  *)
THEOREM ShowsWhatIsThere ==
  ASSUME Plain, Listless
  PROVE  OutboxSpec /\ []Resumable => []MirrorAgrees
<1>1. ASSUME MirrorInv
      PROVE  MirrorAgrees
  <2> SUFFICES ASSUME NEW j \in Jobs, JobAtRest(j)
               PROVE  cached[j].state = StateOf(server[j].row)
    BY DEF MirrorAgrees
  <2>1. \A w \in Waiting : w.job # j
    BY DEF JobAtRest, Waiting
  <2>2. Heard(j)
    BY DEF JobAtRest, Quiet, Heard, Answered, Asks
  <2>3. ShowsServer(j) \/ ShowsLast(j)
    BY <1>1, <2>2 DEF MirrorInv, Mirrors, Mirrored
  <2> QED
    BY <2>1, <2>3 DEF ShowsServer, ShowsLast
<1>2. MirrorInv => MirrorAgrees
  BY <1>1
<1>3. OutboxInit => MirrorInv
  BY InitMirrors
<1>4. MirrorInv /\ Resumable /\ [OutboxNext]_outboxVars => MirrorInv'
  BY NextMirrors
<1> QED
  BY <1>2, <1>3, <1>4, PTL DEF OutboxSpec
===============================================================================
