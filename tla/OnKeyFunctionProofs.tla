-------------------------- MODULE OnKeyFunctionProofs --------------------------
(***************************************************************************)
(* No session with OnKey outlives its invocation but by a fault, and each  *)
(* try books a costing line once at the most: for any number of            *)
(* invocations, costings, lines and faults.                                *)
(*                                                                         *)
(* A try is counted when a run sets out to send a costing, and a line is   *)
(* booked later, after a logon, a call and perhaps one repetition; other   *)
(* runs may have the same costing in hand.  Trying(c) are the invocations  *)
(* in between, and the invariant counts them: what is booked and what is   *)
(* under way together never exceed what was sent (TriesCounted).  That     *)
(* holds because a call is repeated only after one that OnKey turned away. *)
(***************************************************************************)
EXTENDS OnKeyFunction, FiniteSetTheorems, WellFoundedInduction, TLAPS

Steps == {"new", "logon", "call", "store", "fetch", "record", "finish", "bye", "logoff", "done"}
Todos == UNION {[D -> Nat] : D \in SUBSET Cards}

Invocation ==
  [step : Steps, action : Actions \cup {"none"}, session : Nat, logons : Nat,
   retried : BOOLEAN, todo : Todos, rows : SUBSET Report, refresh : BOOLEAN,
   result : {"succeeded", "failed"}, run : {"none", "open", "succeeded", "failed"}]

FunctionTypeOK ==
  /\ fn \in [Invocations -> Invocation]
  /\ sessions \subseteq Invocations \X (Nat \ {0}) /\ strays \subseteq Invocations \X Nat
  /\ parked \subseteq Report \cup {Wsdl} /\ tasks \subseteq Report
  /\ queued \in [Cards -> [state : {"pending", "failed", "sent", "dead_letter"},
                              attempts : Nat]]
  /\ booked \in [Cards -> [Lines -> Nat]] /\ sent \in [Cards -> Nat]

\* A drain that is about to log on, to call or to write an outcome has a costing in hand, and
\* no session is held and no call repeated before the first step.
Working ==
  \A i \in Invocations :
    /\ fn[i].step = "new" => fn[i].session = 0 /\ ~fn[i].retried
    /\ fn[i].action = "drain" /\ fn[i].step \in {"logon", "call", "record"}
         => DOMAIN fn[i].todo # {}
    /\ fn[i].step = "record" => fn[i].action = "drain"
    /\ fn[i].step = "store" => fn[i].action # "drain"

UnderWay(f) == f.action = "drain" /\ (f.step = "call" \/ (f.step = "logon" /\ f.retried))
Trying(c)   == {i \in Invocations : UnderWay(fn[i]) /\ Current(i) = c}

TriesCounted ==
  \A c \in Cards, l \in Lines : booked[c][l] + Cardinality(Trying(c)) <= sent[c]

IInv == FunctionTypeOK /\ Working /\ LogsOff /\ TriesCounted

-----------------------------------------------------------------------------
(* Operators.                                                              *)
LEMMA MinIn ==
  ASSUME NEW S \in SUBSET Nat, S # {}
  PROVE  Min(S) \in S
<1> DEFINE Upto == {1 .. n : n \in S}
<1>1. Upto \subseteq FiniteSubsetsOf(Nat) /\ Upto # {}
  <2>1. \A n \in S : IsFiniteSet(1 .. n) /\ 1 .. n \subseteq Nat
    BY FS_Interval
  <2> QED
    BY <2>1 DEF FiniteSubsetsOf
<1>2. PICK least \in Upto : \A m \in Upto : <<m, least>> \notin StrictSubsetOrdering(Nat)
  BY <1>1, FS_StrictSubsetOrderingWellFounded, WFMin
<1>3. PICK n \in S : least = 1 .. n
  OBVIOUS
<1>4. ASSUME NEW m \in S, m < n
      PROVE  FALSE
  <2>1. 1 .. m \subseteq 1 .. n /\ 1 .. m \subseteq Nat /\ 1 .. n \subseteq Nat
        /\ n \in 1 .. n /\ n \notin 1 .. m
    BY <1>4
  <2>2. <<1 .. m, 1 .. n>> \in StrictSubsetOrdering(Nat)
    BY <2>1, Zenon DEF StrictSubsetOrdering
  <2>3. 1 .. m \in Upto
    OBVIOUS
  <2> QED
    BY <1>2, <1>3, <2>2, <2>3
<1>5. \A m \in S : n <= m
  BY <1>4
<1> QED
  BY <1>5 DEF Min

LEMMA TodoIs ==
  ASSUME NEW D \in SUBSET Cards, NEW f \in [D -> Nat]
  PROVE  f \in Todos
BY DEF Todos

LEMMA TodoHas ==
  ASSUME NEW f \in Todos
  PROVE  DOMAIN f \in SUBSET Cards /\ f \in [DOMAIN f -> Nat]
BY DEF Todos
-----------------------------------------------------------------------------
(* An invocation takes a step.                                             *)

\* What an invocation f adds to the tries of c that are under way.
Weight(f, c) == IF UnderWay(f) /\ Min(DOMAIN f.todo) = c THEN 1 ELSE 0

LEMMA Recount ==
  ASSUME fn \in [Invocations -> Invocation], IsFiniteSet(Invocations),
         NEW i \in Invocations, NEW g \in Invocation, Becomes(i, g), NEW c
  PROVE  /\ Cardinality(Trying(c)) \in Nat
         /\ Cardinality(Trying(c)') = Cardinality(Trying(c)) + Weight(g, c) - Weight(fn[i], c)
<1> DEFINE Others == {j \in Invocations \ {i} : UnderWay(fn[j]) /\ Current(j) = c}
<1>1. IsFiniteSet(Others) /\ Cardinality(Others) \in Nat
  BY FS_Subset, FS_CardinalityType
<1>2. ASSUME NEW T, NEW f \in Invocation, T = IF Weight(f, c) = 1 THEN Others \cup {i} ELSE Others
      PROVE  Cardinality(T) = Cardinality(Others) + Weight(f, c)
  <2>1. i \notin Others /\ Weight(f, c) \in {0, 1}
    BY DEF Weight
  <2>2. Cardinality(Others \cup {i}) = Cardinality(Others) + 1
    BY <1>1, <2>1, FS_AddElement
  <2> QED
    BY <1>1, <1>2, <2>1, <2>2
<1>3. Trying(c) = IF Weight(fn[i], c) = 1 THEN Others \cup {i} ELSE Others
  BY DEF Trying, Weight, Current
<1>4. Trying(c)' = IF Weight(g, c) = 1 THEN Others \cup {i} ELSE Others
  <2>1. fn'[i] = g /\ \A j \in Invocations \ {i} : fn'[j] = fn[j]
    BY DEF Becomes
  <2> QED
    BY <2>1 DEF Trying, Weight, Current, UnderWay
<1>5. fn[i] \in Invocation /\ Weight(g, c) \in {0, 1} /\ Weight(fn[i], c) \in {0, 1}
  BY DEF Weight
<1>6. Cardinality(Trying(c)) = Cardinality(Others) + Weight(fn[i], c)
  BY <1>2, <1>3, <1>5
<1>7. Cardinality(Trying(c)') = Cardinality(Others) + Weight(g, c)
  BY <1>2, <1>4
<1> QED
  BY <1>1, <1>5, <1>6, <1>7

LEMMA Balance ==
  ASSUME IInv, IsFiniteSet(Invocations),
         NEW i \in Invocations, NEW g \in Invocation, Becomes(i, g),
         booked' \in [Cards -> [Lines -> Nat]], sent' \in [Cards -> Nat],
         \A c \in Cards, l \in Lines :
           booked'[c][l] + Weight(g, c) + sent[c] <= booked[c][l] + Weight(fn[i], c) + sent'[c]
  PROVE  TriesCounted'
<1> SUFFICES ASSUME NEW c \in Cards, NEW l \in Lines
             PROVE  booked'[c][l] + Cardinality(Trying(c)') <= sent'[c]
  BY DEF TriesCounted
<1>1. /\ Cardinality(Trying(c)) \in Nat
      /\ Cardinality(Trying(c)') = Cardinality(Trying(c)) + Weight(g, c) - Weight(fn[i], c)
  BY Recount DEF IInv, FunctionTypeOK
<1>2. Weight(g, c) \in {0, 1} /\ Weight(fn[i], c) \in {0, 1}
  BY DEF Weight
<1>3. /\ booked[c][l] \in Nat /\ sent[c] \in Nat /\ booked'[c][l] \in Nat /\ sent'[c] \in Nat
      /\ booked[c][l] + Cardinality(Trying(c)) <= sent[c]
  BY DEF IInv, FunctionTypeOK, TriesCounted
<1> QED
  BY <1>1, <1>2, <1>3

\* A step that books and counts nothing, and starts no try.
LEMMA Aside ==
  ASSUME IInv, IsFiniteSet(Invocations),
         NEW i \in Invocations, NEW g \in Invocation, Becomes(i, g),
         UnderWay(g) => UnderWay(fn[i]) /\ g.todo = fn[i].todo,
         UNCHANGED <<booked, sent>>
  PROVE  TriesCounted'
<1>1. \A c : Weight(g, c) <= Weight(fn[i], c) /\ Weight(g, c) \in {0, 1} /\ Weight(fn[i], c) \in {0, 1}
  BY DEF Weight
<1>2. booked \in [Cards -> [Lines -> Nat]] /\ sent \in [Cards -> Nat]
  BY DEF IInv, FunctionTypeOK
<1> QED
  BY <1>1, <1>2, Balance

LEMMA Owned ==
  ASSUME IInv, NEW i \in Invocations, NEW g \in Invocation, Becomes(i, g),
         sessions' \subseteq Invocations \X (Nat \ {0}),
         \A s \in sessions' \ strays' : s[1] # i => s \in sessions \ strays,
         \A s \in sessions' \ strays' : s[1] = i => s[2] = g.session /\ g.step # "done"
  PROVE  LogsOff'
<1>1. fn'[i] = g /\ \A j \in Invocations \ {i} : fn'[j] = fn[j]
  BY DEF Becomes, IInv, FunctionTypeOK
<1> QED
  BY <1>1 DEF LogsOff, IInv

LEMMA Works ==
  ASSUME IInv, NEW i \in Invocations, NEW g \in Invocation, Becomes(i, g),
         g.step # "new", g.step = "record" => g.action = "drain",
         g.step = "store" => g.action # "drain",
         g.action = "drain" /\ g.step \in {"logon", "call", "record"} => DOMAIN g.todo # {}
  PROVE  Working' /\ fn' \in [Invocations -> Invocation]
<1>1. fn'[i] = g /\ (\A j \in Invocations \ {i} : fn'[j] = fn[j]) /\ fn' \in [Invocations -> Invocation]
  BY DEF Becomes, IInv, FunctionTypeOK
<1> QED
  BY <1>1 DEF IInv, Working

\* A step that keeps the session, books nothing and starts no try.
LEMMA Quiet ==
  ASSUME IInv, IsFiniteSet(Invocations),
         NEW i \in Invocations, NEW g \in Invocation, Becomes(i, g),
         g.step # "new", g.step = "record" => g.action = "drain",
         g.step = "store" => g.action # "drain",
         g.action = "drain" /\ g.step \in {"logon", "call", "record"} => DOMAIN g.todo # {},
         UnderWay(g) => UnderWay(fn[i]) /\ g.todo = fn[i].todo,
         g.session = fn[i].session, g.step = "done" => fn[i].session = 0,
         parked' \subseteq Report \cup {Wsdl}, tasks' \subseteq Report,
         queued' \in [Cards -> [state : {"pending", "failed", "sent", "dead_letter"},
                                   attempts : Nat]],
         UNCHANGED <<sessions, booked, sent, strays>>
  PROVE  IInv'
<1>1. Working' /\ fn' \in [Invocations -> Invocation]
  BY Works
<1>2. LogsOff'
  <2>1. \A s \in sessions \ strays : s[1] = i => s[2] = g.session /\ g.step # "done"
    BY DEF IInv, FunctionTypeOK, LogsOff
  <2> QED
    BY <2>1, Owned DEF IInv, FunctionTypeOK
<1>3. TriesCounted'
  BY Aside
<1>4. FunctionTypeOK'
  BY <1>1 DEF IInv, FunctionTypeOK
<1> QED
  BY <1>1, <1>2, <1>3, <1>4 DEF IInv

LEMMA InvocationOf ==
  ASSUME IInv, NEW i \in Invocations
  PROVE  /\ fn[i] \in Invocation
         /\ DOMAIN fn[i].todo \in SUBSET Cards /\ fn[i].todo \in [DOMAIN fn[i].todo -> Nat]
<1>1. fn[i] \in Invocation
  BY DEF IInv, FunctionTypeOK
<1>2. fn[i].todo \in Todos
  BY <1>1 DEF Invocation
<1> QED
  BY <1>1, <1>2, TodoHas

LEMMA StartKeeps ==
  ASSUME IInv, IsFiniteSet(Invocations), NEW i \in Invocations, Start(i)
  PROVE  IInv'
<1> USE InvocationOf
<1>1. PICK g \in Invocation :
        /\ Becomes(i, g) /\ g.session = fn[i].session
        /\ g.step \in {"logon", "fetch", "finish", "done"} /\ g.retried = fn[i].retried
        /\ g.action = "drain" /\ g.step = "logon" => DOMAIN g.todo # {}
  <2>1. CASE Smoke(i)
    <3> DEFINE g == [Opened(i, "smoke") EXCEPT !.step = "logon"]
    <3>1. g \in Invocation
      BY DEF Opened, Invocation, Steps, Actions
    <3> QED
      BY <2>1, <3>1 DEF Smoke, Opened, Invocation
  <2>2. CASE Introspect(i)
    <3> DEFINE g == [Opened(i, "introspect") EXCEPT !.step = "fetch"]
    <3>1. g \in Invocation
      BY DEF Opened, Invocation, Steps, Actions
    <3> QED
      BY <2>2, <3>1 DEF Introspect, Opened, Invocation
  <2>3. CASE Export(i)
    <3>1. PICK refresh \in BOOLEAN :
            Becomes(i, [Opened(i, "export") EXCEPT !.step = "logon", !.refresh = refresh])
      BY <2>3 DEF Export
    <3> DEFINE g == [Opened(i, "export") EXCEPT !.step = "logon", !.refresh = refresh]
    <3>2. g \in Invocation
      BY DEF Opened, Invocation, Steps, Actions
    <3> QED
      BY <3>1, <3>2 DEF Opened, Invocation
  <2>4. CASE Drain(i)
    <3>1. PICK todo \in {[c \in Eligible |-> queued[c].attempts], <<>>} :
            Becomes(i, [Opened(i, "drain") EXCEPT !.todo = todo,
                          !.step = IF todo = <<>> THEN "finish" ELSE "logon"])
      BY <2>4 DEF Drain
    <3> DEFINE g == [Opened(i, "drain") EXCEPT !.todo = todo,
                       !.step = IF todo = <<>> THEN "finish" ELSE "logon"]
    <3>2. todo \in Todos /\ (todo # <<>> => DOMAIN todo # {})
      <4> DEFINE read == [c \in Eligible |-> queued[c].attempts]
      <4>1. Eligible \in SUBSET Cards /\ read \in [Eligible -> Nat]
        BY DEF Eligible, IInv, FunctionTypeOK
      <4>2. <<>> \in [{} -> Nat] /\ \A f \in [{} -> Nat] : f = <<>>
        OBVIOUS
      <4>3. read \in Todos /\ <<>> \in Todos
        BY <4>1, <4>2, TodoIs
      <4>4. read # <<>> => DOMAIN read # {}
        BY <4>1, <4>2
      <4> QED
        BY <4>3, <4>4
    <3>3. g \in Invocation
      BY <3>2 DEF Opened, Invocation, Steps, Actions
    <3> QED
      BY <3>1, <3>2, <3>3 DEF Opened, Invocation
  <2>5. CASE \E run \in {"none", "open"} : Becomes(i, [fn[i] EXCEPT !.step = "done", !.run = run])
    <3>1. PICK run \in {"none", "open"} : Becomes(i, [fn[i] EXCEPT !.step = "done", !.run = run])
      BY <2>5
    <3> DEFINE g == [fn[i] EXCEPT !.step = "done", !.run = run]
    <3>2. g \in Invocation
      BY DEF Invocation, Steps
    <3> QED
      BY <3>1, <3>2 DEF Invocation
  <2> QED
    BY <2>1, <2>2, <2>3, <2>4, <2>5 DEF Start
<1>2. fn[i].session = 0 /\ ~fn[i].retried
  BY DEF Start, IInv, Working
<1> QED
  BY <1>1, <1>2, Quiet DEF Start, UnderWay, IInv, FunctionTypeOK

LEMMA CurrentIs ==
  ASSUME IInv, Cards \in SUBSET Nat, NEW i \in Invocations,
         fn[i].action = "drain", fn[i].step \in {"logon", "call", "record"}
  PROVE  Current(i) \in DOMAIN fn[i].todo /\ Current(i) \in Cards
<1>1. DOMAIN fn[i].todo \in SUBSET Nat /\ DOMAIN fn[i].todo # {}
  BY InvocationOf DEF IInv, Working
<1> QED
  BY <1>1, MinIn, InvocationOf DEF Current

LEMMA Counted ==
  ASSUME IInv, Cards \in SUBSET Nat, NEW i \in Invocations, fn[i].step = "logon", Count(i)
  PROVE  /\ sent' \in [Cards -> Nat]
         /\ \A c \in Cards :
              sent'[c] = IF Sends(i) /\ Current(i) = c THEN sent[c] + 1 ELSE sent[c]
<1>1. sent \in [Cards -> Nat]
  BY DEF IInv, FunctionTypeOK
<1>2. CASE Sends(i)
  <2>1. Current(i) \in Cards
    BY <1>2, CurrentIs DEF Sends
  <2>2. PICK cur \in Cards : cur = Current(i) /\ sent' = [sent EXCEPT ![cur] = @ + 1]
    BY <1>2, <2>1 DEF Count
  <2>3. sent' \in [Cards -> Nat]
    BY <1>1, <2>2
  <2>4. \A c \in Cards : sent'[c] = IF cur = c THEN sent[c] + 1 ELSE sent[c]
    BY <1>1, <2>2
  <2> QED
    BY <1>2, <2>2, <2>3, <2>4
<1>3. CASE ~Sends(i)
  BY <1>1, <1>3 DEF Count
<1> QED
  BY <1>2, <1>3

\* A logon of a drain starts a try, or carries on the one that is being repeated.
LEMMA LogonStarts ==
  ASSUME IInv, IsFiniteSet(Invocations), Cards \in SUBSET Nat, NEW i \in Invocations,
         fn[i].step = "logon", Count(i),
         NEW g \in Invocation, Becomes(i, g), g.todo = fn[i].todo, g.action = fn[i].action,
         g.step \in {"bye", "call"}, fn[i].action = "drain" => g.step = "call",
         UNCHANGED <<parked, tasks, queued, booked>>,
         sessions' \subseteq Invocations \X (Nat \ {0}), UNCHANGED strays,
         \A s \in sessions' \ strays' : s[1] # i => s \in sessions \ strays,
         \A s \in sessions' \ strays' : s[1] = i => s[2] = g.session
  PROVE  IInv'
<1>1. Working' /\ fn' \in [Invocations -> Invocation]
  BY Works DEF IInv, Working
<1>2. LogsOff'
  BY Owned
<1>3. TriesCounted'
  <2>1. ASSUME NEW c \in Cards, NEW l \in Lines
        PROVE  booked'[c][l] + Weight(g, c) + sent[c] <= booked[c][l] + Weight(fn[i], c) + sent'[c]
    <3>1. Weight(g, c) + sent[c] <= Weight(fn[i], c) + sent'[c]
      <4>1. Weight(g, c) \in {0, 1} /\ Weight(fn[i], c) \in {0, 1} /\ sent[c] \in Nat /\ sent'[c] \in Nat
        BY Counted DEF Weight, IInv, FunctionTypeOK
      <4>2. CASE Sends(i)
        BY <4>1, <4>2, Counted DEF Weight, UnderWay, Current, Sends
      <4>3. CASE ~Sends(i)
        <5>1. UnderWay(g) => UnderWay(fn[i])
          BY <4>3, Zenon DEF UnderWay, Sends
        <5>2. Weight(g, c) <= Weight(fn[i], c)
          BY <5>1 DEF Weight
        <5> QED
          BY <4>1, <4>3, <5>2, Counted
      <4> QED
        BY <4>2, <4>3
    <3>2. booked'[c][l] = booked[c][l] /\ booked[c][l] \in Nat /\ sent[c] \in Nat /\ sent'[c] \in Nat
          /\ Weight(g, c) \in Nat /\ Weight(fn[i], c) \in Nat
      BY Counted DEF IInv, FunctionTypeOK, Weight
    <3> QED
      BY <3>1, <3>2
  <2> QED
    BY <2>1, Counted, Balance DEF IInv, FunctionTypeOK
<1>4. FunctionTypeOK'
  BY <1>1, Counted DEF IInv, FunctionTypeOK
<1> QED
  BY <1>1, <1>2, <1>3, <1>4 DEF IInv

\* An exception ends the try, if there was one.
LEMMA ThrownTo ==
  ASSUME NEW f \in Invocation
  PROVE  /\ Thrown(f) \in Invocation /\ Thrown(f).session = f.session
         /\ Thrown(f).todo = f.todo /\ Thrown(f).action = f.action
         /\ Thrown(f).step \in {"record", "finish"}
         /\ Thrown(f).step = "record" <=> f.action = "drain"
BY DEF Thrown, Invocation, Steps

LEMMA LogonFails ==
  ASSUME IInv, IsFiniteSet(Invocations), Cards \in SUBSET Nat, NEW i \in Invocations, fn[i].step = "logon", Count(i),
         NEW n \in Nat, Becomes(i, Thrown([fn[i] EXCEPT !.logons = n])), fn[i].session = 0,
         UNCHANGED <<parked, tasks, queued, booked>>,
         NEW reached \in {{}, {<<i, n>>}}, n # 0,
         sessions' = sessions \cup reached, strays' = strays \cup reached
  PROVE  IInv'
<1>1. [fn[i] EXCEPT !.logons = n] \in Invocation
  BY InvocationOf DEF Invocation
<1> DEFINE g == Thrown([fn[i] EXCEPT !.logons = n])
<1>2. /\ Becomes(i, g) /\ g \in Invocation /\ g.session = 0 /\ g.todo = fn[i].todo /\ g.action = fn[i].action
      /\ g.step \in {"record", "finish"} /\ (g.step = "record" <=> g.action = "drain")
  BY <1>1, ThrownTo, InvocationOf DEF Invocation
<1> HIDE DEF g
<1>3. Working' /\ fn' \in [Invocations -> Invocation]
  BY <1>2, Works DEF IInv, Working
<1>4. sessions' \subseteq Invocations \X (Nat \ {0}) /\ strays' \subseteq Invocations \X Nat
  BY DEF IInv, FunctionTypeOK
<1>5. LogsOff'
  <2>1. \A s \in sessions' \ strays' : s \in sessions \ strays /\ s[1] # i
    BY DEF IInv, FunctionTypeOK, LogsOff
  <2> QED
    BY <1>2, <1>4, <2>1, Owned
<1>6. TriesCounted'
  <2>1. \A c : Weight(g, c) = 0 /\ Weight(fn[i], c) \in {0, 1}
    BY <1>2 DEF Weight, UnderWay
  <2>2. ASSUME NEW c \in Cards, NEW l \in Lines
        PROVE  booked'[c][l] + Weight(g, c) + sent[c] <= booked[c][l] + Weight(fn[i], c) + sent'[c]
    BY <2>1, Counted DEF IInv, FunctionTypeOK
  <2> QED
    BY <1>2, <2>2, Counted, Balance DEF IInv, FunctionTypeOK
<1>7. FunctionTypeOK'
  BY <1>3, <1>4, Counted DEF IInv, FunctionTypeOK
<1> QED
  BY <1>3, <1>5, <1>6, <1>7 DEF IInv

\* The invocation once it holds the id of a session.
LEMMA OnwardsTo ==
  ASSUME NEW f \in Invocation
  PROVE  /\ OnwardsFrom(f) \in Invocation /\ OnwardsFrom(f).session = f.session
         /\ OnwardsFrom(f).todo = f.todo /\ OnwardsFrom(f).action = f.action
         /\ OnwardsFrom(f).step \in {"bye", "call"}
         /\ f.action = "drain" => OnwardsFrom(f).step = "call"
BY DEF OnwardsFrom, Invocation, Steps

LEMMA LogonKeeps ==
  ASSUME IInv, IsFiniteSet(Invocations), Cards \in SUBSET Nat, NEW i \in Invocations, Logon(i)
  PROVE  IInv'
<1> DEFINE n == fn[i].logons + 1
<1>1. n \in Nat \ {0} /\ fn[i].session \in Nat /\ fn[i].logons \in Nat
  BY InvocationOf DEF Invocation
<1>2. /\ fn[i].step = "logon" /\ UNCHANGED <<parked, tasks, queued, booked>>
      /\ \A s \in sessions : s[2] # 0
  BY DEF Logon, IInv, FunctionTypeOK
<1> HIDE DEF n
<1>3. CASE fn[i].session # 0 /\ UNCHANGED sessions
  <2>1. UNCHANGED <<sessions, strays>> /\ Becomes(i, OnwardsFrom(fn[i])) /\ Count(i)
    BY <1>3 DEF Logon
  <2>2. /\ sessions \subseteq Invocations \X (Nat \ {0})
        /\ \A s \in sessions \ strays : s[1] = i => s[2] = fn[i].session
    BY DEF IInv, FunctionTypeOK, LogsOff
  <2> DEFINE g == OnwardsFrom(fn[i])
  <2>3. /\ Becomes(i, g) /\ g \in Invocation /\ g.session = fn[i].session /\ g.todo = fn[i].todo
        /\ g.action = fn[i].action /\ g.step \in {"bye", "call"}
        /\ fn[i].action = "drain" => g.step = "call"
    BY <2>1, InvocationOf, OnwardsTo
  <2> HIDE DEF g
  <2>4. \A s \in sessions' \ strays' : s[1] # i => s \in sessions \ strays
    BY <2>1
  <2> QED
    BY <1>2, <2>1, <2>2, <2>3, <2>4, LogonStarts
<1>4. CASE /\ fn[i].session = 0
           /\ Becomes(i, OnwardsFrom([fn[i] EXCEPT !.session = n, !.logons = n]))
           /\ Count(i) /\ sessions' = sessions \cup {<<i, n>>} /\ UNCHANGED strays
  <2>1. sessions' \subseteq Invocations \X (Nat \ {0})
    BY <1>1, <1>4 DEF IInv, FunctionTypeOK
  <2>2. \A s \in sessions' \ strays : s[1] = i => s[2] = n
    BY <1>2, <1>4 DEF IInv, LogsOff
  <2>3. \A s \in sessions' \ strays : s[1] # i => s \in sessions \ strays
    BY <1>4
  <2> DEFINE f == [fn[i] EXCEPT !.session = n, !.logons = n]
             g == OnwardsFrom(f)
  <2>4. Becomes(i, g)
    BY <1>4
  <2>5. f \in Invocation /\ f.session = n /\ f.todo = fn[i].todo /\ f.action = fn[i].action
    BY <1>1, InvocationOf DEF Invocation
  <2> HIDE DEF f
  <2>6. /\ g \in Invocation /\ g.session = n /\ g.todo = fn[i].todo
        /\ g.action = fn[i].action /\ g.step \in {"bye", "call"}
        /\ fn[i].action = "drain" => g.step = "call"
    BY <2>5, OnwardsTo
  <2> HIDE DEF g
  <2> QED
    BY <1>2, <1>4, <2>1, <2>2, <2>3, <2>4, <2>6, LogonStarts
<1>5. CASE /\ fn[i].session = 0
           /\ \E reached \in {{}, {<<i, n>>}} :
                sessions' = sessions \cup reached /\ strays' = strays \cup reached
           /\ Becomes(i, Thrown([fn[i] EXCEPT !.logons = n])) /\ Count(i)
  BY <1>1, <1>2, <1>5, LogonFails
<1> QED
  BY <1>3, <1>4, <1>5 DEF Logon, n

\* The answer of an import, or an answer that is lost, ends the try with each line booked once.
LEMMA ImportEnds ==
  ASSUME IInv, IsFiniteSet(Invocations), Cards \in SUBSET Nat, NEW i \in Invocations,
         fn[i].step = "call", fn[i].action = "drain",
         NEW taken \in SUBSET Lines, Book(i, taken),
         NEW g \in Invocation, Becomes(i, g), g.session = fn[i].session, g.todo = fn[i].todo,
         g.action = fn[i].action, g.step = "record",
         UNCHANGED <<sessions, parked, tasks, queued, sent, strays>>
  PROVE  IInv'
<1>1. Working' /\ fn' \in [Invocations -> Invocation]
  BY Works DEF IInv, Working
<1>2. LogsOff'
  <2>1. \A s \in sessions \ strays : s[1] = i => s[2] = g.session
    BY DEF IInv, LogsOff
  <2> QED
    BY <2>1, Owned DEF IInv, FunctionTypeOK
<1>3. PICK cur \in Cards :
        cur = Current(i) /\ booked' = [booked EXCEPT ![cur] =
                                         [l \in Lines |-> IF l \in taken THEN @[l] + 1 ELSE @[l]]]
  BY CurrentIs DEF Book
<1>4. booked \in [Cards -> [Lines -> Nat]] /\ sent \in [Cards -> Nat]
  BY DEF IInv, FunctionTypeOK
<1>5. booked' \in [Cards -> [Lines -> Nat]]
  BY <1>3, <1>4
<1>6. TriesCounted'
  <2>1. ASSUME NEW c \in Cards, NEW l \in Lines
        PROVE  booked'[c][l] + Weight(g, c) + sent[c] <= booked[c][l] + Weight(fn[i], c) + sent'[c]
    <3>1. Weight(g, c) = 0 /\ Weight(fn[i], c) = IF cur = c THEN 1 ELSE 0
      BY <1>3 DEF Weight, UnderWay, Current
    <3>2. booked'[c][l] <= booked[c][l] + IF cur = c THEN 1 ELSE 0
      BY <1>3, <1>4
    <3>3. booked'[c][l] \in Nat /\ booked[c][l] \in Nat /\ sent[c] \in Nat /\ sent'[c] = sent[c]
      BY <1>4, <1>5
    <3> QED
      BY <3>1, <3>2, <3>3
  <2> QED
    BY <1>4, <1>5, <2>1, Balance
<1>7. FunctionTypeOK'
  BY <1>1, <1>5 DEF IInv, FunctionTypeOK
<1> QED
  BY <1>1, <1>2, <1>6, <1>7 DEF IInv

\* A call that is turned away is repeated: the try goes on without its session.
LEMMA RetryKeeps ==
  ASSUME IInv, IsFiniteSet(Invocations), NEW i \in Invocations, fn[i].step = "call",
         Expired(i), ~fn[i].retried,
         NEW g \in Invocation, Becomes(i, g), g.session = 0, g.todo = fn[i].todo,
         g.action = fn[i].action, g.step = "logon",
         UNCHANGED <<sessions, parked, tasks, queued, booked, sent, strays>>
  PROVE  IInv'
<1>1. Working' /\ fn' \in [Invocations -> Invocation]
  BY Works DEF IInv, Working
<1>2. LogsOff'
  <2>1. \A s \in sessions \ strays : s[1] # i
    <3> SUFFICES ASSUME NEW s \in sessions \ strays, s[1] = i PROVE FALSE
      OBVIOUS
    <3>1. s = <<s[1], s[2]>>
      BY DEF IInv, FunctionTypeOK
    <3>2. s[2] = fn[i].session
      BY DEF IInv, LogsOff
    <3> QED
      BY <3>1, <3>2 DEF Expired
  <2> QED
    BY <2>1, Owned DEF IInv, FunctionTypeOK
<1>3. TriesCounted'
  BY Aside DEF UnderWay
<1>4. FunctionTypeOK'
  BY <1>1 DEF IInv, FunctionTypeOK
<1> QED
  BY <1>1, <1>2, <1>3, <1>4 DEF IInv

LEMMA CallKeeps ==
  ASSUME IInv, IsFiniteSet(Invocations), Cards \in SUBSET Nat, NEW i \in Invocations, Call(i)
  PROVE  IInv'
<1>1. fn[i].step = "call" /\ UNCHANGED <<sessions, parked, tasks, queued, sent, strays>>
  BY DEF Call
<1>2. fn[i] \in Invocation /\ parked \subseteq Report \cup {Wsdl} /\ tasks \subseteq Report
      /\ queued \in [Cards -> [state : {"pending", "failed", "sent", "dead_letter"},
                                  attempts : Nat]]
      /\ (fn[i].action = "drain" => DOMAIN fn[i].todo # {})
  BY <1>1, InvocationOf DEF IInv, FunctionTypeOK, Working
<1>3. ASSUME Becomes(i, Thrown(fn[i])), UNCHANGED booked
      PROVE  IInv'
  <2> DEFINE g == Thrown(fn[i])
  <2>1. /\ g \in Invocation /\ Becomes(i, g) /\ g.session = fn[i].session /\ g.todo = fn[i].todo
        /\ g.action = fn[i].action /\ g.step \in {"record", "finish"}
        /\ g.step = "record" <=> g.action = "drain"
    BY <1>2, <1>3, ThrownTo
  <2> HIDE DEF g
  <2>2. ~UnderWay(g)
    BY <2>1 DEF UnderWay
  <2> QED
    BY <1>1, <1>2, <1>3, <2>1, <2>2, Quiet
<1>4. CASE RetryOnce(i)
  <2>1. CASE fn[i].retried
    BY <1>3, <1>4, <2>1 DEF RetryOnce
  <2>2. CASE ~fn[i].retried
    <3> DEFINE g == [fn[i] EXCEPT !.session = 0, !.retried = TRUE, !.step = "logon"]
    <3>1. g \in Invocation /\ g.session = 0 /\ g.todo = fn[i].todo /\ g.action = fn[i].action
          /\ g.step = "logon"
      BY <1>2 DEF Invocation, Steps
    <3>2. Becomes(i, g) /\ Expired(i) /\ UNCHANGED booked
      BY <1>4, <2>2 DEF RetryOnce
    <3> HIDE DEF g
    <3> QED
      BY <1>1, <2>2, <3>1, <3>2, RetryKeeps
  <2> QED
    BY <2>1, <2>2
<1>5. CASE Import(i)
  <2>1. PICK taken \in SUBSET Lines :
          /\ Book(i, taken)
          /\ Becomes(i, [fn[i] EXCEPT !.step = "record",
                           !.result = IF taken = Lines THEN "succeeded" ELSE "failed"])
    BY <1>5 DEF Import
  <2> DEFINE g == [fn[i] EXCEPT !.step = "record",
                     !.result = IF taken = Lines THEN "succeeded" ELSE "failed"]
  <2>2. g \in Invocation /\ g.session = fn[i].session /\ g.todo = fn[i].todo
        /\ g.action = fn[i].action /\ g.step = "record"
    BY <1>2 DEF Invocation, Steps
  <2>3. Becomes(i, g) /\ fn[i].action = "drain"
    BY <1>5, <2>1 DEF Import
  <2> HIDE DEF g
  <2> QED
    BY <1>1, <2>1, <2>2, <2>3, ImportEnds
<1>6. CASE ImportLost(i)
  <2>1. PICK taken \in SUBSET Lines : Book(i, taken)
    BY <1>6 DEF ImportLost
  <2> DEFINE g == Thrown(fn[i])
  <2>2. Becomes(i, g) /\ fn[i].action = "drain"
    BY <1>6 DEF ImportLost
  <2>3. /\ g \in Invocation /\ g.session = fn[i].session /\ g.todo = fn[i].todo
        /\ g.action = fn[i].action /\ g.step = "record"
    BY <1>2, <2>2, ThrownTo
  <2> HIDE DEF g
  <2> QED
    BY <1>1, <2>1, <2>2, <2>3, ImportEnds
<1>7. CASE ExportData(i)
  <2>1. CASE Becomes(i, [fn[i] EXCEPT !.step = "store", !.rows = Report])
    <3> DEFINE g == [fn[i] EXCEPT !.step = "store", !.rows = Report]
    <3>1. g \in Invocation /\ g.session = fn[i].session /\ g.step = "store" /\ g.action # "drain"
          /\ ~UnderWay(g)
      BY <1>2, <1>7 DEF Invocation, Steps, UnderWay, ExportData
    <3>2. Becomes(i, g) /\ UNCHANGED booked
      BY <1>7, <2>1 DEF ExportData
    <3> HIDE DEF g
    <3> QED
      BY <1>1, <1>2, <3>1, <3>2, Quiet
  <2>2. CASE Becomes(i, [fn[i] EXCEPT !.step = "logoff"])
    <3> DEFINE g == [fn[i] EXCEPT !.step = "logoff"]
    <3>1. g \in Invocation /\ g.session = fn[i].session /\ g.step = "logoff" /\ ~UnderWay(g)
      BY <1>2 DEF Invocation, Steps, UnderWay
    <3>2. Becomes(i, g) /\ UNCHANGED booked
      BY <1>7, <2>2 DEF ExportData
    <3> HIDE DEF g
    <3> QED
      BY <1>1, <1>2, <3>1, <3>2, Quiet
  <2>3. CASE Becomes(i, Thrown(fn[i]))
    BY <1>3, <1>7, <2>3 DEF ExportData
  <2> QED
    BY <1>7, <2>1, <2>2, <2>3 DEF ExportData
<1> QED
  BY <1>4, <1>5, <1>6, <1>7 DEF Call
-----------------------------------------------------------------------------
(* The other steps of an invocation.                                       *)

\* An exception outside a call.
LEMMA ThrownKeeps ==
  ASSUME IInv, IsFiniteSet(Invocations), NEW i \in Invocations, fn[i].action # "drain",
         Becomes(i, Thrown(fn[i])),
         UNCHANGED <<sessions, parked, tasks, queued, booked, sent, strays>>
  PROVE  IInv'
<1> DEFINE g == Thrown(fn[i])
<1>1. /\ g \in Invocation /\ Becomes(i, g) /\ g.session = fn[i].session /\ g.step = "finish"
      /\ g.action # "drain"
  BY InvocationOf, ThrownTo
<1> HIDE DEF g
<1> QED
  BY <1>1, Quiet DEF UnderWay, IInv, FunctionTypeOK

\* Only the step and what the properties do not speak of change.
LEMMA StepKeeps ==
  ASSUME IInv, IsFiniteSet(Invocations), NEW i \in Invocations, NEW g \in Invocation,
         Becomes(i, g), g.session = fn[i].session, g.step \in {"store", "finish", "logoff"},
         g.step = "store" => g.action # "drain",
         parked' \subseteq Report \cup {Wsdl}, tasks' \subseteq Report,
         UNCHANGED <<sessions, queued, booked, sent, strays>>
  PROVE  IInv'
BY Quiet DEF UnderWay, IInv, FunctionTypeOK

LEMMA ParkKeeps ==
  ASSUME IInv, IsFiniteSet(Invocations), NEW i \in Invocations, Park(i)
  PROVE  IInv'
<1>1. fn[i].step = "store" /\ fn[i].action # "drain"
      /\ UNCHANGED <<sessions, tasks, queued, booked, sent, strays>>
      /\ fn[i] \in Invocation /\ parked \subseteq Report \cup {Wsdl} /\ tasks \subseteq Report
  BY InvocationOf DEF Park, IInv, Working, FunctionTypeOK
<1>2. CASE \E bite \in Bites(fn[i].rows) :
             parked' = parked \cup bite /\ Becomes(i, [fn[i] EXCEPT !.rows = @ \ bite])
  <2>1. PICK bite \in Bites(fn[i].rows) :
             parked' = parked \cup bite /\ Becomes(i, [fn[i] EXCEPT !.rows = @ \ bite])
    BY <1>2
  <2>2. bite \subseteq Report
    BY <1>1 DEF Bites, Invocation
  <2> DEFINE g == [fn[i] EXCEPT !.rows = @ \ bite]
  <2>3. Becomes(i, g) /\ g \in Invocation /\ g.session = fn[i].session /\ g.step = "store"
        /\ g.action # "drain"
    BY <1>1, <2>1 DEF Invocation
  <2> HIDE DEF g
  <2> QED
    BY <1>1, <2>1, <2>2, <2>3, StepKeeps
<1>3. CASE Becomes(i, Thrown(fn[i])) /\ UNCHANGED parked
  BY <1>1, <1>3, ThrownKeeps
<1> QED
  BY <1>2, <1>3 DEF Park

LEMMA FoldKeeps ==
  ASSUME IInv, IsFiniteSet(Invocations), NEW i \in Invocations, Fold(i)
  PROVE  IInv'
<1>1. fn[i].step = "store" /\ fn[i].action # "drain"
      /\ UNCHANGED <<sessions, parked, queued, booked, sent, strays>>
      /\ fn[i] \in Invocation /\ parked \subseteq Report \cup {Wsdl} /\ tasks \subseteq Report
  BY InvocationOf DEF Fold, IInv, Working, FunctionTypeOK
<1>2. CASE /\ tasks' = IF fn[i].refresh THEN tasks \cup (parked \cap Report) ELSE tasks
           /\ Becomes(i, [fn[i] EXCEPT !.step = "finish"])
  <2> DEFINE g == [fn[i] EXCEPT !.step = "finish"]
  <2>1. Becomes(i, g) /\ g \in Invocation /\ g.session = fn[i].session /\ g.step = "finish"
    BY <1>1, <1>2 DEF Invocation, Steps
  <2> HIDE DEF g
  <2>2. tasks' \subseteq Report
    BY <1>1, <1>2
  <2> QED
    BY <1>1, <2>1, <2>2, StepKeeps
<1>3. CASE Becomes(i, Thrown(fn[i])) /\ UNCHANGED tasks
  BY <1>1, <1>3, ThrownKeeps
<1> QED
  BY <1>2, <1>3 DEF Fold

LEMMA FetchKeeps ==
  ASSUME IInv, IsFiniteSet(Invocations), NEW i \in Invocations, Fetch(i)
  PROVE  IInv'
<1>1. UNCHANGED <<sessions, tasks, queued, booked, sent, strays>>
      /\ fn[i] \in Invocation /\ parked \subseteq Report \cup {Wsdl} /\ tasks \subseteq Report
  BY InvocationOf DEF Fetch, IInv, FunctionTypeOK
<1>2. parked' \subseteq Report \cup {Wsdl}
  BY <1>1 DEF Fetch
<1>3. PICK result \in {"succeeded", "failed"} :
        Becomes(i, [fn[i] EXCEPT !.step = "finish", !.result = result])
  <2>1. CASE Becomes(i, [fn[i] EXCEPT !.step = "finish"])
    <3>1. fn[i].result \in {"succeeded", "failed"}
          /\ [fn[i] EXCEPT !.step = "finish"]
               = [fn[i] EXCEPT !.step = "finish", !.result = fn[i].result]
      BY <1>1 DEF Invocation
    <3> QED
      BY <2>1, <3>1
  <2> QED
    BY <2>1 DEF Fetch
<1> DEFINE g == [fn[i] EXCEPT !.step = "finish", !.result = result]
<1>4. Becomes(i, g) /\ g \in Invocation /\ g.session = fn[i].session /\ g.step = "finish"
  BY <1>1, <1>3 DEF Invocation, Steps
<1> HIDE DEF g
<1> QED
  BY <1>1, <1>2, <1>4, StepKeeps

LEMMA FinishRunKeeps ==
  ASSUME IInv, IsFiniteSet(Invocations), NEW i \in Invocations, FinishRun(i)
  PROVE  IInv'
<1>1. UNCHANGED <<sessions, parked, tasks, queued, booked, sent, strays>>
      /\ fn[i] \in Invocation /\ parked \subseteq Report \cup {Wsdl} /\ tasks \subseteq Report
  BY InvocationOf DEF FinishRun, IInv, FunctionTypeOK
<1>2. PICK run \in {fn[i].result, fn[i].run} :
        Becomes(i, [fn[i] EXCEPT !.run = run, !.step = "logoff"])
  <2>1. [fn[i] EXCEPT !.step = "logoff"] = [fn[i] EXCEPT !.run = fn[i].run, !.step = "logoff"]
    BY <1>1 DEF Invocation
  <2> QED
    BY <2>1 DEF FinishRun
<1> DEFINE g == [fn[i] EXCEPT !.run = run, !.step = "logoff"]
<1>3. Becomes(i, g) /\ g \in Invocation /\ g.session = fn[i].session /\ g.step = "logoff"
  BY <1>1, <1>2 DEF Invocation, Steps
<1> HIDE DEF g
<1> QED
  BY <1>1, <1>3, StepKeeps

LEMMA WriteOutcomeKeeps ==
  ASSUME IInv, IsFiniteSet(Invocations), Cards \in SUBSET Nat, NEW i \in Invocations,
         WriteOutcome(i)
  PROVE  IInv'
<1> DEFINE c    == Current(i)
           left == [d \in DOMAIN fn[i].todo \ {c} |-> fn[i].todo[d]]
<1>1. fn[i].step = "record" /\ fn[i].action = "drain"
      /\ UNCHANGED <<sessions, parked, tasks, booked, sent, strays>>
      /\ fn[i] \in Invocation /\ parked \subseteq Report \cup {Wsdl} /\ tasks \subseteq Report
  BY InvocationOf DEF WriteOutcome, IInv, Working, FunctionTypeOK
<1>2. c \in Cards /\ c \in DOMAIN fn[i].todo
  BY <1>1, CurrentIs
<1>3. queued' \in [Cards -> [state : {"pending", "failed", "sent", "dead_letter"},
                                attempts : Nat]]
  <2>1. fn[i].todo[c] \in Nat
    BY <1>2, InvocationOf
  <2>2. Outcome(fn[i].todo[c], fn[i].result)
          \in [state : {"pending", "failed", "sent", "dead_letter"}, attempts : Nat]
    BY <2>1 DEF Outcome
  <2>3. \/ queued' = [queued EXCEPT ![c] = Outcome(fn[i].todo[c], fn[i].result)]
        \/ queued' = queued
    BY DEF WriteOutcome
  <2> HIDE DEF c
  <2> QED
    BY <1>2, <2>2, <2>3 DEF IInv, FunctionTypeOK
<1>4. left \in Todos
  <2>1. left \in [DOMAIN fn[i].todo \ {c} -> Nat] /\ DOMAIN fn[i].todo \ {c} \in SUBSET Cards
    BY InvocationOf
  <2> QED
    BY <2>1, TodoIs
<1> DEFINE g == [fn[i] EXCEPT !.todo = left, !.retried = FALSE, !.result = "succeeded",
                              !.step = IF DOMAIN left = {} THEN "finish" ELSE "logon"]
<1>5. Becomes(i, g)
  BY DEF WriteOutcome
<1> HIDE DEF left
<1>6. g \in Invocation /\ g.session = fn[i].session /\ g.step \in {"finish", "logon"}
      /\ ~g.retried /\ (g.step = "logon" => DOMAIN g.todo # {})
  BY <1>1, <1>4 DEF Invocation, Steps
<1> HIDE DEF g
<1>7. ~UnderWay(g)
  BY <1>6 DEF UnderWay
<1> QED
  BY <1>1, <1>3, <1>5, <1>6, <1>7, Quiet

LEMMA LogOffKeeps ==
  ASSUME IInv, IsFiniteSet(Invocations), NEW i \in Invocations, LogOff(i)
  PROVE  IInv'
<1> DEFINE own == <<i, fn[i].session>>
           g   == [fn[i] EXCEPT !.session = 0,
                                !.step = IF fn[i].step = "bye" THEN "finish" ELSE "done"]
<1>1. /\ UNCHANGED <<parked, tasks, queued, booked, sent>> /\ Becomes(i, g)
      /\ \/ sessions' = sessions \ {own} /\ UNCHANGED strays
         \/ own \in sessions /\ strays' = strays \cup {own} /\ UNCHANGED sessions
  BY DEF LogOff
<1>2. g \in Invocation /\ g.session = 0 /\ g.step \in {"finish", "done"} /\ ~UnderWay(g)
  BY InvocationOf DEF Invocation, Steps, UnderWay
<1> HIDE DEF g
<1>3. Working' /\ fn' \in [Invocations -> Invocation]
  BY <1>1, <1>2, Works
<1>4. sessions' \subseteq Invocations \X (Nat \ {0}) /\ strays' \subseteq Invocations \X Nat
  BY <1>1 DEF IInv, FunctionTypeOK
<1>5. LogsOff'
  <2>1. \A s \in sessions' \ strays' : s \in sessions \ strays
    BY <1>1
  <2>2. ASSUME NEW s \in sessions' \ strays', s[1] = i
        PROVE  FALSE
    <3>1. s = <<s[1], s[2]>> /\ s[2] = fn[i].session
      BY <2>1, <2>2 DEF IInv, FunctionTypeOK, LogsOff
    <3> QED
      BY <1>1, <2>2, <3>1
  <2> QED
    BY <1>1, <1>2, <1>4, <2>1, <2>2, Owned
<1>6. TriesCounted'
  BY <1>1, <1>2, Aside
<1>7. FunctionTypeOK'
  BY <1>1, <1>3, <1>4 DEF IInv, FunctionTypeOK
<1> QED
  BY <1>3, <1>5, <1>6, <1>7 DEF IInv

LEMMA KillKeeps ==
  ASSUME IInv, IsFiniteSet(Invocations), NEW i \in Invocations, Kill(i)
  PROVE  IInv'
<1> DEFINE g == [fn[i] EXCEPT !.step = "done"]
<1>1. /\ UNCHANGED <<sessions, parked, tasks, queued, booked, sent>> /\ Becomes(i, g)
      /\ strays' = strays \cup ({<<i, fn[i].session>>} \cap sessions)
  BY DEF Kill
<1>2. g \in Invocation /\ g.session = fn[i].session /\ g.step = "done" /\ ~UnderWay(g)
  BY InvocationOf DEF Invocation, Steps, UnderWay
<1> HIDE DEF g
<1>3. Working' /\ fn' \in [Invocations -> Invocation]
  BY <1>1, <1>2, Works
<1>4. sessions' \subseteq Invocations \X (Nat \ {0}) /\ strays' \subseteq Invocations \X Nat
  BY <1>1 DEF IInv, FunctionTypeOK
<1>5. LogsOff'
  <2>1. \A s \in sessions' \ strays' : s \in sessions \ strays
    BY <1>1
  <2>2. ASSUME NEW s \in sessions' \ strays', s[1] = i
        PROVE  FALSE
    <3>1. s = <<s[1], s[2]>> /\ s[2] = fn[i].session
      BY <2>1, <2>2 DEF IInv, FunctionTypeOK, LogsOff
    <3> QED
      BY <1>1, <2>2, <3>1
  <2> QED
    BY <1>1, <1>2, <1>4, <2>1, <2>2, Owned
<1>6. TriesCounted'
  BY <1>1, <1>2, Aside
<1>7. FunctionTypeOK'
  BY <1>1, <1>3, <1>4 DEF IInv, FunctionTypeOK
<1> QED
  BY <1>3, <1>5, <1>6, <1>7 DEF IInv

\* A session that expires, or nothing at all.
LEMMA OutsideKeeps ==
  ASSUME IInv, Expire \/ UNCHANGED functionVars
  PROVE  IInv'
<1>1. /\ UNCHANGED <<fn, parked, tasks, queued, booked, sent, strays>>
      /\ sessions' \subseteq sessions
  BY DEF Expire, functionVars
<1>2. FunctionTypeOK' /\ Working' /\ LogsOff'
  BY <1>1 DEF IInv, FunctionTypeOK, Working, LogsOff
<1>3. \A c : Trying(c)' = Trying(c)
  BY <1>1 DEF Trying, Current
<1>4. TriesCounted'
  BY <1>1, <1>3 DEF IInv, TriesCounted
<1> QED
  BY <1>2, <1>4 DEF IInv

LEMMA InitIInv == FunctionInit => IInv
<1> SUFFICES ASSUME FunctionInit PROVE IInv
  OBVIOUS
<1>1. <<>> \in Todos
  <2>1. <<>> \in [{} -> Nat]
    OBVIOUS
  <2> QED
    BY <2>1, TodoIs
<1>2. Unstarted \in Invocation
  BY <1>1 DEF Unstarted, Invocation, Steps, Actions
<1>3. FunctionTypeOK
  BY <1>2 DEF FunctionInit, FunctionTypeOK
<1>4. Working /\ LogsOff
  BY DEF FunctionInit, Working, LogsOff, Unstarted
<1>5. ASSUME NEW c PROVE Cardinality(Trying(c)) = 0
  <2>1. Trying(c) = {}
    BY DEF FunctionInit, Trying, UnderWay, Unstarted
  <2> QED
    BY <2>1, FS_EmptySet
<1>6. TriesCounted
  BY <1>5 DEF FunctionInit, TriesCounted
<1> QED
  BY <1>3, <1>4, <1>6 DEF IInv

LEMMA NextIInv ==
  ASSUME IInv, IsFiniteSet(Invocations), Cards \in SUBSET Nat, [FunctionNext]_functionVars
  PROVE  IInv'
<1>1. ASSUME NEW i \in Invocations,
             \/ Start(i) \/ Logon(i) \/ Call(i) \/ Park(i) \/ Fold(i) \/ Fetch(i)
             \/ WriteOutcome(i) \/ FinishRun(i) \/ LogOff(i) \/ Kill(i)
      PROVE  IInv'
  BY <1>1, StartKeeps, LogonKeeps, CallKeeps, ParkKeeps, FoldKeeps, FetchKeeps,
     WriteOutcomeKeeps, FinishRunKeeps, LogOffKeeps, KillKeeps
<1> QED
  BY <1>1, OutsideKeeps DEF FunctionNext

LEMMA IInvBounds == ASSUME IInv, IsFiniteSet(Invocations) PROVE BookedOncePerTry
<1> SUFFICES ASSUME NEW c \in Cards, NEW l \in Lines PROVE booked[c][l] <= sent[c]
  BY DEF BookedOncePerTry
<1>1. Cardinality(Trying(c)) \in Nat
  <2>1. Trying(c) \in SUBSET Invocations
    BY DEF Trying
  <2> QED
    BY <2>1, FS_Subset, FS_CardinalityType
<1>2. booked[c][l] \in Nat /\ sent[c] \in Nat /\ booked[c][l] + Cardinality(Trying(c)) <= sent[c]
  BY DEF IInv, FunctionTypeOK, TriesCounted
<1> QED
  BY <1>1, <1>2
-----------------------------------------------------------------------------
(* Every variable of the function has the shape its code gives it.         *)
THEOREM FunctionTyped == FunctionSpec => []FunctionTypeOK
<1>1. IInv => FunctionTypeOK
  BY DEF IInv
<1>2. IInv /\ [FunctionNext]_functionVars => IInv'
  BY NextIInv, InvocationsAssumption, CardsAssumption
<1> QED
  BY <1>1, <1>2, InitIInv, PTL DEF FunctionSpec

(* "LogOff always" (soap.ts): whatever fails, and whenever OnKey lets a    *)
(* session expire, a session it holds open is the one its invocation holds *)
(* the id of and has yet to log off, unless a fault took it.               *)
THEOREM SessionsEnd == FunctionSpec => []LogsOff
<1>1. IInv => LogsOff
  BY DEF IInv
<1>2. IInv /\ [FunctionNext]_functionVars => IInv'
  BY NextIInv, InvocationsAssumption, CardsAssumption
<1> QED
  BY <1>1, <1>2, InitIInv, PTL DEF FunctionSpec

(* "SessionExpired fault means re-Logon and retry once" books no line      *)
(* twice: each time a run sets out to send a costing, a line of it is      *)
(* booked once at the most, however runs overlap and answers are lost.     *)
THEOREM OncePerTry == FunctionSpec => []BookedOncePerTry
<1>1. IInv => BookedOncePerTry
  BY IInvBounds, InvocationsAssumption
<1>2. IInv /\ [FunctionNext]_functionVars => IInv'
  BY NextIInv, InvocationsAssumption, CardsAssumption
<1> QED
  BY <1>1, <1>2, InitIInv, PTL DEF FunctionSpec
================================================================================
