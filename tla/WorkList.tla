------------------------------- MODULE WorkList -------------------------------
(***************************************************************************)
(* The work list on the phone: the copy kept under wo:records (cache.ts),  *)
(* the freshness gate that renews it after a sign-in and after a while     *)
(* away (FreshnessGate.tsx), and the two tabs that show it, Home with the  *)
(* certificates in progress and Sites with the register.                   *)
(*                                                                         *)
(* The copy outlives a sign-out.  Requests are answered and arrive in any  *)
(* order, also after the person or the screen that asked is gone; one may  *)
(* fail, and then a forced refresh falls back to the copy it started from. *)
(* The gate asks for the scope and the vans of the stock beside the list   *)
(* and settles when all three are in, so the list may be old again by then.*)
(***************************************************************************)
EXTENDS Integers, FiniteSets, Sequences

CONSTANTS
  Persons,    \* officers that use the phone
  Book,       \* Persons -> the lists app_wo_list has for them, one after another: a
              \* list is a function from its jobs to their lifecycle states
  SiteOf,     \* the jobs' sites
  Found,      \* the jobs a typed search text matches
  JobOf,      \* the certificates, and the job each was started from (or Nothing)
  MaxVisits,  \* bound: sign-ins
  MaxFlights, \* bound: requests under way at once
  MaxRuns,    \* bound: runs of the gate
  MaxDrops,   \* bound: requests that fail, and checks that find no signal
  Nothing

(* Each officer has a list from the start; Nothing is no officer, no list  *)
(* and no job.                                                             *)
Lists == {l \in [who : Persons, ver : Nat] : l.ver \in DOMAIN Book[l.who]}
ASSUME BookAssumption ==
  /\ Nothing \notin Persons /\ Nothing \notin [who : Persons, ver : Nat]
  /\ \A p \in Persons :
       /\ Len(Book[p]) \in Nat \ {0} /\ DOMAIN Book[p] = 1 .. Len(Book[p])
       /\ \A ver \in DOMAIN Book[p] : Nothing \notin DOMAIN Book[p][ver]

Certificates == DOMAIN JobOf
Tabs  == {"home", "sites"}

VARIABLES
  user, visit,   \* who is signed in, and the number of the sign-in
  lists,         \* Persons -> the number of their current list in Book
  copy,          \* wo:records: [who, ver], or Nothing
  flights,       \* requests for the list under way
  settling,      \* runs of the gate that have their list and still wait for the stock
  gate,          \* [phase, step, gated, run, who, visit]: what FreshnessGate holds
  focus,         \* the tab in front, or "away" on another screen
  shown,         \* Tabs -> the list the tab holds, or Nothing
  searching,     \* a search text is typed on Home
  siteList,      \* [kept, stamped, asked, listed]: the sites, see Register
  certs,         \* Certificates -> "none", "draft", "queued", "signed", "synced" or "archived"
  inProgress,    \* the certificates Home holds
  owed,          \* history: the list the last gate is to bring at least, or Nothing
  drops
listVars == <<user, visit, lists, copy, flights, settling, gate, focus, shown, searching, siteList,
              certs, inProgress, owed, drops>>

NoRegister == [kept |-> "none", stamped |-> FALSE, asked |-> FALSE, listed |-> "none"]

ListInit ==
  /\ user = Nothing /\ visit = 0 /\ copy = Nothing /\ flights = {} /\ settling = {}
  /\ lists = [p \in Persons |-> 1]
  /\ gate = [phase |-> "idle", step |-> "off", gated |-> FALSE, run |-> 0,
             who |-> Nothing, visit |-> 0]
  /\ focus = "away" /\ shown = [t \in Tabs |-> Nothing] /\ searching = FALSE
  /\ siteList = NoRegister
  /\ certs = [c \in Certificates |-> "none"] /\ inProgress = {}
  /\ owed = Nothing /\ drops = 0

Drop == drops < MaxDrops /\ drops' = drops + 1
-----------------------------------------------------------------------------
(* fetchThrough of wo:records: with a copy it answers at once and asks     *)
(* behind it; forced or without one it asks and waits.                     *)
Ask(by, forced, who, n) ==
  [by |-> by, forced |-> forced, who |-> who, visit |-> n, before |-> copy,
   run |-> gate.run, ver |-> 0]
Fetch(asked) ==
  /\ Cardinality(flights \cup asked) <= MaxFlights
  /\ flights' = flights \cup asked
Painted(tab) == [shown EXCEPT ![tab] = IF copy = Nothing THEN @ ELSE copy]

(* Home holds every certificate not archived and not synced; a job the     *)
(* server reports completed archives its drafts first.                     *)
InProgress(held) == {c \in Certificates : held[c] \in {"draft", "queued", "signed"}}
ArchiveDrafts ==
  \E closed \in SUBSET {JobOf[c] : c \in Certificates} :
    certs' = [c \in Certificates |-> IF certs[c] = "draft" /\ JobOf[c] \in closed \ {Nothing}
                              THEN "archived" ELSE certs[c]]

LoadHome(asked) ==
  /\ Fetch(asked)
  /\ ArchiveDrafts
  /\ inProgress' = InProgress(certs')

(* Sites: the register is asked for once a day or on a pull, and a copy of *)
(* a hundred sites or less, as the mirror's sync leaves, does not count.   *)
Kept(forced) == ~forced /\ siteList.stamped /\ siteList.kept = "all"
LoadSites(forced) ==
  /\ Fetch({Ask("sites", FALSE, user, visit)})
  /\ siteList' = IF Kept(forced) THEN [siteList EXCEPT !.listed = "all"]
                 ELSE [siteList EXCEPT !.asked = TRUE]
-----------------------------------------------------------------------------
(* Signing in and out.  The gate runs once per signed-in session, with the *)
(* session's token; a run already under way is not doubled.                *)
Ran(g, who, n) ==
  IF g.step # "off" THEN g
  ELSE [g EXCEPT !.step = "net", !.run = @ + 1, !.who = who, !.visit = n]
GatedFor(g, who, n) == IF g.gated THEN g ELSE Ran([g EXCEPT !.gated = TRUE], who, n)
StillGated(g) == g
Ungated(g)    == [g EXCEPT !.gated = FALSE]

Owed(who) == IF gate.step = "off" THEN [who |-> who, ver |-> lists[who]] ELSE Nothing

SignedIn(p) ==
  /\ user = Nothing /\ visit < MaxVisits
  /\ user' = p /\ visit' = visit + 1
  /\ gate' = GatedFor(gate, p, visit + 1)
  /\ owed' = Owed(p)
  /\ focus' = "home" /\ shown' = Painted("home")
  /\ LoadHome({Ask("home", FALSE, p, visit + 1)})
  /\ UNCHANGED <<lists, settling, copy, searching, siteList, drops>>

SignedOut ==
  /\ user # Nothing
  /\ user' = Nothing
  /\ gate' = Ungated(gate)
  /\ focus' = "away" /\ shown' = [t \in Tabs |-> Nothing] /\ searching' = FALSE
  /\ siteList' = [siteList EXCEPT !.asked = FALSE, !.listed = "none"]
  /\ inProgress' = {} /\ owed' = Nothing
  /\ UNCHANGED <<visit, lists, settling, copy, flights, certs, drops>>

(* Back in front after ten minutes or more.                                *)
Foreground ==
  /\ user # Nothing /\ gate.step = "off" /\ gate.run < MaxRuns
  /\ gate' = Ran(gate, user, visit)
  /\ owed' = Owed(user)
  /\ UNCHANGED <<user, visit, lists, settling, copy, flights, focus, shown, searching, siteList,
                 certs, inProgress, drops>>

(* The gate: without signal it does nothing; with it, everything is        *)
(* covered while the list is asked for, ten seconds at the most.           *)
CheckNet ==
  /\ gate.step = "net"
  /\ \/ /\ Drop
        /\ gate' = [gate EXCEPT !.step = "off"]
        /\ owed' = Nothing
        /\ UNCHANGED flights
     \/ /\ gate' = [gate EXCEPT !.phase = "gating", !.step = "race"]
        /\ Fetch({Ask("gate", TRUE, gate.who, gate.visit)})
        /\ UNCHANGED <<owed, drops>>
  /\ UNCHANGED <<user, visit, lists, settling, copy, focus, shown, searching, siteList, certs,
                 inProgress>>

Overrun ==
  /\ gate.step = "race"
  /\ gate' = [gate EXCEPT !.phase = "overrun", !.step = "off"]
  /\ owed' = Nothing
  /\ UNCHANGED <<user, visit, lists, settling, copy, flights, focus, shown, searching, siteList,
                 certs, inProgress, drops>>
-----------------------------------------------------------------------------
(* The screens.                                                            *)
GoHome ==
  /\ user # Nothing /\ focus # "home"
  /\ focus' = "home" /\ shown' = Painted("home")
  /\ LoadHome({Ask("home", FALSE, user, visit)})
  /\ UNCHANGED <<user, visit, lists, settling, copy, gate, searching, siteList, owed, drops>>

GoSites ==
  /\ user # Nothing /\ focus # "sites"
  /\ focus' = "sites" /\ shown' = Painted("sites")
  /\ LoadSites(FALSE)
  /\ UNCHANGED <<user, visit, lists, settling, copy, gate, searching, certs, inProgress, owed,
                 drops>>

GoAway ==
  /\ focus # "away"
  /\ focus' = "away"
  /\ UNCHANGED <<user, visit, lists, settling, copy, flights, gate, shown, searching, siteList,
                 certs, inProgress, owed, drops>>

Uncovered == user # Nothing /\ gate.phase # "gating"

(* The pull gesture and the header's button force the list and load again. *)
PullHome ==
  /\ Uncovered /\ focus = "home"
  /\ shown' = Painted("home")
  /\ LoadHome({Ask("home", forced, user, visit) : forced \in BOOLEAN})
  /\ UNCHANGED <<user, visit, lists, settling, copy, gate, focus, searching, siteList, owed, drops>>

PullSites ==
  /\ Uncovered /\ focus = "sites"
  /\ shown' = Painted("sites")
  /\ LoadSites(TRUE)
  /\ UNCHANGED <<user, visit, lists, settling, copy, gate, focus, searching, certs, inProgress,
                 owed, drops>>

Type ==
  /\ Uncovered /\ focus = "home"
  /\ searching' = ~searching
  /\ UNCHANGED <<user, visit, lists, settling, copy, flights, gate, focus, shown, siteList, certs,
                 inProgress, owed, drops>>

(* A card in progress: a draft can be deleted, a queued one tried again.   *)
DeleteDraft(c) ==
  /\ Uncovered /\ focus = "home" /\ c \in inProgress
  /\ certs[c] = "draft"
  /\ certs' = [certs EXCEPT ![c] = "none"]
  /\ inProgress' = InProgress(certs')
  /\ UNCHANGED <<user, visit, lists, settling, copy, flights, gate, focus, shown, searching,
                 siteList, owed, drops>>
RetryItem(c) ==
  /\ Uncovered /\ focus = "home" /\ c \in inProgress
  /\ certs[c] = "queued"
  /\ \E now \in {"queued", "signed", "synced"} : certs' = [certs EXCEPT ![c] = now]
  /\ inProgress' = InProgress(certs')
  /\ UNCHANGED <<user, visit, lists, settling, copy, flights, gate, focus, shown, searching,
                 siteList, owed, drops>>

(* Elsewhere: a certificate is started or signed on its own screens, the   *)
(* queue moves it on behind Home, the planner and the officers change the  *)
(* lists, and the mirror's sync stores the officer's own sites.            *)
Capture(c) ==
  /\ user # Nothing /\ focus = "away"
  /\ \/ certs[c] = "none"  /\ certs' = [certs EXCEPT ![c] = "draft"]
     \/ certs[c] = "draft" /\ certs' = [certs EXCEPT ![c] = "queued"]
  /\ UNCHANGED <<user, visit, lists, settling, copy, flights, gate, focus, shown, searching,
                 siteList, inProgress, owed, drops>>
QueueMoves(c) ==
  /\ \/ certs[c] = "queued" /\ certs' = [certs EXCEPT ![c] = "signed"]
     \/ certs[c] = "signed" /\ certs' = [certs EXCEPT ![c] = "synced"]
  /\ UNCHANGED <<user, visit, lists, settling, copy, flights, gate, focus, shown, searching,
                 siteList, inProgress, owed, drops>>
ListChanges(p) ==
  /\ lists[p] < Len(Book[p])
  /\ lists' = [lists EXCEPT ![p] = @ + 1]
  /\ UNCHANGED <<user, visit, settling, copy, flights, gate, focus, shown, searching, siteList,
                 certs, inProgress, owed, drops>>
SitesSynced ==
  /\ user # Nothing /\ siteList.kept = "all"
  /\ siteList' = [siteList EXCEPT !.kept = "few"]
  /\ UNCHANGED <<user, visit, lists, settling, copy, flights, gate, focus, shown, searching,
                 certs, inProgress, owed, drops>>
-----------------------------------------------------------------------------
(* The server reads the list of the token's officer.                       *)
Read(f) ==
  /\ f.ver = 0
  /\ flights' = (flights \ {f}) \cup {[f EXCEPT !.ver = lists[f.who]]}
  /\ UNCHANGED <<user, visit, lists, settling, copy, gate, focus, shown, searching, siteList,
                 certs, inProgress, owed, drops>>

Mounted(f) == f.visit = visit /\ user # Nothing
Racing(f)  == f.by = "gate" /\ gate.step = "race" /\ f.run = gate.run

(* The gate settles when its three requests are, and repaints Home from    *)
(* the copy (onFreshnessSettled), with a request behind it.                *)
Settled(r) ==
  IF gate.step = "race" /\ r = gate.run THEN [gate EXCEPT !.phase = "idle", !.step = "off"]
  ELSE [gate EXCEPT !.phase = "idle"]
Repaints(list) ==
  IF user # Nothing /\ list # Nothing THEN [shown EXCEPT !["home"] = list] ELSE shown
Behind(list) ==
  IF user = Nothing THEN {}
  ELSE {[by |-> "home", forced |-> FALSE, who |-> user, visit |-> visit,
         before |-> list, run |-> gate.run, ver |-> 0]}

GateSettles(r) ==
  /\ r \in settling
  /\ settling' = settling \ {r}
  /\ gate' = Settled(r)
  /\ shown' = Repaints(copy)
  /\ Fetch(Behind(copy))
  /\ UNCHANGED <<user, visit, lists, copy, focus, searching, siteList, certs, inProgress, owed,
                 drops>>

(* An answer that leaves the copy older, or another officer's, after the   *)
(* gate has its list came too late for what the gate was to bring.         *)
ListIsIn == gate.step = "off" \/ (gate.step = "race" /\ gate.run \in settling)
Older(list)    == list.who # owed.who \/ list.ver < owed.ver
StillOwed(list) ==
  IF owed # Nothing /\ ListIsIn /\ Older(list) THEN Nothing ELSE owed

Arrive(f) ==
  LET list == [who |-> f.who, ver |-> f.ver] IN
  /\ f.ver # 0
  /\ copy' = list
  /\ owed' = StillOwed(list)
  /\ flights' = flights \ {f}
  /\ \/ /\ f.by # "gate"
        /\ shown' = IF Mounted(f) /\ list # f.before THEN [shown EXCEPT ![f.by] = list] ELSE shown
        /\ UNCHANGED settling
     \/ /\ f.by = "gate"
        /\ settling' = settling \cup {f.run}
        /\ UNCHANGED shown
  /\ UNCHANGED <<user, visit, lists, gate, focus, searching, siteList, certs, inProgress, drops>>

(* A request fails: behind a copy nothing happens; forced, the copy it     *)
(* found at its start is shown, and the gate goes on without the list.     *)
Failed(f) ==
  /\ Drop
  /\ flights' = flights \ {f}
  /\ \/ /\ f.by # "gate"
        /\ shown' = IF f.forced /\ Mounted(f) /\ f.before # Nothing
                    THEN [shown EXCEPT ![f.by] = f.before] ELSE shown
        /\ owed' = IF f.forced THEN Nothing ELSE owed
        /\ UNCHANGED settling
     \/ /\ f.by = "gate"
        /\ settling' = settling \cup {f.run}
        /\ owed' = IF Racing(f) THEN Nothing ELSE owed
        /\ UNCHANGED shown
  /\ UNCHANGED <<user, visit, lists, copy, gate, focus, searching, siteList, certs, inProgress>>

(* The register's own answer, all of it or what the server let through.    *)
RegisterAnswered ==
  /\ siteList.asked
  /\ \/ \E got \in {"few", "all"} :
          siteList' = [kept |-> got, stamped |-> siteList.stamped \/ got = "all",
                       asked |-> FALSE, listed |-> got]
     \/ siteList' = [siteList EXCEPT !.asked = FALSE,
                       !.listed = IF siteList.kept = "none" THEN @ ELSE siteList.kept]
  /\ UNCHANGED <<user, visit, lists, settling, copy, flights, gate, focus, shown, searching,
                 certs, inProgress, owed, drops>>
StampAges ==
  /\ siteList.stamped
  /\ siteList' = [siteList EXCEPT !.stamped = FALSE]
  /\ UNCHANGED <<user, visit, lists, settling, copy, flights, gate, focus, shown, searching,
                 certs, inProgress, owed, drops>>

ListNext ==
  \/ \E p \in Persons : SignedIn(p) \/ ListChanges(p)
  \/ SignedOut \/ Foreground \/ CheckNet \/ Overrun
  \/ GoHome \/ GoSites \/ GoAway \/ PullHome \/ PullSites \/ Type
  \/ \E c \in Certificates : DeleteDraft(c) \/ RetryItem(c) \/ Capture(c) \/ QueueMoves(c)
  \/ \E f \in flights : Read(f) \/ Arrive(f) \/ Failed(f)
  \/ \E r \in settling : GateSettles(r)
  \/ SitesSynced \/ RegisterAnswered \/ StampAges
ListSpec == ListInit /\ [][ListNext]_listVars
-----------------------------------------------------------------------------
(* What the tabs show of a list.                                           *)
Records(list) == IF list = Nothing THEN <<>> ELSE Book[list.who][list.ver]
HomeSection(state) ==
  CASE state \in {"started", "on_the_way"} -> "live"
    [] state = "not_started" -> "upcoming"
    [] OTHER -> "done"
Section(s) ==
  LET records == Records(shown["home"]) IN
  {w \in DOMAIN records :
     HomeSection(records[w]) = s /\ (s = "live" \/ ~searching \/ w \in Found)}
Cards == UNION {Section(s) : s \in {"live", "upcoming", "done"}}
AttachedTo(w) == {c \in inProgress : JobOf[c] = w}
StrayOnly == {c \in inProgress : JobOf[c] = Nothing}
Unattached ==
  {c \in inProgress : JobOf[c] = Nothing \/ JobOf[c] \notin DOMAIN Records(shown["home"])}

OpenAt(site) ==
  LET records == Records(shown["sites"]) IN
  {w \in DOMAIN records : SiteOf[w] = site /\ records[w] # "signed_off"}
ActiveSites(sites) == {s \in sites : OpenAt(s) # {}}

(* "Certificates ride their work order's card ... the standalone section   *)
(* survives solely for certificates with no matching card on screen"       *)
(* (home.tsx): while nothing is searched, every certificate the phone has  *)
(* still to deliver is on Home exactly once, whatever the lists and the    *)
(* queue did meanwhile, and every job is under one heading.                *)
NothingHidden ==
  user # Nothing /\ focus = "home" /\ ~searching =>
    /\ InProgress(certs) \subseteq inProgress
    /\ \A c \in inProgress :
         (c \in Unattached) # (\E w \in Cards : c \in AttachedTo(w))
    /\ Cards = DOMAIN Records(shown["home"])

(* "Online means current before the screen settles ... again after a       *)
(* sign-in: the caches are scoped to the person" (FreshnessGate.tsx): once *)
(* a gate that was answered in time has settled, Home shows the list of    *)
(* the officer signed in, as the server had it when the gate closed or     *)
(* later; unless an answer asked for earlier came in after the gate's own  *)
(* list, while the gate was still closed too, or a forced refresh failed.  *)
SettledIsPresent ==
  owed # Nothing /\ gate.step = "off" =>
    shown["home"] # Nothing /\ shown["home"].who = owed.who /\ shown["home"].ver >= owed.ver
===============================================================================
