---------------------------- MODULE JobCardScreens -----------------------------
(***************************************************************************)
(* The two editors of one job card and the screen that seals it: the work  *)
(* order page (app/wo/[id].tsx) enters visits and work performed, the      *)
(* spares page pushed on top of it (app/spares/[id].tsx) books parts, the  *)
(* sign-off (app/signoff/[id].tsx) lets the client accept the whole.       *)
(*                                                                         *)
(* Each screen holds a copy of the card, every save sends the whole card   *)
(* and replaces it (saveJobCard, app_job_card_save), and what a screen     *)
(* starts from is the phone's cached bundle (getJobCard, fetchThrough).    *)
(*                                                                         *)
(* Abstracted: visits and work performed are the number of the last edit,  *)
(* parts the set of parts booked.  What the outbox makes of a write is     *)
(* WriteOutbox's, the server's rules about the work order are WorkOrder's. *)
(***************************************************************************)
EXTENDS Naturals, Sequences, FiniteSets

CONSTANTS
  Parts,        \* the spares that may be booked
  MaxEntries,   \* bound: entries of a technician who waits for each answer
  MaxHurried,   \* bound: entries before and after the first that did not wait
  MaxRequests,  \* bound: requests under way at once (identical ones count once)
  MaxKept,      \* bound: writes in the outbox
  Blank         \* no bundle, no screen, no answer yet
Cards       == [work : Nat, parts : SUBSET Parts, signed : BOOLEAN]
Bundles     == Cards \cup {Blank}
JobPages    == [work : Nat, parts : SUBSET Parts, dirty : BOOLEAN, typing : BOOLEAN,
                bundle : Bundles, tasked : BOOLEAN]
SparesPages == [parts : SUBSET Parts, dirty : BOOLEAN, bundle : Bundles]
ASSUME BlankAssumption == Blank \notin Cards \cup JobPages \cup SparesPages

VARIABLES
  jobCard,       \* the server's job card
  cached,     \* the phone's bundle `jobcard:id`
  job,        \* the work order page: its copies, its dirty flag, an edit not yet blurred
  spares,     \* the spares page on top of it
  signoff,    \* the sign-off on top of it: the bundle it shows
  requests,   \* requests under way: get, save, sign, tasks
  kept,       \* saves and signatures kept in the outbox
  done,       \* the phone's record of the work order: signed off
  entered,    \* history: what the technician entered last
  entries,    \* bound: how often
  hurried     \* history: a request failed, or the technician went on before it was answered
cardVars == <<jobCard, cached, job, spares, signoff, requests, kept, done, entered, entries,
              hurried>>

BlankCard == [work |-> 0, parts |-> {}, signed |-> FALSE]
\* Only the page has been opened: the technician is at work on the job.
FreshJob == [work |-> 0, parts |-> {}, dirty |-> FALSE, typing |-> FALSE, bundle |-> Blank,
             tasked |-> FALSE]

CardInit ==
  /\ jobCard = BlankCard /\ cached = Blank
  /\ job = Blank /\ spares = Blank /\ signoff = Blank
  /\ requests = {} /\ kept = << >> /\ done = FALSE
  /\ entered = [work |-> 0, parts |-> {}]
  /\ entries = 0 /\ hurried = FALSE

-----------------------------------------------------------------------------
(* What a screen makes of a bundle.                                        *)

\* Bug: an edited page keeps its parts as well.
KeepEdited(b, j) == IF j.dirty THEN [j EXCEPT !.bundle = b]
                    ELSE [j EXCEPT !.bundle = b, !.parts = b.parts, !.work = b.work]
\* applyBundle: parts unconditionally, the page's own fields unless they were edited.
ApplyBundle(b, j) ==
  [j EXCEPT !.bundle = b, !.parts = b.parts, !.work = IF j.dirty THEN @ ELSE b.work]
\* The sign-off's load: the bundle, whatever name was typed.
TakeBundle(b, s) == [s EXCEPT !.bundle = b]
\* The spares page's load: the parts unless they were edited.
TakeParts(b, s) == [s EXCEPT !.bundle = b, !.parts = IF s.dirty THEN @ ELSE b.parts]

Calm == requests = {} /\ (job = Blank \/ ~job.typing)
MayEnter == entries < IF hurried THEN MaxHurried ELSE MaxEntries
Hurry == hurried' = (hurried \/ ~Calm)
Request(r) == Cardinality(requests \cup {r}) <= MaxRequests /\ requests' = requests \cup {r}

\* getJobCard: the cached bundle at once and the server's behind it; a cold key waits.
Get(to) == Request([kind |-> "get", to |-> to, sent |-> cached, answer |-> Blank])
Read(apply(_, _), screen) == IF cached = Blank THEN screen ELSE apply(cached, screen)

-----------------------------------------------------------------------------
(* The screens.                                                            *)

OnJob == job # Blank /\ spares = Blank /\ signoff = Blank
\* The fields are there as long as the job is active and the shown card unsigned.
Editable(screen) == ~done /\ (screen.bundle # Blank => ~screen.bundle.signed)

OpenJob ==
  /\ job = Blank /\ job' = Read(ApplyBundle, FreshJob) /\ Get("job") /\ Hurry
  /\ UNCHANGED <<jobCard, cached, spares, signoff, kept, done, entered, entries>>

\* The inline job card's fields: dirty from the first keystroke on, saved when left.
EditWork ==
  /\ OnJob /\ Editable(job) /\ MayEnter
  /\ entries' = entries + 1
  /\ job' = [job EXCEPT !.work = entries', !.dirty = TRUE, !.typing = TRUE]
  /\ entered' = [entered EXCEPT !.work = entries'] /\ Hurry
  /\ UNCHANGED <<jobCard, cached, spares, signoff, requests, kept, done>>
\* persist: all three parts of the card as this page has them.
PersistJob ==
  /\ job # Blank /\ job.typing /\ job' = [job EXCEPT !.typing = FALSE]
  /\ Request([kind |-> "save", to |-> "none",
              sent |-> [work |-> job.work, parts |-> job.parts], answer |-> Blank])
  /\ UNCHANGED <<jobCard, cached, spares, signoff, kept, done, entered, entries, hurried>>

\* "Book spares" pushes the other editor, which loads on focus.
OpenSpares ==
  /\ OnJob /\ Editable(job)
  /\ spares' = Read(TakeParts, [parts |-> {}, dirty |-> FALSE, bundle |-> Blank])
  /\ Get("spares") /\ Hurry
  /\ UNCHANGED <<jobCard, cached, job, signoff, kept, done, entered, entries>>
\* A signed card shows its lines without a cross, and no register to add from.
Bookable(s) == s.bundle # Blank /\ ~s.bundle.signed
\* addPart and the cross behind a line; the rest of the card as this page's bundle has it.
BookParts ==
  /\ spares # Blank /\ Bookable(spares) /\ MayEnter
  /\ \E p \in Parts :
       LET change(booked) == IF p \in spares.parts THEN booked \ {p} ELSE booked \cup {p} IN
       /\ spares' = [spares EXCEPT !.parts = change(@), !.dirty = TRUE]
       /\ entered' = [entered EXCEPT !.parts = change(@)]
       /\ Request([kind |-> "save", to |-> "none",
                   sent |-> [work |-> spares.bundle.work, parts |-> change(spares.parts)],
                   answer |-> Blank])
  /\ entries' = entries + 1 /\ Hurry
  /\ UNCHANGED <<jobCard, cached, job, signoff, kept, done>>

\* Complete: with the page's own fields filled the sign-off opens.
OpenSignOff ==
  /\ OnJob /\ Editable(job) /\ job.work # 0
  /\ signoff' = Read(TakeBundle, [bundle |-> Blank])
  /\ Get("signoff") /\ Hurry
  /\ UNCHANGED <<jobCard, cached, job, spares, kept, done, entered, entries>>
\* The bundle the sign-off shows says what was done, and is not signed yet.
Sealable(s) == s.bundle # Blank /\ s.bundle.work # 0 /\ ~s.bundle.signed
\* seal, one at a time.
PressSeal ==
  /\ signoff # Blank /\ Sealable(signoff)
  /\ \A r \in requests : r.kind # "sign"
  /\ Request([kind |-> "sign", to |-> "none", sent |-> Blank, answer |-> Blank])
  /\ Hurry
  /\ UNCHANGED <<jobCard, cached, job, spares, signoff, kept, done, entered, entries>>

\* Back on the work order page: its focus effect reads the card again.
BackToJob ==
  /\ spares # Blank \/ signoff # Blank
  /\ spares' = Blank /\ signoff' = Blank
  /\ job' = Read(ApplyBundle, job)
  /\ LET heard == {[r EXCEPT !.to = IF r.to = "job" THEN "job" ELSE "none"] : r \in requests}
         get   == [kind |-> "get", to |-> "job", sent |-> cached, answer |-> Blank]
     IN  Cardinality(heard \cup {get}) <= MaxRequests /\ requests' = heard \cup {get}
  /\ Hurry
  /\ UNCHANGED <<jobCard, cached, kept, done, entered, entries>>
\* The page is left, or the app is killed: its answers reach no screen (killed: not the cache).
LeaveJob ==
  /\ job # Blank /\ job' = Blank /\ spares' = Blank /\ signoff' = Blank
  /\ requests' \in {{}, {[r EXCEPT !.to = "none"] : r \in requests}} /\ Hurry
  /\ UNCHANGED <<jobCard, cached, kept, done, entered, entries>>

\* The page asks OnKey for the work tasks once; an answer that has any is merged into the
\* page's bundle as it is by then, and cached.
AskTasks ==
  /\ job # Blank /\ job.bundle # Blank /\ ~job.tasked
  /\ job' = [job EXCEPT !.tasked = TRUE]
  /\ Request([kind |-> "tasks", to |-> "job", sent |-> Blank, answer |-> Blank])
  /\ UNCHANGED <<jobCard, cached, spares, signoff, kept, done, entered, entries, hurried>>

-----------------------------------------------------------------------------
(* The server and the network.                                             *)

\* app_job_card_save replaces the draft; a signed card refuses any save and any signature.
Effect(r) ==
  CASE r.kind = "save" /\ ~jobCard.signed -> [work |-> r.sent.work, parts |-> r.sent.parts, signed |-> FALSE]
    [] r.kind = "sign"                 -> [jobCard EXCEPT !.signed = TRUE]
    [] OTHER                           -> jobCard

Serve(r) ==
  /\ r.answer = Blank /\ jobCard' = Effect(r)
  /\ requests' = (requests \ {r}) \cup {[r EXCEPT !.answer = Effect(r)]}
  /\ UNCHANGED <<cached, job, spares, signoff, kept, done, entered, entries, hurried>>

\* Every answer is written through; a read that changed something is shown where it was asked.
Answered(r) ==
  /\ r.answer # Blank /\ requests' = requests \ {r}
  /\ LET shown == r.kind = "get" /\ r.answer # r.sent IN
     /\ job' = IF shown /\ r.to = "job" /\ job # Blank THEN ApplyBundle(r.answer, job) ELSE job
     /\ spares' = IF shown /\ r.to = "spares" /\ spares # Blank
                  THEN TakeParts(r.answer, spares) ELSE spares
     /\ signoff' = IF shown /\ r.to = "signoff" /\ signoff # Blank
                   THEN TakeBundle(r.answer, signoff) ELSE signoff
  /\ cached' \in IF r.kind # "tasks" THEN {r.answer}
                 ELSE IF r.to = "job" /\ job # Blank THEN {cached, job.bundle} ELSE {cached}
  /\ done' = (done \/ r.kind = "sign")
  /\ UNCHANGED <<jobCard, kept, entered, entries, hurried>>

\* Without a signal a save or a signature is kept, whether the server had it or not; a
\* signature completes the phone's own record either way.
Unanswered(r) ==
  /\ requests' = requests \ {r} /\ hurried' = TRUE
  /\ IF r.kind \in {"save", "sign"} THEN Len(kept) < MaxKept /\ kept' = Append(kept, r)
                                    ELSE UNCHANGED kept
  /\ done' = (done \/ r.kind = "sign")
  /\ UNCHANGED <<jobCard, cached, job, spares, signoff, entered, entries>>
\* The outbox replays in order; the job card's cached copy does not hear of it.
Replay ==
  /\ kept # << >> /\ kept' = Tail(kept) /\ jobCard' = Effect(Head(kept))
  /\ UNCHANGED <<cached, job, spares, signoff, requests, done, entered, entries, hurried>>

CardNext ==
  \/ OpenJob \/ EditWork \/ PersistJob \/ OpenSpares \/ BookParts \/ OpenSignOff \/ PressSeal
  \/ BackToJob \/ LeaveJob \/ AskTasks \/ Replay
  \/ \E r \in requests : Serve(r) \/ Answered(r) \/ Unanswered(r)
CardSpec == CardInit /\ [][CardNext]_cardVars

-----------------------------------------------------------------------------
(***************************************************************************)
(* A technician who waits for each answer finds everything on the card:    *)
(* when nothing is under way it holds the last entries of both editors,    *)
(* neither of which has written its older copy of the other's part, and a  *)
(* card is sealed with them.                                               *)
(***************************************************************************)
EntriesKept ==
  ~hurried /\ Calm => jobCard.work = entered.work /\ jobCard.parts = entered.parts
===============================================================================
