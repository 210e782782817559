---------------------------- MODULE ArchiveProofs -----------------------------
(***************************************************************************)
(* Of the archive job, for any shows, entries, windows and budgets and any *)
(* number of failures, crashes, requests, pauses and turns of the month:   *)
(* the cursor passes no month that no run has been through, and without a  *)
(* crash the files list what is claimed, and list it once.                 *)
(*                                                                         *)
(* The argument, for the walk: a run that works on a show knows the cursor *)
(* and the anchor it will write, and every month between the two is done;  *)
(* what the owner or the calendar change meanwhile touches neither.  For   *)
(* the files: an unclaimed episode that is in a file is one the run is on  *)
(* its way to claim, and what the run has still to write is in none.       *)
(***************************************************************************)
EXTENDS Archive, TLAPS

\* A run at one of these has a show's progress in its local variables.
Visiting == {"complete", "pin", "fetch", "month", "mark"}

\* The months from the anchor down to the cursor, both left out.
Between(cursor, anchor) == (cursor + 1)..(anchor - 1)

\* Months stay on the calendar: the anchor is the month of some start or a later one.
WalkShape ==
    /\ now \in Nat /\ now >= FirstMonth
    /\ \A s \in Shows : window[s] \in Window..MaxWindow
    /\ DOMAIN pdoc = Shows /\ DOMAIN window = Shows /\ DOMAIN done = Shows
    /\ \A s \in Shows :
          /\ DOMAIN pdoc[s] = {"cursor", "anchor", "complete"}
          /\ pdoc[s].cursor \in Nat \cup {NONE}
          /\ pdoc[s].anchor = NONE \/ (pdoc[s].anchor \in Nat /\ pdoc[s].anchor >= FirstMonth)
    /\ DOMAIN walk = {"todo", "budget", "show", "cursor", "anchor", "floor", "left", "entries",
                      "created"}
    /\ walk.todo \subseteq Shows

\* What NothingSteppedOver says of a show's document, said of the run's local variables.
RunKnows ==
    at \in Visiting =>
        /\ walk.show \in Shows
        /\ walk.cursor \in Nat /\ walk.anchor \in Nat /\ walk.floor \in Nat
        /\ walk.anchor >= FirstMonth
        /\ walk.floor > 0 /\ walk.floor <= walk.anchor - Window
        /\ Between(walk.cursor, walk.anchor) \subseteq done[walk.show]
        /\ at \in {"pin", "fetch", "month"} => walk.cursor >= walk.floor
        /\ at = "complete" => walk.cursor < walk.floor

WalkInv ==
    /\ WalkShape
    /\ RunKnows
    /\ NothingSteppedOver

LEMMA WalkStarts == Init => WalkInv
BY WalkAssumption
   DEF Init, WalkInit, DocsInit, NoWalk, WalkInv, WalkShape, RunKnows, Visiting,
       NothingSteppedOver

\* Whatever leaves the documents, the calendar and the local variables alone, and does
\* not start on a show.
LEMMA WalkUntouched ==
    ASSUME WalkInv, UNCHANGED walkVars, at' = at \/ at' \notin Visiting
    PROVE  WalkInv'
<1>1. WalkShape' /\ NothingSteppedOver'
  BY DEF WalkInv, WalkShape, NothingSteppedOver, walkVars
<1>2. RunKnows'
  BY DEF WalkInv, RunKnows, walkVars, Visiting
<1>q. QED
  BY <1>1, <1>2 DEF WalkInv

\* A run that gives up its show, or everything.
LEMMA WalkForgets ==
    ASSUME WalkInv, UNCHANGED <<now, window, pdoc, done>>, at' \notin Visiting,
           NEW todo1 \in SUBSET Shows, NEW budget, walk' = [NoWalk EXCEPT !.todo = todo1,
                                                                         !.budget = budget]
    PROVE  WalkInv'
BY DEF WalkInv, WalkShape, RunKnows, NothingSteppedOver, NoWalk

LEMMA WalkEnds ==
    ASSUME WalkInv, UNCHANGED <<now, window, pdoc, done>>, at' \notin Visiting,
           walk' = NoWalk
    PROVE  WalkInv'
BY DEF WalkInv, WalkShape, RunKnows, NothingSteppedOver, NoWalk

\* A run writes its progress over the document of its show.
LEMMA ProgressKeeps ==
    ASSUME WalkInv, at \in Visiting, NEW complete \in BOOLEAN,
           MarkProgress(walk.show, complete),
           complete => walk.cursor < walk.floor,
           UNCHANGED <<now, window, done>>
    PROVE  /\ NothingSteppedOver'
           /\ DOMAIN pdoc' = Shows
           /\ \A s \in Shows :
                 /\ DOMAIN pdoc'[s] = {"cursor", "anchor", "complete"}
                 /\ pdoc'[s].cursor \in Nat \cup {NONE}
                 /\ \/ pdoc'[s].anchor = NONE
                    \/ pdoc'[s].anchor \in Nat /\ pdoc'[s].anchor >= FirstMonth
<1>1. /\ walk.show \in Shows /\ walk.cursor \in Nat /\ walk.anchor \in Nat
      /\ walk.anchor >= FirstMonth /\ walk.floor \in Nat
      /\ walk.floor <= walk.anchor - Window
      /\ Between(walk.cursor, walk.anchor) \subseteq done[walk.show]
      /\ DOMAIN pdoc = Shows
  BY DEF WalkInv, WalkShape, RunKnows
<1>2. pdoc' = [pdoc EXCEPT ![walk.show] = [cursor |-> walk.cursor, anchor |-> walk.anchor,
                                           complete |-> complete]]
  BY DEF MarkProgress
<1>3. ASSUME NEW s \in Shows
      PROVE  IF s = walk.show
             THEN pdoc'[s] = [cursor |-> walk.cursor, anchor |-> walk.anchor,
                              complete |-> complete]
             ELSE pdoc'[s] = pdoc[s]
  BY <1>1, <1>2
<1>4. NothingSteppedOver'
  <2> SUFFICES ASSUME NEW s \in Shows
               PROVE  /\ pdoc'[s].cursor # NONE =>
                            /\ pdoc'[s].anchor # NONE
                            /\ \A m \in (pdoc'[s].cursor + 1)..(pdoc'[s].anchor - 1) :
                                  m \in done[s]
                      /\ pdoc'[s].complete =>
                            /\ pdoc'[s].cursor # NONE
                            /\ pdoc'[s].cursor < pdoc'[s].anchor - Window
    BY DEF NothingSteppedOver
  <2>1. CASE s = walk.show
    <3>1. /\ pdoc'[s].cursor = walk.cursor /\ pdoc'[s].anchor = walk.anchor
          /\ pdoc'[s].complete = complete
      BY <1>3, <2>1
    <3>q. QED
      BY <1>1, <2>1, <3>1, ArchiveDocsAssumption, WalkAssumption DEF Between
  <2>2. CASE s # walk.show
    BY <1>3, <2>2 DEF WalkInv, NothingSteppedOver
  <2>q. QED
    BY <2>1, <2>2
<1>q. QED
  BY <1>1, <1>2, <1>3, <1>4 DEF WalkInv, WalkShape

-----------------------------------------------------------------------------
(* The steps of a run                                                      *)

\* The run reads where the show is.
LEMMA VisitKeeps ==
    ASSUME WalkInv, NEW s \in Shows, VisitShow(s)
    PROVE  WalkInv'
<1> DEFINE anchor == IF pdoc[s].anchor = NONE THEN now ELSE pdoc[s].anchor
           floor  == anchor - window[s]
           cursor == IF pdoc[s].cursor = NONE THEN anchor - 1 ELSE pdoc[s].cursor
<1>1. /\ UNCHANGED <<now, window, pdoc, done>>
      /\ walk' = [walk EXCEPT !.todo = @ \ {s}, !.show = s, !.cursor = cursor,
                              !.anchor = anchor, !.floor = floor,
                              !.left = MonthsPerRun, !.created = 0]
      /\ at' = IF cursor < floor
               THEN IF pdoc[s].complete THEN "shows" ELSE "complete"
               ELSE IF pdoc[s].anchor = NONE THEN "pin" ELSE "fetch"
  BY DEF VisitShow, floor_from_anchor, previous_month
<1>2. anchor \in Nat /\ anchor >= FirstMonth
  BY DEF WalkInv, WalkShape
<1>3. floor \in Nat /\ floor > 0 /\ floor <= anchor - Window
  BY <1>2, WalkAssumption DEF WalkInv, WalkShape
<1>4. cursor \in Nat /\ \A m \in (cursor + 1)..(anchor - 1) : m \in done[s]
  <2>1. CASE pdoc[s].cursor = NONE
    <3>1. cursor = anchor - 1
      BY <2>1
    <3>q. QED
      BY <1>2, <3>1, WalkAssumption
  <2>2. CASE pdoc[s].cursor # NONE
    BY <2>2 DEF WalkInv, WalkShape, NothingSteppedOver
  <2>q. QED
    BY <2>1, <2>2
<1> HIDE DEF anchor, floor, cursor
<1>5. DOMAIN walk = {"todo", "budget", "show", "cursor", "anchor", "floor", "left", "entries",
                     "created"} /\ walk.todo \subseteq Shows
  BY DEF WalkInv, WalkShape
<1>6. /\ walk'.show = s /\ walk'.cursor = cursor /\ walk'.anchor = anchor
      /\ walk'.floor = floor /\ walk'.todo \subseteq Shows /\ DOMAIN walk' = DOMAIN walk
  <2>1. walk' = [x \in DOMAIN walk |->
                    CASE x = "todo" -> walk.todo \ {s} [] x = "show" -> s
                      [] x = "cursor" -> cursor [] x = "anchor" -> anchor
                      [] x = "floor" -> floor [] x = "left" -> MonthsPerRun
                      [] x = "created" -> 0 [] OTHER -> walk[x]]
    BY <1>1, <1>5
  <2>q. QED
    BY <2>1, <1>5
<1>7. WalkShape' /\ NothingSteppedOver'
  BY <1>1, <1>5, <1>6 DEF WalkInv, WalkShape, NothingSteppedOver
<1>8. RunKnows'
  BY <1>1, <1>2, <1>3, <1>4, <1>6 DEF RunKnows, Visiting, Between
<1>q. QED
  BY <1>7, <1>8 DEF WalkInv

\* The run writes where the show is, and goes on with it or with the next.
LEMMA RecordKeeps ==
    ASSUME WalkInv, RecordComplete \/ PinAnchor \/ ShowDone
    PROVE  WalkInv'
<1>0. at \in Visiting /\ UNCHANGED <<now, window, done>>
  BY DEF RecordComplete, PinAnchor, ShowDone, Visiting
<1>1. \E complete \in BOOLEAN :
          MarkProgress(walk.show, complete) /\ (complete => walk.cursor < walk.floor)
  <2>1. CASE RecordComplete
    <3>1. MarkProgress(walk.show, TRUE) /\ walk.cursor < walk.floor
      BY <2>1 DEF RecordComplete, WalkInv, RunKnows, Visiting
    <3>q. QED
      BY <3>1
  <2>2. CASE PinAnchor
    <3>1. MarkProgress(walk.show, FALSE)
      BY <2>2 DEF PinAnchor
    <3>q. QED
      BY <3>1
  <2>3. CASE ShowDone
    <3>1. MarkProgress(walk.show, walk.cursor < walk.floor)
      BY <2>3 DEF ShowDone
    <3>2. CASE walk.cursor < walk.floor
      <4>1. (walk.cursor < walk.floor) = TRUE
        BY <3>2
      <4>q. QED
        BY <3>1, <3>2, <4>1
    <3>3. CASE ~(walk.cursor < walk.floor)
      <4>1. (walk.cursor < walk.floor) = FALSE
        BY <3>3
      <4>q. QED
        BY <3>1, <4>1
    <3>q. QED
      BY <3>2, <3>3
  <2>q. QED
    BY <2>1, <2>2, <2>3
<1>2. /\ NothingSteppedOver'
      /\ DOMAIN pdoc' = Shows
      /\ \A s \in Shows :
            /\ DOMAIN pdoc'[s] = {"cursor", "anchor", "complete"}
            /\ pdoc'[s].cursor \in Nat \cup {NONE}
            /\ \/ pdoc'[s].anchor = NONE
               \/ pdoc'[s].anchor \in Nat /\ pdoc'[s].anchor >= FirstMonth
  BY <1>0, <1>1, ProgressKeeps
<1>3. CASE PinAnchor
  <2>1. walk' = walk /\ at = "pin" /\ at' = "fetch"
    BY <1>3 DEF PinAnchor
  <2>q. QED
    BY <1>0, <1>2, <2>1 DEF WalkInv, WalkShape, RunKnows, Visiting
<1>4. CASE RecordComplete \/ ShowDone
  <2>1. /\ at' = "shows"
        /\ \E budget : walk' = [NoWalk EXCEPT !.todo = walk.todo, !.budget = budget]
    BY <1>4 DEF RecordComplete, ShowDone, NextShow
  <2>2. /\ DOMAIN walk' = {"todo", "budget", "show", "cursor", "anchor", "floor", "left",
                           "entries", "created"}
        /\ walk'.todo = walk.todo
    BY <2>1 DEF NoWalk
  <2>q. QED
    BY <1>0, <1>2, <2>1, <2>2 DEF WalkInv, WalkShape, RunKnows, Visiting
<1>q. QED
  BY <1>3, <1>4

\* A month is done before the cursor goes below it.
LEMMA MonthKeeps ==
    ASSUME WalkInv, FetchFeed \/ MonthOver \/ \E e \in Entries : IngestEntry(e)
    PROVE  WalkInv'
<1>0. /\ UNCHANGED <<now, window, pdoc>>
      /\ at \in {"fetch", "month"}
      /\ DOMAIN done = Shows
      /\ DOMAIN walk = {"todo", "budget", "show", "cursor", "anchor", "floor", "left",
                        "entries", "created"}
  BY DEF FetchFeed, MonthOver, IngestEntry, WalkInv, WalkShape
<1>1. /\ walk.show \in Shows
      /\ walk.cursor \in Nat /\ walk.anchor \in Nat /\ walk.floor \in Nat
      /\ walk.anchor >= FirstMonth
      /\ walk.floor > 0 /\ walk.floor <= walk.anchor - Window
      /\ \A m \in (walk.cursor + 1)..(walk.anchor - 1) : m \in done[walk.show]
      /\ walk.cursor >= walk.floor
  BY <1>0 DEF WalkInv, RunKnows, Visiting, Between
<1>2. CASE FetchFeed \/ \E e \in Entries : IngestEntry(e)
  <2>1. /\ at' = "month" /\ done' = done
        /\ walk'.show = walk.show /\ walk'.cursor = walk.cursor
        /\ walk'.anchor = walk.anchor /\ walk'.floor = walk.floor
        /\ walk'.todo = walk.todo /\ DOMAIN walk' = DOMAIN walk
    BY <1>0, <1>2 DEF FetchFeed, IngestEntry
  <2>2. WalkShape' /\ NothingSteppedOver'
    BY <1>0, <2>1 DEF WalkInv, WalkShape, NothingSteppedOver
  <2>3. RunKnows'
    BY <1>0, <1>1, <2>1 DEF RunKnows, Visiting, Between
  <2>q. QED
    BY <2>2, <2>3 DEF WalkInv
<1>3. CASE MonthOver
  <2>1. /\ done' = [done EXCEPT ![walk.show] = @ \cup {walk.cursor}]
        /\ walk'.show = walk.show /\ walk'.cursor = walk.cursor - 1
        /\ walk'.anchor = walk.anchor /\ walk'.floor = walk.floor
        /\ walk'.todo = walk.todo /\ DOMAIN walk' = DOMAIN walk
        /\ \/ at' = "mark"
           \/ at' = "month" /\ walk.cursor - 1 >= walk.floor
    BY <1>0, <1>3 DEF MonthOver, previous_month
  <2>2. \A s \in Shows : /\ done[s] \subseteq done'[s]
                         /\ s = walk.show => walk.cursor \in done'[s]
    BY <1>0, <1>1, <2>1
  <2>3. WalkShape'
    BY <1>0, <2>1 DEF WalkInv, WalkShape
  <2>4. NothingSteppedOver'
    BY <1>0, <2>2 DEF WalkInv, NothingSteppedOver
  <2>5. \A m \in ((walk.cursor - 1) + 1)..(walk.anchor - 1) : m \in done'[walk.show]
    BY <1>1, <2>2
  <2>6. RunKnows'
    BY <1>1, <2>1, <2>5 DEF RunKnows, Visiting, Between
  <2>q. QED
    BY <2>3, <2>4, <2>6 DEF WalkInv
<1>q. QED
  BY <1>2, <1>3

-----------------------------------------------------------------------------
(* What happens beside                                                     *)

\* A rewind takes back what the document says; a wider window lies below the old floor.
LEMMA OwnerKeeps ==
    ASSUME WalkInv, NEW s \in Shows, Rewind(s) \/ Widen(s)
    PROVE  WalkInv'
<1>1. at' = at /\ walk' = walk /\ now' = now /\ done' = done
  BY DEF Rewind, Widen, docsVars
<1>2. RunKnows'
  BY <1>1 DEF WalkInv, RunKnows
<1>3. CASE Rewind(s)
  <2>1. window' = window /\ pdoc' = [pdoc EXCEPT ![s] =
                                       [pdoc[s] EXCEPT !.cursor = NONE, !.complete = FALSE]]
    BY <1>3 DEF Rewind, WalkInv, WalkShape
  <2>2. \A r \in Shows :
            /\ DOMAIN pdoc'[r] = {"cursor", "anchor", "complete"}
            /\ pdoc'[r].anchor = pdoc[r].anchor
            /\ IF r = s THEN pdoc'[r].cursor = NONE /\ pdoc'[r].complete = FALSE
                        ELSE pdoc'[r] = pdoc[r]
    BY <2>1 DEF WalkInv, WalkShape
  <2>3. DOMAIN pdoc' = Shows
    BY <2>1 DEF WalkInv, WalkShape
  <2>4. WalkShape'
    BY <1>1, <2>1, <2>2, <2>3 DEF WalkInv, WalkShape
  <2>5. NothingSteppedOver'
    BY <1>1, <2>2 DEF WalkInv, NothingSteppedOver
  <2>q. QED
    BY <1>2, <2>4, <2>5 DEF WalkInv
<1>4. CASE Widen(s)
  <2>1. pdoc' = pdoc /\ window' = [window EXCEPT ![s] = window[s] + 1] /\ window[s] < MaxWindow
    BY <1>4 DEF Widen
  <2>2. WalkShape'
    BY <1>1, <2>1, WalkAssumption DEF WalkInv, WalkShape
  <2>3. NothingSteppedOver'
    BY <1>1, <2>1 DEF WalkInv, NothingSteppedOver
  <2>q. QED
    BY <1>2, <2>2, <2>3 DEF WalkInv
<1>q. QED
  BY <1>3, <1>4

LEMMA CalendarKeeps ==
    ASSUME WalkInv, MonthTurns
    PROVE  WalkInv'
<1>1. /\ now' = now + 1 /\ at' = at
      /\ UNCHANGED <<window, pdoc, walk, done>>
  BY DEF MonthTurns, docsVars
<1>2. WalkShape'
  BY <1>1, WalkAssumption DEF WalkInv, WalkShape
<1>3. RunKnows' /\ NothingSteppedOver'
  BY <1>1 DEF WalkInv, RunKnows, NothingSteppedOver
<1>q. QED
  BY <1>2, <1>3 DEF WalkInv

\* The processing and the files never lead back into the walk of a show.
LEMMA RestStaysOut ==
    ASSUME ProcessStep \/ ProcessMishap \/ ArchiveStep \/ ArchiveMishap
    PROVE  at' = at \/ at' \notin Visiting
<1>1. CASE ProcessStep \/ ProcessMishap
  BY <1>1 DEF ProcessStep, ProcessMishap, ReadQueue, StageOver, StageStopsEarly, StageDeferred,
     Leaves, After, Stages, Takes, TriageOne, DispatchOne, SummarizeOne, ClassifyOne,
     ClassifyFails, TranscribeOne, TranscribeLater, ItemFails, docsVars, Visiting
<1>2. CASE ArchiveStep \/ ArchiveMishap
  BY <1>2 DEF ArchiveStep, ArchiveMishap, Collect, SkipIncomplete, OpenMonth, WriteMonth,
     PutMonth, ClaimOne, ClaimRefused, MarkComplete, MarkRefused, MonthsOver, WritingFails,
     docsVars, Visiting
<1>q. QED
  BY <1>1, <1>2

LEMMA WalkingKeeps ==
    ASSUME WalkInv, WalkStep
    PROVE  WalkInv'
<1>1. CASE ShowsOver \/ WalkStopsEarly
  <2>1. /\ at' = "triage" /\ walk' = NoWalk /\ UNCHANGED <<now, window, pdoc, done>>
    BY <1>1 DEF ShowsOver, WalkStopsEarly
  <2>q. QED
    BY <2>1, WalkEnds DEF Visiting
<1>q. QED
  BY <1>1, VisitKeeps, RecordKeeps, MonthKeeps DEF WalkStep

LEMMA WalkInvariant == WalkInv /\ [Next]_vars => WalkInv'
<1> SUFFICES ASSUME WalkInv, [Next]_vars PROVE WalkInv'
  OBVIOUS
<1>1. CASE Start
  <2>1. /\ at' = "shows" /\ UNCHANGED <<now, window, pdoc, done>>
        /\ walk' = [NoWalk EXCEPT !.todo = Shows, !.budget = EpisodesPerRun]
    BY <1>1 DEF Start, Begins, WalkBegins
  <2>q. QED
    BY <2>1, WalkForgets DEF Visiting
<1>2. CASE Walking
  BY <1>2, WalkingKeeps DEF Walking
<1>3. CASE Processing \/ Writing \/ WritingMishap
  BY <1>3, RestStaysOut, WalkUntouched DEF Processing, Writing, WritingMishap
<1>4. CASE Setback
  <2>1. ASSUME ShowFails PROVE WalkInv'
    <3>1. /\ at' = "shows" /\ UNCHANGED <<now, window, pdoc, done>>
          /\ walk' = [NoWalk EXCEPT !.todo = walk.todo, !.budget = walk.budget]
          /\ walk.todo \subseteq Shows
      BY <2>1 DEF ShowFails, NextShow, WalkInv, WalkShape
    <3>q. QED
      BY <3>1, WalkForgets DEF Visiting
  <2>2. ASSUME ProcessMishap, UNCHANGED walkVars PROVE WalkInv'
    BY <2>2, RestStaysOut, WalkUntouched
  <2>q. QED
    BY <1>4, <2>1, <2>2 DEF Setback
<1>5. CASE Crash
  <2>1. /\ at' = "idle" /\ walk' = NoWalk /\ UNCHANGED <<now, window, pdoc, done>>
    BY <1>5 DEF Crash
  <2>q. QED
    BY <2>1, WalkEnds DEF Visiting
<1>6. CASE Owner
  <2>1. ASSUME NEW e \in Entries, Retry(e) \/ Escalate(e) PROVE WalkInv'
    BY <2>1, WalkUntouched DEF Retry, Escalate
  <2>q. QED
    BY <1>6, <2>1, OwnerKeeps DEF Owner, Recorded
<1>7. CASE World
  <2>1. ASSUME NEW reason, Switch(reason), UNCHANGED walkVars PROVE WalkInv'
    BY <2>1, WalkUntouched DEF Switch
  <2>q. QED
    BY <1>7, <2>1, CalendarKeeps DEF World
<1>8. CASE UNCHANGED vars
  BY <1>8, WalkUntouched DEF vars, docsVars
<1>q. QED
  BY <1>1, <1>2, <1>3, <1>4, <1>5, <1>6, <1>7, <1>8 DEF Next

\* Through failures, crashes, rewinds during a walk, wider windows and turns of the month:
\* a month the cursor has passed, some run has been through, and a show said to be complete
\* is walked down to the floor of its anchor (backfill/ingest.py:104-113, 182-258).
THEOREM WalkStepsOverNothing == Spec => []NothingSteppedOver
<1>1. WalkInv => NothingSteppedOver
  BY DEF WalkInv
<1>q. QED
  BY WalkStarts, WalkInvariant, <1>1, PTL DEF Spec

-----------------------------------------------------------------------------
(* The files: claimed once, listed once                                    *)

Shelving == {"months", "file", "put", "claim"}

Claimed == {e \in Recorded : adoc[e].claimed}

\* What the files' part works on is recorded and on the calendar.
ShelfShape ==
    /\ DOMAIN adoc = Entries /\ \A e \in Recorded : adoc[e] \in ArchiveDoc
    /\ queue # NONE => queue \subseteq Recorded
    /\ at = "classify" => scoring \in Recorded
    /\ DOMAIN members = Entries /\ \A e \in Entries : members[e] # NONE => e \in Recorded
    /\ listed \in [Entries -> Nat]
    /\ DOMAIN file = Keys
    /\ months \subseteq Keys
    /\ at \in {"file", "put", "claim"} => month \in Keys
    /\ at = "claim" => todo \subseteq MembersOf(month)

\* An unclaimed episode that is in a file is one the run is about to claim.
ListedIsClaimed ==
    \A e \in Entries \ escalated :
        listed[e] > 0 => \/ e \in Claimed
                         \/ at = "put" /\ e \in MembersOf(month)
                         \/ at = "claim" /\ e \in todo

\* What the run has still to write is in no file, and what it is about to claim is in one.
FilesAhead ==
    /\ at \in Shelving => \A e \in Entries \ escalated :
                              members[e] # NONE /\ KeyOf(e) \in months => listed[e] = 0
    /\ at = "file" => \A e \in MembersOf(month) \ escalated : listed[e] = 0
    /\ at = "put" => \A e \in MembersOf(month) : listed[e] > 0
    /\ at = "claim" => \A e \in todo : listed[e] > 0
    /\ at \in {"file", "put", "claim"} => month \notin months

\* The only half-claimed month is the one the run is claiming.
HalfClaimed ==
    /\ \A k \in Keys : file[k] # NONE /\ ~file[k].complete => at = "claim" /\ month = k
    /\ at = "claim" => DOMAIN file[month] = {"ids", "complete"}

ShelfInv ==
    /\ ShelfShape
    /\ ~hurt => ListedIsClaimed /\ FilesAhead /\ HalfClaimed
    /\ ShelvedOnce

LEMMA ShelfStarts == Init => ShelfInv
<1> SUFFICES ASSUME Init PROVE ShelfInv
  OBVIOUS
<1>1. /\ adoc = [e \in Entries |-> NONE] /\ at = "idle" /\ queue = NONE /\ months = {}
      /\ members = [e \in Entries |-> NONE] /\ listed = [e \in Entries |-> 0]
      /\ file = [k \in Keys |-> NONE] /\ escalated = {}
  BY DEF Init, DocsInit, ProcessInit, ArchiveInit
<1>2. Recorded = {}
  BY <1>1 DEF Recorded
<1>3. ShelfShape
  BY <1>1, <1>2 DEF ShelfShape
<1>4. ListedIsClaimed /\ FilesAhead /\ HalfClaimed
  BY <1>1 DEF ListedIsClaimed, FilesAhead, HalfClaimed, Shelving
<1>5. ShelvedOnce
  BY <1>1, <1>2 DEF ShelvedOnce
<1>q. QED
  BY <1>3, <1>4, <1>5 DEF ShelfInv

\* A write that loses no document, makes no claim and takes none off but by escalating.
DocsKept ==
    /\ DOMAIN adoc' = Entries
    /\ escalated \subseteq escalated'
    /\ \A e \in Entries :
          /\ adoc'[e] # NONE => adoc'[e] \in ArchiveDoc
          /\ adoc[e] # NONE => adoc'[e] # NONE
          /\ e \in Claimed' => e \in Claimed
          /\ e \in Claimed => e \in Claimed' \cup escalated'

LEMMA OneDocKept ==
    ASSUME ShelfShape, NEW e \in Recorded, NEW d \in ArchiveDoc,
           adoc' = [adoc EXCEPT ![e] = d], escalated \subseteq escalated',
           \/ d.claimed = adoc[e].claimed
           \/ ~d.claimed /\ e \in escalated'
    PROVE  DocsKept
<1>1. DOMAIN adoc = Entries /\ e \in Entries
  BY DEF ShelfShape, Recorded
<1>2. adoc'[e] = d /\ \A f \in Entries \ {e} : adoc'[f] = adoc[f]
  BY <1>1
<1>3. d # NONE
  BY NoDocAssumption
<1>4. \A f \in Entries \ {e} : f \in Claimed' <=> f \in Claimed
  BY <1>2 DEF Claimed, Recorded
<1>5. e \in Claimed' <=> d.claimed
  BY <1>1, <1>2, <1>3 DEF Claimed, Recorded
<1>6. e \in Claimed <=> adoc[e].claimed
  BY DEF Claimed
<1>7. ASSUME NEW f \in Entries
      PROVE  /\ adoc'[f] # NONE => adoc'[f] \in ArchiveDoc
             /\ adoc[f] # NONE => adoc'[f] # NONE
             /\ f \in Claimed' => f \in Claimed
             /\ f \in Claimed => f \in Claimed' \cup escalated'
  <2>1. CASE f = e
    BY <1>2, <1>3, <1>5, <1>6, <2>1
  <2>2. CASE f # e
    BY <1>2, <1>4, <2>2 DEF ShelfShape, Recorded
  <2>q. QED
    BY <2>1, <2>2
<1>q. QED
  BY <1>1, <1>7 DEF DocsKept

LEMMA NextStatuses ==
    ASSUME NEW s \in EpisodeStatus, NEW t, CanTransition(s, t)
    PROVE  t \in EpisodeStatus
BY DEF EpisodeStatus, CanTransition, ALLOWED_TRANSITIONS

LEMMA AcceptedStatus ==
    ASSUME ShelfShape, NEW e \in Recorded, NEW t, Accepts(e, t)
    PROVE  t \in EpisodeStatus
<1>1. adoc[e].status \in EpisodeStatus
  BY DEF ShelfShape, ArchiveDoc
<1>q. QED
  BY <1>1, NextStatuses DEF Accepts

LEMMA MovedKept ==
    ASSUME ShelfShape, NEW e \in Recorded, NEW t, Accepts(e, t), escalated' = escalated,
           adoc' = Moved(e, t)
    PROVE  DocsKept
<1>1. t \in EpisodeStatus
  BY AcceptedStatus
<1>2. adoc[e] \in ArchiveDoc /\ e \in Entries /\ DOMAIN adoc = Entries
  BY DEF ShelfShape, Recorded
<1>3. /\ [adoc[e] EXCEPT !.status = t] \in ArchiveDoc
      /\ [adoc[e] EXCEPT !.status = t].claimed = adoc[e].claimed
  BY <1>1, <1>2 DEF ArchiveDoc
<1>4. adoc' = [adoc EXCEPT ![e] = [adoc[e] EXCEPT !.status = t]]
  BY DEF Moved
<1>q. QED
  BY <1>3, <1>4, OneDocKept

LEMMA ErroredKept ==
    ASSUME ShelfShape, NEW e \in Recorded, escalated' = escalated, adoc' = Errored(e)
    PROVE  DocsKept
<1>1. adoc[e] \in ArchiveDoc /\ e \in Entries /\ DOMAIN adoc = Entries
  BY DEF ShelfShape, Recorded
<1> DEFINE t == IF CanTransition(adoc[e].status, "ERROR") THEN "ERROR" ELSE adoc[e].status
           d == [adoc[e] EXCEPT !.failedAt = adoc[e].status, !.status = t]
<1>2. adoc[e].status \in EpisodeStatus /\ t \in EpisodeStatus
  BY <1>1 DEF ArchiveDoc, EpisodeStatus
<1>3. d \in ArchiveDoc /\ d.claimed = adoc[e].claimed
  <2> HIDE DEF t
  <2>q. QED
    BY <1>1, <1>2 DEF ArchiveDoc
<1>4. adoc' = [adoc EXCEPT ![e] = d]
  BY <1>1 DEF Errored
<1>q. QED
  BY <1>3, <1>4, OneDocKept

LEMMA NoDocWritten ==
    ASSUME ShelfShape, adoc' = adoc, escalated' = escalated
    PROVE  DocsKept
BY DEF ShelfShape, DocsKept, Claimed, Recorded

\* The processing's own state: what it is at is recorded.
QueueShape ==
    /\ queue # NONE => queue \subseteq Recorded
    /\ at = "classify" => scoring \in Recorded

\* Whatever keeps the documents and leaves the files to themselves.
LEMMA ElsewhereKeeps ==
    ASSUME ShelfInv, DocsKept, UNCHANGED digestVars, hurt' = hurt, QueueShape',
           at' = at \/ (at \notin Shelving /\ at' \notin Shelving)
    PROVE  ShelfInv'
<1>0. UNCHANGED <<months, members, month, todo, file, listed>>
  BY DEF digestVars
<1>1. /\ DOMAIN adoc' = Entries
      /\ \A e \in Recorded' : adoc'[e] \in ArchiveDoc
      /\ Recorded \subseteq Recorded'
      /\ Claimed' \subseteq Claimed /\ Claimed \subseteq Claimed' \cup escalated'
      /\ escalated \subseteq escalated'
  BY DEF DocsKept, Recorded, Claimed
<1>2. \A k : MembersOf(k)' = MembersOf(k)
  BY <1>0 DEF MembersOf
<1>3. ShelfShape'
  BY <1>0, <1>1, <1>2 DEF ShelfInv, ShelfShape, QueueShape, Shelving
<1>4. ASSUME ~hurt PROVE ListedIsClaimed' /\ FilesAhead' /\ HalfClaimed'
  <2>0. ListedIsClaimed /\ FilesAhead /\ HalfClaimed
    BY <1>4 DEF ShelfInv
  <2>1. ListedIsClaimed'
    BY <1>0, <1>1, <1>2, <2>0 DEF ListedIsClaimed, Shelving
  <2>2. FilesAhead'
    BY <1>0, <1>1, <1>2, <2>0 DEF FilesAhead, Shelving
  <2>3. HalfClaimed'
    BY <1>0, <2>0 DEF HalfClaimed, Shelving
  <2>q. QED
    BY <2>1, <2>2, <2>3
<1>5. ShelvedOnce'
  <2>1. ShelvedOnce = (~hurt => /\ \A e \in Claimed : listed[e] > 0
                                /\ \A e \in Entries \ escalated : listed[e] <= 1)
    BY DEF ShelvedOnce, Claimed
  <2>q. QED
    BY <1>0, <1>1 DEF ShelfInv, ShelvedOnce, Claimed
<1>q. QED
  BY <1>3, <1>4, <1>5 DEF ShelfInv

\* The processing is at recorded episodes only, and moves their statuses.
LEMMA ProcessKept ==
    ASSUME ShelfShape, ProcessStep \/ ProcessMishap, escalated' = escalated
    PROVE  /\ DocsKept /\ QueueShape'
           /\ at' = at \/ (at \notin Shelving /\ at' \notin Shelving)
<1>0. QueueShape
  BY DEF ShelfShape, QueueShape
<1>1. DocsKept => Recorded \subseteq Recorded'
  BY DEF DocsKept, Recorded
<1>2. CASE ReadQueue
  <2>1. DocsKept
    BY <1>2, NoDocWritten DEF ReadQueue, docsVars
  <2>2. WithStatus(Takes[at]) \subseteq Recorded
    BY DEF WithStatus
  <2>q. QED
    BY <1>0, <1>1, <1>2, <2>1, <2>2 DEF ReadQueue, docsVars, QueueShape, Recorded
<1>3. CASE StageOver \/ StageStopsEarly \/ StageDeferred
  <2>1. DocsKept
    BY <1>3, NoDocWritten DEF StageOver, StageStopsEarly, StageDeferred
  <2>2. at \in Stages /\ queue' = NONE /\ at' \in {After[at], "collect"}
    BY <1>3 DEF StageOver, StageStopsEarly, StageDeferred, Leaves
  <2>3. at \notin Shelving /\ at' \notin Shelving /\ at' # "classify"
    BY <2>2 DEF Stages, Takes, After, Shelving
  <2>q. QED
    BY <2>1, <2>2, <2>3 DEF QueueShape
<1>4. ASSUME NEW e, Takes1(e)
      PROVE  /\ e \in Recorded
             /\ queue' \subseteq Recorded
  BY <1>0, <1>4 DEF Takes1, QueueShape
<1>5. ASSUME DocsKept, at' = at, queue' \subseteq Recorded, at \in Stages
      PROVE  DocsKept /\ QueueShape'
  BY <1>1, <1>5 DEF QueueShape, Stages, Takes
<1>6. ASSUME NEW e \in Entries, TriageOne(e) PROVE DocsKept /\ QueueShape' /\ at' = at
  <2>1. e \in Recorded /\ queue' \subseteq Recorded /\ at = "triage" /\ at' = at
    BY <1>4, <1>6 DEF TriageOne
  <2>2. DocsKept
    <3>1. CASE adoc' = Errored(e)
      BY <2>1, <3>1, ErroredKept
    <3>2. ASSUME NEW route \in Route, Accepts(e, "TRIAGED"),
                 adoc' = [Moved(e, "TRIAGED") EXCEPT ![e].route = route]
          PROVE  DocsKept
      <4>1. adoc[e] \in ArchiveDoc /\ e \in Entries /\ DOMAIN adoc = Entries
        BY <2>1 DEF ShelfShape, Recorded
      <4>2. /\ [adoc[e] EXCEPT !.status = "TRIAGED", !.route = route] \in ArchiveDoc
            /\ [adoc[e] EXCEPT !.status = "TRIAGED", !.route = route].claimed
                  = adoc[e].claimed
        BY <4>1 DEF ArchiveDoc, EpisodeStatus
      <4>3. adoc' = [adoc EXCEPT ![e] = [adoc[e] EXCEPT !.status = "TRIAGED",
                                                       !.route = route]]
        BY <3>2, <4>1 DEF Moved
      <4>q. QED
        BY <2>1, <4>2, <4>3, OneDocKept
    <3>q. QED
      BY <1>6, <3>1, <3>2 DEF TriageOne
  <2>q. QED
    BY <1>5, <2>1, <2>2 DEF Stages, Takes
<1>7. ASSUME NEW e \in Entries, DispatchOne(e) PROVE DocsKept /\ QueueShape' /\ at' = at
  <2>1. e \in Recorded /\ queue' \subseteq Recorded /\ at = "dispatch" /\ at' = at
    BY <1>4, <1>7 DEF DispatchOne
  <2>2. DocsKept
    BY <1>7, <2>1, MovedKept, ErroredKept DEF DispatchOne
  <2>q. QED
    BY <1>5, <2>1, <2>2 DEF Stages, Takes
<1>8. ASSUME NEW e \in Entries, SummarizeOne(e)
      PROVE  DocsKept /\ QueueShape' /\ at \notin Shelving /\ at' \notin Shelving
  <2>1. e \in Recorded /\ queue' \subseteq Recorded /\ at = "summarize"
    BY <1>4, <1>8 DEF SummarizeOne
  <2>2. DocsKept
    BY <1>8, <2>1, MovedKept, ErroredKept DEF SummarizeOne
  <2>3. \/ at' = "classify" /\ scoring' = e
        \/ at' = at
    BY <1>8 DEF SummarizeOne
  <2>q. QED
    BY <1>1, <2>1, <2>2, <2>3 DEF QueueShape, Shelving
<1>9. CASE ClassifyOne \/ ClassifyFails
  <2>1. at = "classify" /\ at' = "summarize" /\ queue' = queue /\ scoring \in Recorded
    BY <1>0, <1>9 DEF ClassifyOne, ClassifyFails, QueueShape
  <2>2. DocsKept
    BY <1>9, <2>1, MovedKept, ErroredKept DEF ClassifyOne, ClassifyFails
  <2>q. QED
    BY <1>0, <1>1, <2>1, <2>2 DEF QueueShape, Shelving
<1>10. ASSUME NEW e \in Entries, TranscribeOne(e) \/ TranscribeLater(e) \/ ItemFails(e)
       PROVE  DocsKept /\ QueueShape' /\ at' = at
  <2>1. e \in Recorded /\ queue' \subseteq Recorded /\ at \in Stages /\ at' = at
    BY <1>4, <1>10 DEF TranscribeOne, TranscribeLater, ItemFails, Stages, Takes
  <2>2. DocsKept
    BY <1>10, <2>1, MovedKept, ErroredKept, NoDocWritten
       DEF TranscribeOne, TranscribeLater, ItemFails
  <2>q. QED
    BY <1>5, <2>1, <2>2
<1>q. QED
  BY <1>2, <1>3, <1>6, <1>7, <1>8, <1>9, <1>10 DEF ProcessStep, ProcessMishap

\* The walk records an entry the first time it meets it.
LEMMA WalkKept ==
    ASSUME ShelfShape, Start \/ WalkStep \/ ShowFails, UNCHANGED <<processVars, escalated>>
    PROVE  /\ DocsKept /\ QueueShape'
           /\ at' = at \/ (at \notin Shelving /\ at' \notin Shelving)
<1>1. DocsKept => Recorded \subseteq Recorded'
  BY DEF DocsKept, Recorded
<1>2. QueueShape /\ queue' = queue /\ scoring' = scoring
  BY DEF ShelfShape, QueueShape, processVars
<1>3. \/ at' = at
      \/ at \notin Shelving /\ at' \notin Shelving /\ at' # "classify"
  BY DEF Start, Begins, ShowFails, WalkStep, ShowsOver, WalkStopsEarly, VisitShow,
     RecordComplete, PinAnchor, FetchFeed, IngestEntry, MonthOver, ShowDone, Shelving
<1>4. DocsKept
  <2>1. CASE adoc' = adoc
    BY <2>1, NoDocWritten
  <2>2. ASSUME NEW e \in Entries, IngestEntry(e) PROVE DocsKept
    <3>1. CASE adoc[e] # NONE
      BY <2>1, <2>2, <3>1 DEF IngestEntry
    <3>2. CASE adoc[e] = NONE
      <4>1. adoc' = [adoc EXCEPT ![e] = NewEntry] /\ DOMAIN adoc = Entries
        BY <2>2, <3>2 DEF IngestEntry, ShelfShape
      <4>2. adoc'[e] = NewEntry /\ \A f \in Entries \ {e} : adoc'[f] = adoc[f]
        BY <4>1
      <4>3. NewEntry \in ArchiveDoc /\ ~NewEntry.claimed
        BY DEF NewEntry, ArchiveDoc, EpisodeStatus
      <4>4. e \notin Claimed' /\ e \notin Claimed
        BY <3>2, <4>2, <4>3 DEF Claimed, Recorded
      <4>5. \A f \in Entries \ {e} : f \in Claimed' <=> f \in Claimed
        BY <4>2 DEF Claimed, Recorded
      <4>q. QED
        BY <3>2, <4>1, <4>2, <4>3, <4>4, <4>5 DEF DocsKept, ShelfShape, Recorded
    <3>q. QED
      BY <3>1, <3>2
  <2>q. QED
    BY <2>1, <2>2 DEF Start, Begins, WalkBegins, ShowFails, WalkStep, ShowsOver,
       WalkStopsEarly, VisitShow, RecordComplete, PinAnchor, FetchFeed, MonthOver, ShowDone
<1>q. QED
  BY <1>1, <1>2, <1>3, <1>4 DEF QueueShape

\* A retry keeps a claim, an escalation takes it off and says so.
LEMMA OwnerKept ==
    ASSUME ShelfShape, Owner
    PROVE  DocsKept /\ QueueShape' /\ at' = at
<1>1. DocsKept => Recorded \subseteq Recorded'
  BY DEF DocsKept, Recorded
<1>2. QueueShape /\ queue' = queue /\ scoring' = scoring /\ at' = at
  BY DEF ShelfShape, QueueShape, Owner, Retry, Escalate, Rewind, Widen, docsVars, processVars
<1>3. ASSUME NEW s \in Shows, Rewind(s) \/ Widen(s), UNCHANGED escalated PROVE DocsKept
  BY <1>3, NoDocWritten DEF Rewind, Widen, docsVars
<1>4. ASSUME NEW e \in Recorded, NEW t, Accepts(e, t),
             \/ /\ adoc' = [Moved(e, t) EXCEPT ![e].failedAt = NONE]
                /\ escalated' = escalated
             \/ /\ adoc' = [Moved(e, t) EXCEPT ![e].failedAt = NONE, ![e].claimed = FALSE]
                /\ escalated' = escalated \cup {e}
      PROVE  DocsKept
  <2>1. adoc[e] \in ArchiveDoc /\ e \in Entries /\ DOMAIN adoc = Entries
    BY DEF ShelfShape, Recorded
  <2>2. t \in EpisodeStatus
    BY <1>4, AcceptedStatus
  <2>3. /\ [adoc[e] EXCEPT !.status = t, !.failedAt = NONE] \in ArchiveDoc
        /\ [adoc[e] EXCEPT !.status = t, !.failedAt = NONE].claimed = adoc[e].claimed
        /\ [adoc[e] EXCEPT !.status = t, !.failedAt = NONE, !.claimed = FALSE] \in ArchiveDoc
        /\ [adoc[e] EXCEPT !.status = t, !.failedAt = NONE, !.claimed = FALSE].claimed = FALSE
    BY <2>1, <2>2 DEF ArchiveDoc
  <2>4. \/ /\ adoc' = [adoc EXCEPT ![e] = [adoc[e] EXCEPT !.status = t, !.failedAt = NONE]]
           /\ escalated' = escalated
        \/ /\ adoc' = [adoc EXCEPT ![e] = [adoc[e] EXCEPT !.status = t, !.failedAt = NONE,
                                                          !.claimed = FALSE]]
           /\ escalated' = escalated \cup {e}
    BY <1>4, <2>1 DEF Moved
  <2>q. QED
    BY <2>3, <2>4, OneDocKept
<1>5. ASSUME NEW e \in Recorded, Retry(e) \/ Escalate(e) PROVE DocsKept
  BY <1>4, <1>5 DEF Retry, Escalate
<1>q. QED
  BY <1>1, <1>2, <1>3, <1>5 DEF Owner, QueueShape

-----------------------------------------------------------------------------
(* The files                                                               *)

LEMMA CollectShelf ==
    ASSUME ShelfInv, Collect, UNCHANGED <<processVars, hurt, escalated>>
    PROVE  ShelfInv'
<1>1. /\ at = "collect" /\ at' = "months"
      /\ UNCHANGED <<month, todo, file, listed, adoc, queue, scoring, hurt, escalated>>
      /\ members' = [e \in Entries |-> IF e \in Unclaimed THEN adoc[e].status ELSE NONE]
      /\ months' = {KeyOf(e) : e \in Unclaimed}
  BY DEF Collect, processVars
<1>2. Recorded' = Recorded /\ Claimed' = Claimed /\ Unclaimed = Recorded \ Claimed
  BY <1>1 DEF Recorded, Claimed, Unclaimed
<1>3. Unclaimed \subseteq Entries /\ months' \subseteq Keys
  BY <1>1 DEF Unclaimed, Recorded, Keys, KeyOf
<1>4. \A e \in Entries : members'[e] # NONE => e \in Unclaimed
  BY <1>1
<1>5. ShelfShape'
  BY <1>1, <1>2, <1>3, <1>4 DEF ShelfInv, ShelfShape
<1>6. ASSUME ~hurt PROVE ListedIsClaimed' /\ FilesAhead' /\ HalfClaimed'
  <2>0. ListedIsClaimed /\ FilesAhead /\ HalfClaimed
    BY <1>6 DEF ShelfInv
  <2>1. ListedIsClaimed'
    BY <1>1, <1>2, <2>0 DEF ListedIsClaimed
  <2>2. \A e \in Unclaimed \ escalated : listed[e] = 0
    <3>1. \A e \in Unclaimed \ escalated : ~(listed[e] > 0) /\ listed[e] \in Nat
      BY <1>1, <1>2, <1>3, <2>0 DEF ListedIsClaimed, ShelfInv, ShelfShape
    <3>q. QED
      BY <3>1
  <2>3. FilesAhead'
    BY <1>1, <1>4, <2>2 DEF FilesAhead
  <2>4. HalfClaimed'
    BY <1>1, <2>0 DEF HalfClaimed
  <2>q. QED
    BY <2>1, <2>3, <2>4
<1>7. ShelvedOnce'
  BY <1>1, <1>2 DEF ShelfInv, ShelvedOnce, Recorded
<1>q. QED
  BY <1>1, <1>5, <1>6, <1>7 DEF ShelfInv

LEMMA OpenShelf ==
    ASSUME ShelfInv, NEW k \in Keys, SkipIncomplete(k) \/ OpenMonth(k),
           UNCHANGED <<processVars, hurt, escalated>>
    PROVE  ShelfInv'
<1>1. /\ at = "months" /\ k \in months /\ months' = months \ {k}
      /\ UNCHANGED <<members, file, listed, adoc, queue, scoring, hurt, escalated>>
      /\ \/ at' = "months"
         \/ at' = "file" /\ month' = k
         \/ at' = "claim" /\ month' = k /\ todo' = MembersOf(k)
                          /\ file[k] # NONE /\ ~file[k].complete
  BY DEF SkipIncomplete, OpenMonth, docsVars, processVars
<1>2. Recorded' = Recorded /\ Claimed' = Claimed
  BY <1>1 DEF Recorded, Claimed
<1>3. \A j : MembersOf(j)' = MembersOf(j)
  BY <1>1 DEF MembersOf
<1>4. ShelfShape'
  BY <1>1, <1>2, <1>3 DEF ShelfInv, ShelfShape
<1>5. ASSUME ~hurt PROVE ListedIsClaimed' /\ FilesAhead' /\ HalfClaimed'
  <2>0. ListedIsClaimed /\ FilesAhead /\ HalfClaimed
    BY <1>5 DEF ShelfInv
  <2>1. at' \in {"months", "file"} /\ (at' = "file" => month' = k)
    BY <1>1, <2>0 DEF HalfClaimed
  <2>2. ListedIsClaimed'
    BY <1>1, <1>2, <2>0 DEF ListedIsClaimed
  <2>3. \A e \in MembersOf(k) \ escalated : listed[e] = 0
    BY <1>1, <2>0 DEF FilesAhead, Shelving, MembersOf
  <2>4. FilesAhead'
    BY <1>1, <1>3, <2>0, <2>1, <2>3 DEF FilesAhead, Shelving
  <2>5. HalfClaimed'
    BY <1>1, <2>0, <2>1 DEF HalfClaimed
  <2>q. QED
    BY <2>2, <2>4, <2>5
<1>6. ShelvedOnce'
  BY <1>1, <1>2 DEF ShelfInv, ShelvedOnce, Recorded
<1>q. QED
  BY <1>1, <1>4, <1>5, <1>6 DEF ShelfInv

\* The one step that lists: what it lists was in no file, or has been escalated.
LEMMA WriteShelf ==
    ASSUME ShelfInv, WriteMonth, UNCHANGED <<processVars, hurt, escalated>>
    PROVE  ShelfInv'
<1>1. /\ at = "file" /\ at' = "put"
      /\ UNCHANGED <<months, members, month, todo, file, adoc, queue, scoring, hurt,
                     escalated>>
      /\ listed' = [e \in Entries |-> IF e \in MembersOf(month) THEN listed[e] + 1
                                                              ELSE listed[e]]
  BY DEF WriteMonth, processVars
<1>2. Recorded' = Recorded /\ Claimed' = Claimed
  BY <1>1 DEF Recorded, Claimed
<1>3. \A j : MembersOf(j)' = MembersOf(j)
  BY <1>1 DEF MembersOf
<1>4. \A e \in Entries : listed[e] \in Nat
  BY DEF ShelfInv, ShelfShape
<1>5. \A e \in Entries : listed'[e] = IF e \in MembersOf(month) THEN listed[e] + 1
                                                             ELSE listed[e]
  BY <1>1
<1>6. ShelfShape'
  <2>1. listed' \in [Entries -> Nat]
    BY <1>1, <1>4
  <2>q. QED
    BY <1>1, <1>2, <1>3, <2>1 DEF ShelfInv, ShelfShape
<1>7. MembersOf(month) \subseteq Entries
  BY DEF MembersOf
<1>8. ASSUME ~hurt
      PROVE  ListedIsClaimed' /\ FilesAhead' /\ HalfClaimed' /\ ShelvedOnce'
  <2>0. ListedIsClaimed /\ FilesAhead /\ HalfClaimed /\ ShelvedOnce
    BY <1>8 DEF ShelfInv
  <2>1. \A e \in MembersOf(month) \ escalated : listed'[e] = 1
    BY <1>1, <1>5, <1>7, <2>0 DEF FilesAhead
  <2>2. ListedIsClaimed'
    BY <1>1, <1>2, <1>3, <1>5, <2>0 DEF ListedIsClaimed
  <2>3. \A e \in Entries \ escalated :
            members[e] # NONE /\ KeyOf(e) \in months => listed'[e] = 0
    <3>1. month \notin months
      BY <1>1, <2>0 DEF FilesAhead
    <3>2. \A e \in Entries : KeyOf(e) \in months => e \notin MembersOf(month)
      BY <3>1 DEF MembersOf
    <3>q. QED
      BY <1>1, <1>5, <2>0, <3>2 DEF FilesAhead, Shelving
  <2>4. FilesAhead'
    <3>1. \A e \in MembersOf(month) : listed'[e] > 0
      BY <1>4, <1>5, <1>7
    <3>q. QED
      BY <1>1, <1>3, <2>0, <2>3, <3>1 DEF FilesAhead
  <2>5. HalfClaimed'
    BY <1>1, <2>0 DEF HalfClaimed
  <2>6. ShelvedOnce'
    <3>1. \A e \in Recorded : adoc[e].claimed => listed'[e] > 0
      BY <1>4, <1>5, <1>8, <2>0 DEF ShelvedOnce, Recorded
    <3>2. \A e \in Entries \ escalated : listed'[e] <= 1
      BY <1>5, <1>8, <2>0, <2>1 DEF ShelvedOnce
    <3>q. QED
      BY <1>1, <1>2, <3>1, <3>2 DEF ShelvedOnce
  <2>q. QED
    BY <2>2, <2>4, <2>5, <2>6
<1>9. ShelvedOnce'
  BY <1>1, <1>8 DEF ShelvedOnce
<1>q. QED
  BY <1>1, <1>6, <1>8, <1>9 DEF ShelfInv

LEMMA PutShelf ==
    ASSUME ShelfInv, PutMonth, UNCHANGED <<processVars, hurt, escalated>>
    PROVE  ShelfInv'
<1>1. /\ at = "put" /\ at' = "claim" /\ todo' = MembersOf(month)
      /\ UNCHANGED <<months, members, month, listed, adoc, queue, scoring, hurt, escalated>>
      /\ file' = [file EXCEPT ![month] = [ids |-> MembersOf(month), complete |-> FALSE]]
  BY DEF PutMonth, processVars
<1>2. Recorded' = Recorded /\ Claimed' = Claimed
  BY <1>1 DEF Recorded, Claimed
<1>3. \A j : MembersOf(j)' = MembersOf(j)
  BY <1>1 DEF MembersOf
<1>4. /\ month \in Keys /\ DOMAIN file = Keys
      /\ file'[month] = [ids |-> MembersOf(month), complete |-> FALSE]
      /\ \A k \in Keys \ {month} : file'[k] = file[k]
  BY <1>1 DEF ShelfInv, ShelfShape
<1>5. ShelfShape'
  BY <1>1, <1>2, <1>3, <1>4 DEF ShelfInv, ShelfShape
<1>6. ASSUME ~hurt PROVE ListedIsClaimed' /\ FilesAhead' /\ HalfClaimed'
  <2>0. ListedIsClaimed /\ FilesAhead /\ HalfClaimed
    BY <1>6 DEF ShelfInv
  <2>1. ListedIsClaimed'
    BY <1>1, <1>2, <2>0 DEF ListedIsClaimed
  <2>2. FilesAhead'
    BY <1>1, <1>3, <2>0 DEF FilesAhead, Shelving
  <2>3. HalfClaimed'
    BY <1>1, <1>4, <2>0 DEF HalfClaimed
  <2>q. QED
    BY <2>1, <2>2, <2>3
<1>7. ShelvedOnce'
  BY <1>1, <1>2 DEF ShelfInv, ShelvedOnce, Recorded
<1>q. QED
  BY <1>1, <1>5, <1>6, <1>7 DEF ShelfInv

\* Claiming one of the month: its file is there.
LEMMA ClaimShelf ==
    ASSUME ShelfInv, NEW e \in Entries, ClaimOne(e), UNCHANGED <<processVars, hurt, escalated>>
    PROVE  ShelfInv'
<1>1. /\ at = "claim" /\ at' = "claim" /\ e \in todo /\ todo' = todo \ {e}
      /\ UNCHANGED <<months, members, month, file, listed, queue, scoring, hurt, escalated>>
  BY DEF ClaimOne, processVars
<1>2. \A j : MembersOf(j)' = MembersOf(j)
  BY <1>1 DEF MembersOf
<1>3. e \in Recorded /\ adoc[e] \in ArchiveDoc /\ DOMAIN adoc = Entries
  BY <1>1 DEF ShelfInv, ShelfShape, MembersOf
<1>4. \/ adoc[e].claimed /\ adoc' = adoc
      \/ \E d \in ArchiveDoc : d.claimed = TRUE /\ adoc' = [adoc EXCEPT ![e] = d]
  <2>1. CASE adoc[e].claimed
    BY <2>1 DEF ClaimOne
  <2>2. CASE ~adoc[e].claimed /\ adoc[e].status \in DIGESTABLE_STATUSES
    <3>1. adoc' = [adoc EXCEPT ![e] = [adoc[e] EXCEPT !.status = "PUBLISHED",
                                                      !.claimed = TRUE]]
      BY <1>3, <2>2 DEF ClaimOne, Moved
    <3>2. /\ [adoc[e] EXCEPT !.status = "PUBLISHED", !.claimed = TRUE] \in ArchiveDoc
          /\ [adoc[e] EXCEPT !.status = "PUBLISHED", !.claimed = TRUE].claimed = TRUE
      BY <1>3 DEF ArchiveDoc, EpisodeStatus
    <3>q. QED
      BY <3>1, <3>2
  <2>3. CASE ~adoc[e].claimed /\ adoc[e].status \notin DIGESTABLE_STATUSES
    <3>1. adoc' = [adoc EXCEPT ![e] = [adoc[e] EXCEPT !.claimed = TRUE]]
      BY <1>3, <2>3 DEF ClaimOne
    <3>2. /\ [adoc[e] EXCEPT !.claimed = TRUE] \in ArchiveDoc
          /\ [adoc[e] EXCEPT !.claimed = TRUE].claimed = TRUE
      BY <1>3 DEF ArchiveDoc
    <3>q. QED
      BY <3>1, <3>2
  <2>q. QED
    BY <2>1, <2>2, <2>3
<1>5. /\ DOMAIN adoc' = Entries
      /\ adoc'[e] \in ArchiveDoc /\ adoc'[e].claimed
      /\ \A f \in Entries \ {e} : adoc'[f] = adoc[f]
  BY <1>3, <1>4
<1>6. adoc'[e] # NONE
  BY <1>5, NoDocAssumption
<1>7. Recorded' = Recorded /\ Claimed' = Claimed \cup {e}
  BY <1>3, <1>5, <1>6 DEF Recorded, Claimed
<1>8. ShelfShape'
  BY <1>1, <1>2, <1>5, <1>7 DEF ShelfInv, ShelfShape, Recorded
<1>9. ASSUME ~hurt PROVE ListedIsClaimed' /\ FilesAhead' /\ HalfClaimed' /\ ShelvedOnce'
  <2>0. ListedIsClaimed /\ FilesAhead /\ HalfClaimed /\ ShelvedOnce
    BY <1>9 DEF ShelfInv
  <2>1. ListedIsClaimed'
    BY <1>1, <1>7, <2>0 DEF ListedIsClaimed
  <2>2. FilesAhead'
    BY <1>1, <1>2, <2>0 DEF FilesAhead
  <2>3. HalfClaimed'
    BY <1>1, <2>0 DEF HalfClaimed
  <2>4. ShelvedOnce'
    <3>1. listed[e] > 0
      BY <1>1, <2>0 DEF FilesAhead
    <3>2. \A f \in Claimed : listed[f] > 0
      BY <1>9, <2>0 DEF ShelvedOnce, Claimed
    <3>3. \A f \in Claimed' : listed[f] > 0
      BY <1>7, <3>1, <3>2
    <3>q. QED
      BY <1>1, <1>9, <2>0, <3>3 DEF ShelvedOnce, Claimed
  <2>q. QED
    BY <2>1, <2>2, <2>3, <2>4
<1>10. ShelvedOnce'
  BY <1>1, <1>9 DEF ShelvedOnce
<1>q. QED
  BY <1>1, <1>8, <1>9, <1>10 DEF ShelfInv

LEMMA EndShelf ==
    ASSUME ShelfInv, MarkComplete \/ MonthsOver, UNCHANGED <<processVars, hurt, escalated>>
    PROVE  ShelfInv'
<1>1. /\ UNCHANGED <<listed, adoc, queue, scoring, hurt, escalated>>
      /\ \/ /\ MarkComplete /\ at = "claim" /\ todo = {} /\ at' = "months"
            /\ UNCHANGED <<months, members>>
            /\ file' = [file EXCEPT ![month].complete = TRUE]
         \/ /\ MonthsOver /\ at = "months" /\ at' = "idle" /\ file' = file
            /\ members' = [e \in Entries |-> NONE] /\ months' = {}
  BY DEF MarkComplete, MonthsOver, Forget, processVars
<1>2. Recorded' = Recorded /\ Claimed' = Claimed
  BY <1>1 DEF Recorded, Claimed
<1>3. ShelfShape'
  BY <1>1, <1>2 DEF ShelfInv, ShelfShape
<1>4. ASSUME ~hurt PROVE ListedIsClaimed' /\ FilesAhead' /\ HalfClaimed'
  <2>0. ListedIsClaimed /\ FilesAhead /\ HalfClaimed
    BY <1>4 DEF ShelfInv
  <2>1. ListedIsClaimed'
    BY <1>1, <1>2, <2>0 DEF ListedIsClaimed
  <2>2. FilesAhead'
    BY <1>1, <2>0 DEF FilesAhead, Shelving
  <2>3. HalfClaimed'
    <3>1. CASE MonthsOver
      BY <1>1, <2>0, <3>1 DEF HalfClaimed, MonthsOver
    <3>2. CASE MarkComplete
      <4>1. /\ at = "claim" /\ at' = "months" /\ DOMAIN file = Keys
            /\ file' = [file EXCEPT ![month] = [file[month] EXCEPT !.complete = TRUE]]
        BY <3>2 DEF MarkComplete, ShelfInv, ShelfShape
      <4>2. DOMAIN file[month] = {"ids", "complete"} /\ month \in Keys
        BY <2>0, <4>1 DEF HalfClaimed, ShelfInv, ShelfShape
      <4>3. file'[month].complete = TRUE
        BY <4>1, <4>2
      <4>4. \A k \in Keys \ {month} : file'[k] = file[k]
        BY <4>1
      <4>q. QED
        BY <2>0, <4>1, <4>3, <4>4 DEF HalfClaimed
    <3>q. QED
      BY <1>1, <3>1, <3>2
  <2>q. QED
    BY <2>1, <2>2, <2>3
<1>5. ShelvedOnce'
  BY <1>1, <1>2 DEF ShelfInv, ShelvedOnce, Recorded
<1>q. QED
  BY <1>1, <1>3, <1>4, <1>5 DEF ShelfInv

\* What a crash or a refused write leaves is only promised to be well-formed.
LEMMA HurtShelf ==
    ASSUME ShelfInv, ArchiveMishap \/ (Crash /\ UNCHANGED adoc), hurt' = TRUE,
           \/ UNCHANGED processVars
           \/ queue' = NONE
    PROVE  ShelfInv'
<1>1. /\ UNCHANGED <<adoc, file, listed>>
      /\ \/ at' = at /\ todo' \subseteq todo /\ UNCHANGED <<months, members, month>>
         \/ at' \in {"idle", "months"} /\ UNCHANGED <<months, members>>
         \/ at' = "idle" /\ months' = {} /\ members' = [e \in Entries |-> NONE]
  BY DEF ArchiveMishap, ClaimRefused, MarkRefused, WritingFails, Crash, Forget, docsVars
<1>2. Recorded' = Recorded
  BY <1>1 DEF Recorded
<1>3. UNCHANGED members => \A j : MembersOf(j)' = MembersOf(j)
  BY DEF MembersOf
<1>4. \/ queue' = queue /\ scoring' = scoring
      \/ queue' = NONE /\ at' # "classify"
  BY DEF processVars, ArchiveMishap, ClaimRefused, MarkRefused, WritingFails, Crash, docsVars
<1>5. ShelfShape'
  BY <1>1, <1>2, <1>3, <1>4 DEF ShelfInv, ShelfShape
<1>6. ShelvedOnce'
  BY DEF ShelvedOnce
<1>q. QED
  BY <1>5, <1>6 DEF ShelfInv

LEMMA ShelfStep == ShelfInv /\ [Next]_vars => ShelfInv'
<1> SUFFICES ASSUME ShelfInv, [Next]_vars PROVE ShelfInv'
  OBVIOUS
<1>0. ShelfShape
  BY DEF ShelfInv
<1>1. CASE Start \/ Walking
  <2>1. UNCHANGED <<processVars, escalated>> /\ UNCHANGED digestVars /\ hurt' = hurt
    BY <1>1 DEF Start, Walking, bounds
  <2>q. QED
    BY <1>0, <1>1, <2>1, WalkKept, ElsewhereKeeps DEF Walking
<1>2. CASE Processing
  <2>1. escalated' = escalated /\ UNCHANGED digestVars /\ hurt' = hurt
    BY <1>2 DEF Processing, bounds
  <2>q. QED
    BY <1>0, <1>2, <2>1, ProcessKept, ElsewhereKeeps DEF Processing
<1>3. CASE Writing
  <2>1. UNCHANGED <<processVars, hurt, escalated>>
    BY <1>3 DEF Writing, bounds
  <2>q. QED
    BY <1>3, <2>1, CollectShelf, OpenShelf, WriteShelf, PutShelf, ClaimShelf, EndShelf
       DEF Writing, ArchiveStep
<1>4. CASE Setback
  <2>1. hurt' = hurt /\ escalated' = escalated /\ UNCHANGED digestVars
    BY <1>4 DEF Setback
  <2>2. CASE ShowFails /\ UNCHANGED processVars
    BY <1>0, <2>1, <2>2, WalkKept, ElsewhereKeeps
  <2>3. CASE ProcessMishap
    BY <1>0, <2>1, <2>3, ProcessKept, ElsewhereKeeps
  <2>q. QED
    BY <1>4, <2>2, <2>3 DEF Setback
<1>5. CASE WritingMishap
  BY <1>5, HurtShelf DEF WritingMishap
<1>6. CASE Crash
  BY <1>6, HurtShelf DEF Crash
<1>7. CASE Owner
  <2>1. hurt' = hurt /\ UNCHANGED digestVars
    BY <1>7 DEF Owner
  <2>q. QED
    BY <1>0, <1>7, <2>1, OwnerKept, ElsewhereKeeps
<1>8. CASE World \/ UNCHANGED vars
  <2>1. /\ UNCHANGED <<adoc, at, processVars, hurt, escalated>> /\ UNCHANGED digestVars
    BY <1>8 DEF World, Switch, MonthTurns, docsVars, vars, bounds
  <2>2. DocsKept
    BY <1>0, <2>1, NoDocWritten
  <2>3. QueueShape'
    BY <1>0, <2>1 DEF ShelfShape, QueueShape, processVars, Recorded
  <2>q. QED
    BY <2>1, <2>2, <2>3, ElsewhereKeeps
<1>q. QED
  BY <1>1, <1>2, <1>3, <1>4, <1>5, <1>6, <1>7, <1>8 DEF Next

\* Through outages, early stops, pauses, rewinds and the owner's retries, in any order and
\* over any number of runs: a claimed archive episode is in a file, and none is in two
\* unless it was escalated in between; a crash or a refused write of the files' part is the
\* exception (digest/archive.py:140-143, 213-216).
THEOREM ArchiveListsOnce == Spec => []ShelvedOnce
<1>1. ShelfInv => ShelvedOnce
  BY DEF ShelfInv
<1>q. QED
  BY ShelfStarts, ShelfStep, <1>1, PTL DEF Spec

=============================================================================
