---------------------------- MODULE ArchiveWalk -----------------------------
(***************************************************************************)
(* Archive ingestion (podcast_agent/backfill/ingest.py): each show's feed  *)
(* is walked backwards month by month, from the month before the anchor    *)
(* down to the floor, tracked by a cursor on the podcast document, and     *)
(* the rewind that clears the cursor (backfill/control.py).  A run reads   *)
(* the document once per show and writes its own cursor over it at the     *)
(* end; a rewind may land in between.                                      *)
(***************************************************************************)
EXTENDS ArchiveDocs

CONSTANTS
    FirstMonth,     \* the calendar month the behaviour starts in
    LastMonth,      \* bound of the model: where the calendar stops
    Window,         \* backfill.months, what a show has without an override
    MaxWindow,      \* bound of the model: how far the console widens it
    MonthsPerRun,   \* backfill.months_per_run
    EpisodesPerRun  \* backfill.max_episodes_per_run

ASSUME WalkAssumption ==
    /\ {FirstMonth, LastMonth, MonthsPerRun, EpisodesPerRun} \subseteq Nat \ {0}
    /\ Window \in Nat \ {0} /\ MaxWindow \in Nat
    /\ Window <= MaxWindow /\ MaxWindow < FirstMonth /\ FirstMonth <= LastMonth

VARIABLES
    now,        \* the calendar month
    window,     \* window[s]: backfill_months of s
    pdoc,       \* pdoc[s]: the walk's fields on the podcast document of s
    walk,       \* the local variables of the run
    done        \* done[s]: the months of s some run has been through

walkVars == <<now, window, pdoc, walk, done>>

Progress == [cursor : Nat \cup {NONE}, anchor : Nat \cup {NONE}, complete : BOOLEAN]

\* The run's shows still to visit and its budget; then, of the show it is at, the
\* cursor, anchor and floor, the months and the entries of the month still to do,
\* and the episodes created.
Walk == [todo    : SUBSET Shows,
         budget  : Nat,
         show    : Shows \cup {NONE},
         cursor  : Nat,
         anchor  : Nat,
         floor   : Nat,
         left    : Nat,
         entries : SUBSET Entries,
         created : Nat]

NoWalk == [todo |-> {}, budget |-> 0, show |-> NONE, cursor |-> 0, anchor |-> 0,
           floor |-> 0, left |-> 0, entries |-> {}, created |-> 0]

WalkTypeOK ==
    /\ now \in FirstMonth..LastMonth
    /\ window \in [Shows -> Window..MaxWindow]
    /\ pdoc \in [Shows -> Progress]
    /\ walk \in Walk
    /\ done \in [Shows -> SUBSET Nat]

WalkInit ==
    /\ now = FirstMonth
    /\ window = [s \in Shows |-> Window]
    /\ pdoc = [s \in Shows |-> [cursor |-> NONE, anchor |-> NONE, complete |-> FALSE]]
    /\ walk = NoWalk
    /\ done = [s \in Shows |-> {}]

-----------------------------------------------------------------------------
(* One run                                                                 *)

WalkBegins ==
    /\ walk' = [NoWalk EXCEPT !.todo = Shows, !.budget = EpisodesPerRun]
    /\ UNCHANGED <<now, window, pdoc, done, adoc, held>>

\* The month keys "YYYY-MM" compare as the numbers do.
previous_month(m) == m - 1

\* Mutant: the floor is recomputed from today, as it once was.
floor_from_anchor_Today(anchor, months) == now - months

floor_from_anchor(anchor, months) == anchor - months

\* No show is left, or no budget: on to the processing.
ShowsOver ==
    /\ at = "shows"
    /\ walk.todo = {} \/ walk.budget = 0
    /\ walk' = NoWalk
    /\ at' = "triage"
    /\ UNCHANGED <<now, window, pdoc, done, adoc, held, job>>

\* Held back between two shows: the rest of the intake is left for another run.
WalkStopsEarly ==
    /\ at = "shows"
    /\ walk.todo # {} /\ walk.budget > 0
    /\ IsStopped
    /\ walk' = NoWalk
    /\ at' = "triage"
    /\ UNCHANGED <<now, window, pdoc, done, adoc, held>>

\* _backfill_show: the document is read, everything after works on what it said.
VisitShow(s) ==
    /\ at = "shows"
    /\ s \in walk.todo /\ walk.budget > 0
    /\ GoesOn
    /\ LET anchor == IF pdoc[s].anchor = NONE THEN now ELSE pdoc[s].anchor
           floor  == floor_from_anchor(anchor, window[s])
           cursor == IF pdoc[s].cursor = NONE
                     THEN previous_month(anchor) ELSE pdoc[s].cursor
       IN /\ walk' = [walk EXCEPT !.todo = @ \ {s}, !.show = s, !.cursor = cursor,
                                  !.anchor = anchor, !.floor = floor,
                                  !.left = MonthsPerRun, !.created = 0]
          /\ at' = IF cursor < floor
                   THEN IF pdoc[s].complete THEN "shows" ELSE "complete"
                   ELSE IF pdoc[s].anchor = NONE THEN "pin" ELSE "fetch"
    /\ UNCHANGED <<now, window, pdoc, done, adoc, held>>

\* Mutant: only the flag is written, not where the walk is.
MarkProgress_FlagOnly(s, complete) ==
    pdoc' = [pdoc EXCEPT ![s].complete = complete]

\* _mark_progress: the run's own values, over whatever the document says by now.
MarkProgress(s, complete) ==
    pdoc' = [pdoc EXCEPT ![s] = [cursor |-> walk.cursor, anchor |-> walk.anchor,
                                 complete |-> complete]]

\* The show's local variables go out of scope.
NextShow(budget) == walk' = [NoWalk EXCEPT !.todo = walk.todo, !.budget = budget]

\* A show found below its floor, and the anchor of a show that had none.
RecordComplete ==
    /\ at = "complete"
    /\ MarkProgress(walk.show, TRUE)
    /\ NextShow(walk.budget)
    /\ at' = "shows"
    /\ UNCHANGED <<now, window, done, adoc, held, job>>

PinAnchor ==
    /\ at = "pin"
    /\ MarkProgress(walk.show, FALSE)
    /\ at' = "fetch"
    /\ UNCHANGED <<now, window, walk, done, adoc, held, job>>

EntriesOf(s, month) == {e \in Entries : ShowOf[e] = s /\ MonthOf[e] = month}

FetchFeed ==
    /\ at = "fetch"
    /\ walk' = [walk EXCEPT !.entries = EntriesOf(walk.show, walk.cursor)]
    /\ at' = "month"
    /\ UNCHANGED <<now, window, pdoc, done, adoc, held, job>>

\* _ingest_month, one entry, in whatever order the feed has them: created unless it
\* is recorded already.
IngestEntry(e) ==
    /\ at = "month"
    /\ e \in walk.entries /\ walk.created < walk.budget
    /\ IF adoc[e] = NONE
       THEN /\ adoc' = [adoc EXCEPT ![e] = NewEntry]
            /\ walk' = [walk EXCEPT !.entries = @ \ {e}, !.created = @ + 1]
       ELSE /\ walk' = [walk EXCEPT !.entries = @ \ {e}]
            /\ UNCHANGED adoc
    /\ UNCHANGED <<now, window, pdoc, done, at, held, job>>

\* The month is through, or the budget is: either way the cursor moves past it.
MonthOver ==
    /\ at = "month"
    /\ walk.entries = {} \/ walk.created >= walk.budget
    /\ done' = [done EXCEPT ![walk.show] = @ \cup {walk.cursor}]
    /\ LET cursor == previous_month(walk.cursor)
           more   == walk.left > 1 /\ cursor >= walk.floor /\ walk.created < walk.budget
       IN /\ walk' = [walk EXCEPT !.cursor = cursor, !.left = @ - 1,
                        !.entries = IF more THEN EntriesOf(walk.show, cursor) ELSE {}]
          /\ at' = IF more THEN "month" ELSE "mark"
    /\ UNCHANGED <<now, window, pdoc, adoc, held, job>>

ShowDone ==
    /\ at = "mark"
    /\ MarkProgress(walk.show, walk.cursor < walk.floor)
    /\ NextShow(walk.budget - walk.created)
    /\ at' = "shows"
    /\ UNCHANGED <<now, window, done, adoc, held, job>>

\* The feed does not answer, or the store refuses a write: logged, the next show.
ShowFails ==
    /\ at \in {"complete", "pin", "fetch", "month", "mark"}
    /\ NextShow(walk.budget)
    /\ at' = "shows"
    /\ UNCHANGED <<now, window, pdoc, done, adoc, held, job>>

-----------------------------------------------------------------------------
(* The console and the calendar                                            *)

\* rewind_cursors: each put carries the revision found, so it lands on the document
\* it read or not at all.  The anchor stays.
Rewind(s) ==
    /\ pdoc[s].cursor # NONE \/ pdoc[s].complete
    /\ pdoc' = [pdoc EXCEPT ![s].cursor = NONE, ![s].complete = FALSE]
    /\ UNCHANGED <<now, window, walk, done, docsVars>>

Widen(s) ==
    /\ window[s] < MaxWindow
    /\ window' = [window EXCEPT ![s] = @ + 1]
    /\ UNCHANGED <<now, pdoc, walk, done, docsVars>>

MonthTurns ==
    /\ now < LastMonth
    /\ now' = now + 1
    /\ UNCHANGED <<window, pdoc, walk, done, docsVars>>

WalkStep ==
    \/ ShowsOver \/ WalkStopsEarly
    \/ \E s \in Shows : VisitShow(s)
    \/ RecordComplete \/ PinAnchor \/ FetchFeed
    \/ \E e \in Entries : IngestEntry(e)
    \/ MonthOver \/ ShowDone

=============================================================================
