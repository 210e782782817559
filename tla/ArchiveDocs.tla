---------------------------- MODULE ArchiveDocs -----------------------------
(***************************************************************************)
(* What the three parts of the archive job (PipelineRunner._run_backfill)  *)
(* share: the archive's episode documents, where the job is, and the       *)
(* question it asks between two items, whether to stop.  A month is a      *)
(* number; a feed entry belongs to one show and came out in one month.     *)
(***************************************************************************)
EXTENDS EpisodeState

CONSTANTS
    Shows,      \* the podcasts whose archive mode is not "skip"
    Entries,    \* what the feeds hold of the months before the anchors
    ShowOf,     \* ShowOf[e]: the show of e
    MonthOf,    \* MonthOf[e]: the month e came out in
    NONE

ASSUME ArchiveDocsAssumption ==
    /\ ShowOf \in [Entries -> Shows]
    /\ MonthOf \in [Entries -> Nat]
    /\ NONE \notin Nat
    /\ NONE \notin Shows \cup Entries \cup EpisodeStatus \cup Route

VARIABLES
    adoc,       \* adoc[e]: the episode document of e, NONE before it is recorded
    at,         \* where the job is
    held,       \* which of the two reasons to hold the archive back is true
    job         \* the run: started by force, and the last answer it got

docsVars == <<adoc, at, held, job>>

\* "paused" is the flag of control:backfill, "recent" an unsettled routine episode.
Reasons == {"paused", "recent"}

Places == {"idle",
           "shows", "pin", "complete", "fetch", "month", "mark",
           "triage", "dispatch", "summarize", "classify", "transcribe",
           "collect", "months", "file", "put", "claim", "done"}

ArchiveDoc == [status   : EpisodeStatus,
               route    : Route \cup {NONE},            \* tier0.route
               failedAt : EpisodeStatus \cup {NONE},    \* status_when_failed
               claimed  : BOOLEAN]                      \* digest_id is set

ASSUME NoDocAssumption == NONE \notin ArchiveDoc

\* The document _ingest_month creates.
NewEntry == [status |-> "NEW", route |-> NONE, failedAt |-> NONE, claimed |-> FALSE]

NoJob == [force |-> FALSE, asked |-> FALSE]

DocsTypeOK ==
    /\ adoc \in [Entries -> ArchiveDoc \cup {NONE}]
    /\ at \in Places
    /\ held \in SUBSET Reasons
    /\ job \in [force : BOOLEAN, asked : BOOLEAN]

DocsInit ==
    /\ adoc = [e \in Entries |-> NONE]
    /\ at = "idle"
    /\ held = {"paused"}
    /\ job = NoJob

Recorded == {e \in Entries : adoc[e] # NONE}
WithStatus(s) == {e \in Recorded : adoc[e].status = s}

-----------------------------------------------------------------------------
(* Holding the archive back                                                *)

\* What should_stop() would find in the store now.
Held(force) == "paused" \in held \/ (~force /\ "recent" \in held)

\* What should_stop() answers: PauseCheck and RecentWorkCheck keep their answer for
\* some seconds, so it is the last one or a fresh one.
Answers(stop) == stop \in {job.asked, Held(job.force)}

\* One turn of a loop that asks first and goes on.
GoesOn ==
    /\ Answers(FALSE)
    /\ job' = [job EXCEPT !.asked = FALSE]

\* The same loop told to stop.
IsStopped ==
    /\ Answers(TRUE)
    /\ job' = [job EXCEPT !.asked = TRUE]

\* The console's pause switch, and the routine pipeline taking in or settling work.
Switch(reason) ==
    /\ held' = IF reason \in held THEN held \ {reason} ELSE held \cup {reason}
    /\ UNCHANGED <<adoc, at, job>>

\* run_backfill_scheduled: not while paused, not while routine work is owed.
\* run_backfill: on request, whatever the flag says, by force over routine work too.
Begins ==
    /\ at = "idle"
    /\ \E force \in BOOLEAN :
          /\ force \/ "recent" \notin held
          /\ job' = [force |-> force, asked |-> Held(force)]
    /\ at' = "shows"

\* The cron entry point's run.
BeginsScheduled == held = {} /\ Begins /\ ~job'.force

-----------------------------------------------------------------------------
(* Writing a document                                                      *)

Accepts(e, requested) ==
    adoc[e].status = requested \/ CanTransition(adoc[e].status, requested)

Moved(e, requested) == [adoc EXCEPT ![e].status = requested]

\* mark_error(): the status held is recorded, and left where the table allows it.
Errored(e) ==
    [adoc EXCEPT ![e].failedAt = adoc[e].status,
                 ![e].status = IF CanTransition(adoc[e].status, "ERROR")
                               THEN "ERROR" ELSE adoc[e].status]

=============================================================================
