--------------------------- MODULE ArchiveProcess ---------------------------
(***************************************************************************)
(* Processing of archive episodes (podcast_agent/backfill/process.py): the *)
(* same stages as the routine pipeline, cheapest first, over their own     *)
(* queues.  Each stage reads its queue once and asks before every item     *)
(* whether to stop; a backend that is down puts the rest of the stage off. *)
(* An acquisition is one step here, with the outcomes Pipeline derives.    *)
(* The stages' caps are above what a run meets, so no queue is cut.        *)
(***************************************************************************)
EXTENDS ArchiveDocs

CONSTANTS
    NewsShows,      \* shows whose archive mode is "tier0_only"
    HasTranscript   \* entries whose publisher links a transcript

ASSUME ProcessAssumption == NewsShows \subseteq Shows /\ HasTranscript \subseteq Entries

VARIABLES
    queue,      \* what the stage has still to do, NONE before it is read
    scoring     \* the episode whose summary is stored and score not yet judged

processVars == <<queue, scoring>>

ProcessTypeOK ==
    /\ queue \in SUBSET Entries \cup {NONE}
    /\ scoring \in Entries \cup {NONE}

ProcessInit == queue = NONE /\ scoring = NONE

\* Cheapest first, most open-ended last.
After == [triage |-> "dispatch", dispatch |-> "summarize",
          summarize |-> "transcribe", transcribe |-> "collect"]

Takes == [triage |-> "NEW", dispatch |-> "TRIAGED",
          summarize |-> "TRANSCRIBED", transcribe |-> "AWAITING_TRANSCRIPT"]

Stages == DOMAIN Takes

ReadQueue ==
    /\ at \in Stages /\ queue = NONE
    /\ queue' = WithStatus(Takes[at])
    /\ UNCHANGED <<docsVars, scoring>>

Leaves(place) ==
    /\ at' = place
    /\ queue' = NONE
    /\ scoring' = NONE

StageOver ==
    /\ at \in Stages /\ queue = {}
    /\ Leaves(After[at])
    /\ UNCHANGED <<adoc, held, job>>

\* Every stage but dispatch asks.
Takes1(e) ==
    /\ queue # NONE
    /\ e \in queue
    /\ queue' = queue \ {e}
    /\ IF at = "dispatch" THEN UNCHANGED job ELSE GoesOn

StageStopsEarly ==
    /\ at \in Stages \ {"dispatch"}
    /\ queue \notin {NONE, {}}
    /\ IsStopped
    /\ Leaves("collect")
    /\ UNCHANGED <<adoc, held>>

\* LLMUnavailable or ASRUnavailable: the stage returns, the run goes on.
StageDeferred ==
    /\ at \in Stages \ {"dispatch"}
    /\ queue \notin {NONE, {}}
    /\ GoesOn
    /\ Leaves(After[at])
    /\ UNCHANGED <<adoc, held>>

\* Anything else one item raises is recorded on it, the stage goes on.
ItemFails(e) ==
    /\ at \in Stages
    /\ Takes1(e)
    /\ adoc' = Errored(e)
    /\ UNCHANGED <<at, held, scoring>>

-----------------------------------------------------------------------------
TriageOne(e) ==
    /\ at = "triage"
    /\ Takes1(e)
    /\ \E route \in Route :
          adoc' = IF Accepts(e, "TRIAGED")
                  THEN [Moved(e, "TRIAGED") EXCEPT ![e].route = route]
                  ELSE Errored(e)
    /\ UNCHANGED <<at, held, scoring>>

\* An escalation becomes an index entry for a news show, and where no transcript can
\* be had.  The local-transcription toggle is read live.
Dispatched(e, asr) ==
    IF adoc[e].route = "ESCALATE"
       /\ (ShowOf[e] \in NewsShows \/ (~asr /\ e \notin HasTranscript))
    THEN "DIGEST_DIRECT"
    ELSE RouteTarget[adoc[e].route]

DispatchOne(e) ==
    /\ at = "dispatch"
    /\ Takes1(e)
    /\ \E asr \in BOOLEAN :
          adoc' = IF Accepts(e, Dispatched(e, asr))
                  THEN Moved(e, Dispatched(e, asr)) ELSE Errored(e)
    /\ UNCHANGED <<at, held, scoring>>

\* The summary is stored first ...
SummarizeOne(e) ==
    /\ at = "summarize"
    /\ Takes1(e)
    /\ IF Accepts(e, "SUMMARIZED")
       THEN adoc' = Moved(e, "SUMMARIZED") /\ at' = "classify" /\ scoring' = e
       ELSE adoc' = Errored(e) /\ UNCHANGED <<at, scoring>>
    /\ UNCHANGED held

\* ... and judged against the archive's own threshold in a second write.
ClassifyOne ==
    /\ at = "classify"
    /\ \E verdict \in {"READY_FOR_DIGEST", "SCORED_LOW"} :
          adoc' = IF Accepts(scoring, verdict)
                  THEN Moved(scoring, verdict) ELSE Errored(scoring)
    /\ at' = "summarize"
    /\ scoring' = NONE
    /\ UNCHANGED <<held, job, queue>>

\* The second write is refused: ERROR, at SUMMARIZED.
ClassifyFails ==
    /\ at = "classify"
    /\ adoc' = Errored(scoring)
    /\ at' = "summarize"
    /\ scoring' = NONE
    /\ UNCHANGED <<held, job, queue>>

\* A failed transcript stays TRANSCRIPT_FAILED: no summary from the description.
TranscribeOne(e) ==
    /\ at = "transcribe"
    /\ Takes1(e)
    /\ \E outcome \in {"TRANSCRIBED", "TRANSCRIPT_FAILED"} :
          adoc' = IF Accepts(e, outcome) THEN Moved(e, outcome) ELSE Errored(e)
    /\ UNCHANGED <<at, held, scoring>>

\* An attempt that may be repeated leaves the episode queued for another run.
TranscribeLater(e) ==
    /\ at = "transcribe"
    /\ Takes1(e)
    /\ UNCHANGED <<adoc, at, held, scoring>>

ProcessStep ==
    \/ ReadQueue \/ StageOver \/ StageStopsEarly
    \/ \E e \in Entries : TriageOne(e) \/ DispatchOne(e) \/ SummarizeOne(e)
    \/ ClassifyOne
    \/ \E e \in Entries : TranscribeOne(e)

ProcessMishap ==
    \/ StageDeferred \/ ClassifyFails
    \/ \E e \in Entries : ItemFails(e) \/ TranscribeLater(e)

=============================================================================
