------------------------------ MODULE Archive -------------------------------
(***************************************************************************)
(* The archive job (PipelineRunner._run_backfill): walk, processing and    *)
(* the monthly files one after the other in one run, under one lease, with *)
(* what may happen beside it: the owner rewinds, widens a window, pauses,  *)
(* retries an episode; routine work comes and goes; the process dies.      *)
(***************************************************************************)
EXTENDS ArchiveWalk, ArchiveProcess, ArchiveDigest

CONSTANTS
    MaxMishaps,     \* bound of the model: failures and crashes per behaviour
    MaxRequests,    \* bound of the model: owner's requests per behaviour
    MaxSwitches     \* bound of the model: pauses, resumes, routine work coming and going

ASSUME ArchiveAssumption == {MaxMishaps, MaxRequests, MaxSwitches} \subseteq Nat

VARIABLES
    mishaps,    \* failures and crashes so far
    requests,   \* owner's requests so far
    switches,   \* switches so far
    hurt,       \* a crash, or a write of the files' part refused: what it left may be
                \* for a person to repair
    escalated   \* episodes the owner escalated

bounds == <<mishaps, requests, switches, hurt, escalated>>
vars == <<docsVars, walkVars, processVars, digestVars, bounds>>

ArchiveJobTypeOK ==
    /\ DocsTypeOK
    /\ WalkTypeOK
    /\ ProcessTypeOK
    /\ ArchiveTypeOK
    /\ mishaps \in 0..MaxMishaps
    /\ requests \in 0..MaxRequests
    /\ switches \in 0..MaxSwitches
    /\ hurt \in BOOLEAN
    /\ escalated \in SUBSET Entries

Init ==
    /\ DocsInit /\ WalkInit /\ ProcessInit /\ ArchiveInit
    /\ mishaps = 0 /\ requests = 0 /\ switches = 0
    /\ hurt = FALSE /\ escalated = {}

-----------------------------------------------------------------------------
Start == Begins /\ WalkBegins /\ UNCHANGED <<processVars, digestVars, bounds>>

Walking == WalkStep /\ UNCHANGED <<processVars, digestVars, bounds>>
Processing == ProcessStep /\ UNCHANGED <<walkVars, digestVars, bounds>>
Writing == ArchiveStep /\ UNCHANGED <<walkVars, processVars, bounds>>

\* A failure the code answers by trying again in a later run.
Setback ==
    /\ mishaps < MaxMishaps
    /\ mishaps' = mishaps + 1
    /\ \/ ShowFails /\ UNCHANGED <<processVars, digestVars>>
       \/ ProcessMishap /\ UNCHANGED <<walkVars, digestVars>>
    /\ UNCHANGED <<requests, switches, hurt, escalated>>

WritingMishap ==
    /\ mishaps < MaxMishaps
    /\ mishaps' = mishaps + 1
    /\ hurt' = TRUE
    /\ ArchiveMishap
    /\ UNCHANGED <<walkVars, processVars, requests, switches, escalated>>

Crash ==
    /\ mishaps < MaxMishaps
    /\ mishaps' = mishaps + 1
    /\ hurt' = TRUE
    /\ at # "idle" /\ at' = "idle" /\ job' = NoJob
    /\ walk' = NoWalk
    /\ queue' = NONE /\ scoring' = NONE
    /\ Forget
    /\ UNCHANGED <<adoc, held, now, window, pdoc, done, file, listed,
                  requests, switches, escalated>>

\* The retry button on an archive episode: back to the status it failed in, or to
\* the transcript queue; its claim stays.
Retry(e) ==
    /\ adoc[e].status \in {"ERROR", "TRANSCRIPT_FAILED"}
    /\ LET resume == IF adoc[e].failedAt \in {NONE, "ERROR", "PUBLISHED"}
                     THEN RetryTarget(adoc[e].status) ELSE adoc[e].failedAt
       IN /\ Accepts(e, resume)
          /\ adoc' = [Moved(e, resume) EXCEPT ![e].failedAt = NONE]
    /\ UNCHANGED <<at, held, job, walkVars, escalated>>

\* The escalate button takes the claim off, so that the episode is listed again.
Escalate(e) ==
    /\ Accepts(e, "AWAITING_TRANSCRIPT")
    /\ adoc' = [Moved(e, "AWAITING_TRANSCRIPT") EXCEPT ![e].failedAt = NONE,
                                                      ![e].claimed = FALSE]
    /\ escalated' = escalated \cup {e}
    /\ UNCHANGED <<at, held, job, walkVars>>

Owner ==
    /\ requests < MaxRequests
    /\ requests' = requests + 1
    /\ \/ \E s \in Shows : (Rewind(s) \/ Widen(s)) /\ UNCHANGED escalated
       \/ \E e \in Recorded : Retry(e) \/ Escalate(e)
    /\ UNCHANGED <<processVars, digestVars, mishaps, switches, hurt>>

World ==
    /\ \/ /\ switches < MaxSwitches /\ switches' = switches + 1
          /\ \E reason \in Reasons : Switch(reason)
          /\ UNCHANGED walkVars
       \/ MonthTurns /\ UNCHANGED switches
    /\ UNCHANGED <<processVars, digestVars, mishaps, requests, hurt, escalated>>

Next ==
    \/ Start \/ Walking \/ Processing \/ Writing
    \/ Setback \/ WritingMishap \/ Crash
    \/ Owner \/ World

Spec == Init /\ [][Next]_vars

\* The cron entry point fires again and again; a run goes on while the process lives.
Fairness ==
    /\ WF_vars(Start /\ BeginsScheduled)
    /\ WF_vars(Walking) /\ WF_vars(Processing) /\ WF_vars(Writing)

FairSpec == Spec /\ Fairness

-----------------------------------------------------------------------------
(* The promises.                                                           *)

\* A month the cursor has passed, some run has been through (ingest.py:104-113: a
\* month was once stepped over "and never fetched").  A show said to be complete has
\* been walked over all of its window, measured from the anchor pinned by its first
\* run, however the calendar turns meanwhile.
NothingSteppedOver ==
    \A s \in Shows :
        /\ pdoc[s].cursor # NONE =>
              /\ pdoc[s].anchor # NONE
              /\ \A m \in (pdoc[s].cursor + 1)..(pdoc[s].anchor - 1) : m \in done[s]
        /\ pdoc[s].complete =>
              /\ pdoc[s].cursor # NONE
              /\ pdoc[s].cursor < pdoc[s].anchor - Window

\* An episode with an archive claim is in a file, and none is in two files unless it
\* was escalated in between (archive.py:213-216, 140-143: "instead of writing the
\* month a second time").  A crash or a refused write is left out: see ClaimedIsListed.
ShelvedOnce ==
    ~hurt => /\ \A e \in Recorded : adoc[e].claimed => listed[e] > 0
             /\ \A e \in Entries \ escalated : listed[e] <= 1

\* The same with a crash or a refused write on the way: a month found half claimed is
\* finished, so every claimed episode is in its file.
ClaimedIsListed == \A e \in Recorded : adoc[e].claimed => listed[e] > 0

\* An episode the archive recorded is in the end in a file and claimed, through
\* outages, early stops and the owner's requests, once nothing holds the archive back
\* for good and no crash or refused write left it to a person.
EveryEntryShelved ==
    ([]~hurt /\ <>[](held = {}))
        => \A e \in Entries : (e \in Recorded /\ ~adoc[e].claimed)
                                  ~> (e \in Recorded /\ adoc[e].claimed)

\* The walk gets through the whole of every show's window, whatever crashes, rewinds
\* and widenings come in between.
WindowIsWalked ==
    <>[](held = {})
        => <>[](\A s \in Shows :
                  /\ pdoc[s].anchor # NONE
                  /\ (pdoc[s].anchor - window[s])..(pdoc[s].anchor - 1) \subseteq done[s])

\* A rewound show is walked from the top again (control.py:103): the next cursor
\* written is one a walk from the anchor reaches.
RewoundStartsOver ==
    [][\A s \in Shows :
          (pdoc[s].cursor = NONE /\ pdoc[s].anchor # NONE /\ pdoc'[s].cursor # NONE)
              => pdoc'[s].cursor + MonthsPerRun >= pdoc[s].anchor - 1]_vars

\* A walked month has nothing left to record: the walk is "bounded, resumable and
\* stoppable" (ingest.py:3-5).
WalkedMonthsAreRecorded ==
    \A s \in Shows : \A m \in done[s] : EntriesOf(s, m) \subseteq Recorded

=============================================================================
