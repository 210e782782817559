------------------------------ MODULE Pipeline ------------------------------
(***************************************************************************)
(* The hourly pipeline job (PipelineRunner._run_pipeline) over the episode *)
(* documents.  A run goes through four stages; each stage takes its queue  *)
(* with one find(), a snapshot, and works through it newest first.  Every  *)
(* model or transcript call is an await, so one action ends at each await  *)
(* and the documents may have moved on when the next one writes.           *)
(***************************************************************************)
EXTENDS EpisodeDocs, FiniteSets

CONSTANTS
    Recency,            \* Recency[e]: order of published_at, larger is newer
    MaxTriage,          \* pipeline.max_triage_per_run
    MaxTranscripts,     \* pipeline.max_transcripts_per_run
    MaxSummaries,       \* pipeline.max_summaries_per_run
    MaxMishaps          \* bound of the model: crashes outside transcript
                        \* acquisition, and failed store writes, per behaviour

ASSUME PipelineAssumption ==
    /\ Recency \in [Episodes -> Nat]
    /\ \A e, f \in Episodes : Recency[e] = Recency[f] => e = f
    /\ {MaxTriage, MaxTranscripts, MaxSummaries} \subseteq Nat
    /\ MaxMishaps \in Nat

VARIABLES
    stage,      \* the stage in progress
    todo,       \* episodes of the stage's queue not finished yet
    snap,       \* snap[e]: the document of e as the queue's find() returned it
    pc,         \* where the head of the queue is, between two awaits
    scored,     \* the score a Tier-1 call returned, until it is classified
    deaths,     \* history: process deaths with e's acquisition in flight
    mishaps     \* mishaps so far

workVars == <<stage, todo, snap, pc, scored>>
pipelineVars == <<doc, workVars, deaths, mishaps>>

Stage == {"idle", "triage", "dispatch", "transcripts", "summarize"}

PipelineTypeOK ==
    /\ doc \in [Episodes -> Doc]
    /\ stage \in Stage
    /\ todo \in SUBSET Episodes
    /\ snap \in [Episodes -> Doc]
    /\ pc \in {"next", "acquiring", "saving", "classify"}
    /\ scored \in Score \cup {NONE}
    /\ deaths \in [Episodes -> Nat]
    /\ mishaps \in 0..MaxMishaps

PipelineInit ==
    /\ doc = [e \in Episodes |-> NewDoc]
    /\ stage = "idle"
    /\ todo = {}
    /\ snap = [e \in Episodes |-> NewDoc]
    /\ pc = "next"
    /\ scored = NONE
    /\ deaths = [e \in Episodes |-> 0]
    /\ mishaps = 0

-----------------------------------------------------------------------------
(* Queues                                                                  *)

\* The n newest of a set of episodes: find(sort published_at desc, limit n).
Newest(S, n) ==
    {e \in S : Cardinality({f \in S : Recency[f] > Recency[e]}) < n}

WithStatus(s) == {e \in Episodes : doc[e].status = s}

\* Mutant: episodes without a transcript are left out.
SummarizeQueue_TranscribedOnly == Newest(WithStatus("TRANSCRIBED"), MaxSummaries)

SummarizeQueue ==
    LET transcribed == Newest(WithStatus("TRANSCRIBED"), MaxSummaries)
        room == IF Cardinality(transcribed) < MaxSummaries
                THEN MaxSummaries - Cardinality(transcribed) ELSE 0
    IN transcribed \cup Newest(WithStatus("TRANSCRIPT_FAILED"), room)

StageQueue(s) ==
    CASE s = "triage"      -> Newest(WithStatus("NEW"), MaxTriage)
      [] s = "dispatch"    -> WithStatus("TRIAGED")
      [] s = "transcripts" -> Newest(WithStatus("AWAITING_TRANSCRIPT"),
                                     MaxTranscripts)
      [] s = "summarize"   -> SummarizeQueue
      [] OTHER             -> {}

\* The episode the stage is at: newest first, and in the summarize stage every
\* transcribed episode before the description-only ones.
AtHead(e) ==
    /\ e \in todo
    /\ \A f \in todo \ {e} :
          IF snap[f].status = snap[e].status
          THEN Recency[e] > Recency[f]
          ELSE snap[e].status = "TRANSCRIBED"

EnterStage(s) ==
    /\ stage' = s
    /\ todo' = StageQueue(s)
    /\ snap' = [e \in Episodes |-> IF e \in StageQueue(s) THEN doc[e] ELSE NewDoc]
    /\ pc' = "next"
    /\ scored' = NONE

\* The stage loop moves on to the next episode of its queue.
Done(e) ==
    /\ todo' = todo \ {e}
    /\ snap' = [snap EXCEPT ![e] = NewDoc]
    /\ pc' = "next"
    /\ scored' = NONE
    /\ UNCHANGED stage

\* The stage loop returns early: a backend is down, the queue is left alone.
Defer ==
    /\ todo' = {}
    /\ snap' = [e \in Episodes |-> NewDoc]
    /\ pc' = "next"
    /\ scored' = NONE
    /\ UNCHANGED stage

-----------------------------------------------------------------------------
(* The run and its stages                                                  *)

StartRun ==
    /\ stage = "idle"
    /\ EnterStage("triage")
    /\ UNCHANGED <<doc, deaths, mishaps>>

NextStageOf ==
    [triage |-> "dispatch", dispatch |-> "transcripts",
     transcripts |-> "summarize", summarize |-> "idle"]

NextStage ==
    /\ stage # "idle"
    /\ todo = {}
    /\ EnterStage(NextStageOf[stage])
    /\ UNCHANGED <<doc, deaths, mishaps>>

Triage(e) ==
    /\ stage = "triage" /\ AtHead(e)
    /\ \E always, confident \in BOOLEAN, relevance \in Relevance :
          TransitionOrError(e, "TRIAGED",
              [doc[e] EXCEPT !.route = DecideRoute(always, confident, relevance)])
    /\ Done(e)
    /\ UNCHANGED <<deaths, mishaps>>

Dispatch(e) ==
    /\ stage = "dispatch" /\ AtHead(e)
    /\ IF snap[e].route = NONE
       THEN MarkError(e)
       ELSE TransitionOrError(e, RouteTarget[snap[e].route], doc[e])
    /\ Done(e)
    /\ UNCHANGED <<deaths, mishaps>>

\* LLMUnavailable: every endpoint of the chain failed.
LLMDown ==
    /\ stage \in {"triage", "summarize"}
    /\ todo # {} /\ pc = "next"
    /\ Defer
    /\ UNCHANGED <<doc, deaths, mishaps>>

\* Any other exception out of a model call (or nothing to summarise).
CallFails(e) ==
    /\ stage \in {"triage", "summarize"} /\ AtHead(e) /\ pc = "next"
    /\ MarkError(e)
    /\ Done(e)
    /\ UNCHANGED <<deaths, mishaps>>

-----------------------------------------------------------------------------
(* TranscriptStage.process                                                 *)

GiveUp(e) ==
    /\ stage = "transcripts" /\ AtHead(e) /\ pc = "next"
    /\ snap[e].crashes >= CrashBudget
    /\ TransitionOrError(e, "TRANSCRIPT_FAILED", [doc[e] EXCEPT !.failedAt = NONE])
    /\ Done(e)
    /\ UNCHANGED <<deaths, mishaps>>

\* Mutant: the budget is compared off by one.
ClaimTranscript_OffByOne(e) ==
    /\ stage = "transcripts" /\ AtHead(e) /\ pc = "next"
    /\ snap[e].crashes <= CrashBudget
    /\ Accepts(e, "AWAITING_TRANSCRIPT")
    /\ Transition(e, "AWAITING_TRANSCRIPT", [doc[e] EXCEPT !.crashes = @ + 1])
    /\ pc' = "acquiring"
    /\ UNCHANGED <<stage, todo, snap, scored, deaths, mishaps>>

\* The in-flight marker goes down before anything that can kill the process.
ClaimTranscript(e) ==
    /\ stage = "transcripts" /\ AtHead(e) /\ pc = "next"
    /\ snap[e].crashes < CrashBudget
    /\ IF Accepts(e, "AWAITING_TRANSCRIPT")
       THEN /\ Transition(e, "AWAITING_TRANSCRIPT", [doc[e] EXCEPT !.crashes = @ + 1])
            /\ pc' = "acquiring"
            /\ UNCHANGED <<stage, todo, snap, scored>>
       ELSE MarkError(e) /\ Done(e)
    /\ UNCHANGED <<deaths, mishaps>>

AcquireFails(e) ==
    /\ AtHead(e) /\ pc = "acquiring"
    /\ \E retryable \in BOOLEAN :
          TransitionOrError(e,
              IF Exhausted(snap[e], retryable)
              THEN "TRANSCRIPT_FAILED" ELSE "AWAITING_TRANSCRIPT",
              AcquireFailed(e, snap[e]))
    /\ Done(e)
    /\ UNCHANGED <<deaths, mishaps>>

\* ASRUnavailable: the marker comes off, the exception ends the stage.
ASRDown(e) ==
    /\ AtHead(e) /\ pc = "acquiring"
    /\ IF Accepts(e, "AWAITING_TRANSCRIPT")
       THEN Transition(e, "AWAITING_TRANSCRIPT", Released(e, snap[e])) /\ Defer
       ELSE MarkError(e) /\ Done(e)
    /\ UNCHANGED <<deaths, mishaps>>

\* Any other exception while acquiring or saving: no handler takes the marker off.
AcquireError(e) ==
    /\ AtHead(e) /\ pc \in {"acquiring", "saving"}
    /\ MarkError(e)
    /\ Done(e)
    /\ UNCHANGED <<deaths, mishaps>>

\* Mutant: the attachment is not written before the status.
SaveTranscript_Skipped(e) ==
    /\ AtHead(e) /\ pc = "acquiring"
    /\ pc' = "saving"
    /\ UNCHANGED <<doc, stage, todo, snap, scored, deaths, mishaps>>

\* save_transcript: the attachment is a write of its own.
SaveTranscript(e) ==
    /\ AtHead(e) /\ pc = "acquiring"
    /\ doc' = [doc EXCEPT ![e].text = TRUE]
    /\ pc' = "saving"
    /\ UNCHANGED <<stage, todo, snap, scored, deaths, mishaps>>

StoreTranscribed(e) ==
    /\ AtHead(e) /\ pc = "saving"
    /\ TransitionOrError(e, "TRANSCRIBED", AcquireSucceeded(e, snap[e]))
    /\ Done(e)
    /\ UNCHANGED <<deaths, mishaps>>

-----------------------------------------------------------------------------
(* Tier1Stage.summarize: the result, then the classification               *)

StoreSummary(e) ==
    /\ stage = "summarize" /\ AtHead(e) /\ pc = "next"
    /\ \E s \in Score :
          IF Accepts(e, "SUMMARIZED")
          THEN /\ Transition(e, "SUMMARIZED", [doc[e] EXCEPT !.tier1 = s])
               /\ pc' = "classify"
               /\ scored' = s
               /\ UNCHANGED <<stage, todo, snap>>
          ELSE MarkError(e) /\ Done(e)
    /\ UNCHANGED <<deaths, mishaps>>

\* Mutant: classified by the score in the copy the queue was read with.
Classify_Stale(e) ==
    /\ AtHead(e) /\ pc = "classify"
    /\ TransitionOrError(e, Verdict(snap[e].tier1), doc[e])
    /\ Done(e)
    /\ UNCHANGED <<deaths, mishaps>>

Classify(e) ==
    /\ AtHead(e) /\ pc = "classify"
    /\ TransitionOrError(e, Verdict(scored), doc[e])
    /\ Done(e)
    /\ UNCHANGED <<deaths, mishaps>>

-----------------------------------------------------------------------------
(* What can go wrong around a run                                          *)

\* The store refuses a write, and mark_error's as well (it never raises).
StoreFails(e) ==
    /\ stage # "idle" /\ AtHead(e)
    /\ mishaps < MaxMishaps
    /\ mishaps' = mishaps + 1
    /\ Done(e)
    /\ UNCHANGED <<doc, deaths>>

InFlight(e) == AtHead(e) /\ pc \in {"acquiring", "saving"}

\* What is left of a run when its process dies: the documents.
RunDies ==
    /\ stage' = "idle"
    /\ todo' = {}
    /\ snap' = [e \in Episodes |-> NewDoc]
    /\ pc' = "next"
    /\ scored' = NONE
    /\ deaths' = [e \in Episodes |-> IF InFlight(e) THEN deaths[e] + 1 ELSE deaths[e]]

\* An acquisition kills the process (out of memory in ASR).
CrashAcquiring ==
    /\ \E e \in Episodes : InFlight(e)
    /\ RunDies
    /\ UNCHANGED <<doc, mishaps>>

\* The process dies anywhere else.
CrashElsewhere ==
    /\ stage # "idle"
    /\ ~ \E e \in Episodes : InFlight(e)
    /\ mishaps < MaxMishaps
    /\ mishaps' = mishaps + 1
    /\ RunDies
    /\ UNCHANGED doc

-----------------------------------------------------------------------------
(* Specification                                                           *)

\* Steps the job takes by itself: the event loop runs them when it gets there.
Advance ==
    \/ StartRun
    \/ NextStage
    \/ \E e \in Episodes :
          \/ Dispatch(e)
          \/ GiveUp(e)
          \/ ClaimTranscript(e)
          \/ StoreTranscribed(e)
          \/ Classify(e)

\* Steps that need an answer from outside.
Acquired(e) == AcquireFails(e) \/ SaveTranscript(e)

Outage ==
    \/ LLMDown
    \/ \E e \in Episodes : CallFails(e) \/ ASRDown(e) \/ AcquireError(e)

PipelineStep ==
    \/ Advance
    \/ \E e \in Episodes : Triage(e) \/ Acquired(e) \/ StoreSummary(e)
    \/ Outage
    \/ \E e \in Episodes : StoreFails(e)

PipelineNext == PipelineStep \/ CrashAcquiring \/ CrashElsewhere

\* The scheduler starts a run again and again and the event loop carries each
\* stage forward (weak fairness).  A backend asked again and again answers in the
\* end (strong fairness: an outage or a crash may interrupt it any finite number
\* of times in between).
PipelineFairness ==
    /\ WF_pipelineVars(Advance)
    /\ SF_pipelineVars(\E e \in Episodes : Triage(e))
    /\ SF_pipelineVars(\E e \in Episodes : Acquired(e))
    /\ SF_pipelineVars(\E e \in Episodes : StoreSummary(e))

PipelineSpec == PipelineInit /\ [][PipelineNext]_pipelineVars
FairPipelineSpec == PipelineSpec /\ PipelineFairness

=============================================================================
