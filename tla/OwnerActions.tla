---------------------------- MODULE OwnerActions ----------------------------
(***************************************************************************)
(* What runs on the owner's request beside the pipeline job and under none *)
(* of its locks: an episode summarised on demand                           *)
(* (PipelineRunner.summarize_episode), the retry and escalate buttons      *)
(* (api/routes.py), and the re-scoring job (PipelineRunner._run_rescore).  *)
(***************************************************************************)
EXTENDS EpisodeDocs

VARIABLES
    demand,     \* demand[e]: the on-demand summarisation of e in flight
    reset,      \* reset[e]: status a retry request decided on, not yet written
    stale       \* episodes the re-scoring job found stale and has still to do

ownerWork == <<demand, reset, stale>>
ownerVars == <<doc, ownerWork>>

\* An on-demand run: where it is, the counters of the document it gave the transcript
\* stage, whether it has to put the episode back to PUBLISHED, the score it was given.
Demand == [at     : {"off", "queue", "read", "claim", "acquiring", "saving", "settle",
                     "summarize", "classify", "relist"},
           before : [attempts : Nat, crashes : Nat],
           listed : BOOLEAN,
           scored : Score \cup {NONE}]

\* attempts_before and crashes_before of TranscriptStage.process.
Counters(d) == [attempts |-> d.attempts, crashes |-> d.crashes]

NoDemand == [at |-> "off", before |-> Counters(NewDoc), listed |-> FALSE, scored |-> NONE]

OwnerTypeOK ==
    /\ demand \in [Episodes -> Demand]
    /\ reset \in [Episodes -> EpisodeStatus \cup {NONE}]
    /\ stale \in SUBSET Episodes

OwnerInit ==
    /\ demand = [e \in Episodes |-> NoDemand]
    /\ reset = [e \in Episodes |-> NONE]
    /\ stale = {}

\* Process death takes every request in flight with it.
OwnerDies ==
    /\ demand' = [e \in Episodes |-> NoDemand]
    /\ reset' = [e \in Episodes |-> NONE]
    /\ stale' = {}

-----------------------------------------------------------------------------
(* Summarising one episode on demand                                       *)

Goto(e, at) == demand' = [demand EXCEPT ![e].at = at]
Finish(e) == demand' = [demand EXCEPT ![e] = NoDemand]

\* A step of the run: a transition() and the next place, or, where the transition
\* is illegal, an exception that ends the run and leaves the document alone.
DemandWrites(e, requested, d, at) ==
    IF Accepts(e, requested)
    THEN Transition(e, requested, d) /\ Goto(e, at)
    ELSE Finish(e) /\ UNCHANGED doc

\* A published episode with a summary is refused, unless it was added afterwards.
Refused(e) ==
    doc[e].status = "PUBLISHED" /\ doc[e].tier1 # NONE /\ ~doc[e].relisted

DemandStart(e) ==
    /\ demand[e].at = "off"
    /\ ~Refused(e)
    /\ demand' = [demand EXCEPT ![e] =
          [NoDemand EXCEPT
              !.at = IF doc[e].status = "TRANSCRIBED" THEN "summarize" ELSE "queue",
              !.listed = doc[e].status = "PUBLISHED" /\ doc[e].claim # NONE]]
    /\ UNCHANGED <<doc, reset, stale>>

DemandQueue(e) ==
    /\ demand[e].at = "queue"
    /\ DemandWrites(e, "AWAITING_TRANSCRIPT", doc[e], "read")
    /\ UNCHANGED <<reset, stale>>

\* Re-reads the document for TranscriptStage.process, which keeps its counters.
DemandRead(e) ==
    /\ demand[e].at = "read"
    /\ demand' = [demand EXCEPT ![e].at = "claim", ![e].before = Counters(doc[e])]
    /\ UNCHANGED <<doc, reset, stale>>

\* process() gives up on a spent crash budget and otherwise puts the in-flight
\* marker down.
DemandClaim(e) ==
    /\ demand[e].at = "claim"
    /\ IF demand[e].before.crashes >= CrashBudget
       THEN DemandWrites(e, "TRANSCRIPT_FAILED",
                [doc[e] EXCEPT !.failedAt = NONE], "settle")
       ELSE DemandWrites(e, "AWAITING_TRANSCRIPT",
                [doc[e] EXCEPT !.crashes = @ + 1], "acquiring")
    /\ UNCHANGED <<reset, stale>>

DemandAcquireFails(e) ==
    /\ demand[e].at = "acquiring"
    /\ \E retryable \in BOOLEAN :
          DemandWrites(e,
              IF Exhausted(demand[e].before, retryable)
              THEN "TRANSCRIPT_FAILED" ELSE "AWAITING_TRANSCRIPT",
              AcquireFailed(e, demand[e].before), "settle")
    /\ UNCHANGED <<reset, stale>>

\* ASRUnavailable: the marker comes off and the request fails.
DemandASRDown(e) ==
    /\ demand[e].at = "acquiring"
    /\ IF Accepts(e, "AWAITING_TRANSCRIPT")
       THEN Transition(e, "AWAITING_TRANSCRIPT", Released(e, demand[e].before))
       ELSE UNCHANGED doc
    /\ Finish(e)
    /\ UNCHANGED <<reset, stale>>

\* Mutant: the status is written before the attachment.
DemandSave_StatusFirst(e) ==
    /\ demand[e].at = "acquiring"
    /\ DemandWrites(e, "TRANSCRIBED",
           AcquireSucceeded(e, demand[e].before), "saving")
    /\ UNCHANGED <<reset, stale>>

DemandSave(e) ==
    /\ demand[e].at = "acquiring"
    /\ doc' = [doc EXCEPT ![e].text = TRUE]
    /\ Goto(e, "saving")
    /\ UNCHANGED <<reset, stale>>

DemandTranscribed(e) ==
    /\ demand[e].at = "saving"
    /\ DemandWrites(e, "TRANSCRIBED",
           AcquireSucceeded(e, demand[e].before), "summarize")
    /\ UNCHANGED <<reset, stale>>

\* No transcript: an answer is wanted now, so the description has to do.
DemandSettle(e) ==
    /\ demand[e].at = "settle"
    /\ DemandWrites(e, "TRANSCRIPT_FAILED", doc[e], "summarize")
    /\ UNCHANGED <<reset, stale>>

DemandSummarize(e) ==
    /\ demand[e].at = "summarize"
    /\ \E s \in Score :
          IF Accepts(e, "SUMMARIZED")
          THEN /\ Transition(e, "SUMMARIZED", [doc[e] EXCEPT !.tier1 = s])
               /\ demand' = [demand EXCEPT ![e].at = "classify", ![e].scored = s]
          ELSE Finish(e) /\ UNCHANGED doc
    /\ UNCHANGED <<reset, stale>>

\* Mutant: every episode is put to PUBLISHED afterwards.
DemandClassify_AlwaysRelists(e) ==
    /\ demand[e].at = "classify"
    /\ DemandWrites(e, Verdict(demand[e].scored), doc[e], "relist")
    /\ UNCHANGED <<reset, stale>>

DemandClassify(e) ==
    /\ demand[e].at = "classify"
    /\ IF demand[e].listed
       THEN DemandWrites(e, Verdict(demand[e].scored), doc[e], "relist")
       ELSE /\ IF Accepts(e, Verdict(demand[e].scored))
               THEN Transition(e, Verdict(demand[e].scored), doc[e])
               ELSE UNCHANGED doc
            /\ Finish(e)
    /\ UNCHANGED <<reset, stale>>

\* Back where it was: summarising does not un-publish an episode.
DemandRelist(e) ==
    /\ demand[e].at = "relist"
    /\ IF Accepts(e, "PUBLISHED")
       THEN Transition(e, "PUBLISHED", [doc[e] EXCEPT !.relisted = TRUE])
       ELSE UNCHANGED doc
    /\ Finish(e)
    /\ UNCHANGED <<reset, stale>>

\* Any other exception out of acquisition or the model call ends the request.
DemandFails(e) ==
    /\ demand[e].at \in {"acquiring", "saving", "summarize"}
    /\ Finish(e)
    /\ UNCHANGED <<doc, reset, stale>>

-----------------------------------------------------------------------------
(* The retry and escalate buttons                                          *)

\* The status the episode held when it failed, if it is safe to resume there.
ResumePoint(d) == IF d.failedAt \in {"ERROR", "PUBLISHED"} THEN NONE ELSE d.failedAt

RetryStatus(d) ==
    IF ResumePoint(d) # NONE THEN ResumePoint(d) ELSE RetryTarget(d.status)

RetryRead(e) ==
    /\ reset[e] = NONE
    /\ \/ RetryStatus(doc[e]) # doc[e].status
       \/ doc[e].status = "AWAITING_TRANSCRIPT"
    /\ reset' = [reset EXCEPT ![e] = RetryStatus(doc[e])]
    /\ UNCHANGED <<doc, demand, stale>>

\* Both counters start again and the error is cleared; the claim is kept.
RetryWrite(e) ==
    /\ reset[e] # NONE
    /\ IF Accepts(e, reset[e])
       THEN Transition(e, reset[e],
                [doc[e] EXCEPT !.attempts = 0, !.crashes = 0, !.failedAt = NONE])
       ELSE UNCHANGED doc
    /\ reset' = [reset EXCEPT ![e] = NONE]
    /\ UNCHANGED <<demand, stale>>

\* Nothing the request read decides what it writes, so it is one step.
Escalate(e) ==
    /\ Transition(e, "AWAITING_TRANSCRIPT",
           [doc[e] EXCEPT !.attempts = 0, !.crashes = 0, !.failedAt = NONE,
                          !.claim = NONE])
    /\ UNCHANGED ownerWork

-----------------------------------------------------------------------------
(* The re-scoring job                                                      *)

Rescorable(e) ==
    /\ doc[e].status \in {"READY_FOR_DIGEST", "SCORED_LOW"}
    /\ doc[e].tier1 # NONE

\* Those scored under another interest profile, or all of them on demand.
RescoreStart ==
    /\ stale = {}
    /\ \E S \in SUBSET {e \in Episodes : Rescorable(e)} : S # {} /\ stale' = S
    /\ UNCHANGED <<doc, demand, reset>>

\* One write: the new score and its classification land together.
Rescore(e) ==
    /\ e \in stale
    /\ \E s \in Score :
          TransitionOrError(e, Verdict(s), [doc[e] EXCEPT !.tier1 = s])
    /\ stale' = stale \ {e}
    /\ UNCHANGED <<demand, reset>>

RescoreFails(e) ==
    /\ e \in stale
    /\ MarkError(e)
    /\ stale' = stale \ {e}
    /\ UNCHANGED <<demand, reset>>

\* LLMUnavailable: the rest waits for another run.
RescoreDeferred ==
    /\ stale # {}
    /\ stale' = {}
    /\ UNCHANGED <<doc, demand, reset>>

-----------------------------------------------------------------------------
DemandStep(e) ==
    \/ DemandQueue(e) \/ DemandRead(e) \/ DemandClaim(e)
    \/ DemandAcquireFails(e) \/ DemandASRDown(e) \/ DemandSave(e)
    \/ DemandTranscribed(e) \/ DemandSettle(e)
    \/ DemandSummarize(e) \/ DemandClassify(e) \/ DemandRelist(e)
    \/ DemandFails(e)

=============================================================================
