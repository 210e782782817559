----------------------------- MODULE EpisodeDocs -----------------------------
(***************************************************************************)
(* The episode documents every actor reads and writes, and the writes      *)
(* podcast_agent/episodes.py builds on the store's update_doc.             *)
(*                                                                         *)
(* update_doc re-reads the document and re-runs its mutator on every       *)
(* revision conflict, so one call is one atomic read-modify-write of the   *)
(* current document: a transition is judged against the status the         *)
(* document has at the write, whatever the caller read before.             *)
(***************************************************************************)
EXTENDS EpisodeState

CONSTANTS
    Episodes,   \* routine episodes (archive material has its own job)
    Digests,    \* digest documents, one per ISO week, in order
    MaxRetries,     \* pipeline.max_retries
    CrashBudget,    \* CRASH_BUDGET in transcripts/stage.py
    NONE

ASSUME DigestsAssumption == Digests \subseteq Nat
ASSUME BudgetAssumption == MaxRetries \in Nat /\ CrashBudget \in Nat
ASSUME NoneAssumption == /\ NONE \notin Digests
                         /\ NONE \notin EpisodeStatus
                         /\ NONE \notin Route
                         /\ NONE \notin {"high", "low"}

VARIABLE doc    \* doc[e]: the stored document of episode e

Score == {"high", "low"}    \* a Tier-1 score against digest_threshold

Doc == [status   : EpisodeStatus,
        route    : Route \cup {NONE},           \* tier0.route
        attempts : Nat,                         \* attempts.transcript
        crashes  : Nat,                         \* attempts.transcript_crash
        failedAt : EpisodeStatus \cup {NONE},   \* last_error.status_when_failed
        text     : BOOLEAN,                     \* the transcript attachment
        tier1    : Score \cup {NONE},
        claim    : Digests \cup {NONE},         \* digest_id
        relisted : BOOLEAN]                     \* summary_after_listing

NewDoc == [status |-> "NEW", route |-> NONE, attempts |-> 0, crashes |-> 0,
           failedAt |-> NONE, text |-> FALSE, tier1 |-> NONE,
           claim |-> NONE, relisted |-> FALSE]

\* The status a score is classified to.
Verdict(score) == IF score = "high" THEN "READY_FOR_DIGEST" ELSE "SCORED_LOW"

\* transition() accepts a replay of an already applied step; AWAITING_TRANSCRIPT,
\* the one status it does not replay, has a self-loop in the table.
Accepts(e, requested) ==
    \/ doc[e].status = requested
    \/ CanTransition(doc[e].status, requested)

\* One successful transition(): d is the current document with the payload on it.
Transition(e, requested, d) ==
    /\ Accepts(e, requested)
    /\ doc' = [doc EXCEPT ![e] = [d EXCEPT !.status = requested]]

\* mark_error(): records the status held, and moves to ERROR where that is legal.
MarkError(e) ==
    doc' = [doc EXCEPT ![e] =
              [@ EXCEPT !.failedAt = doc[e].status,
                        !.status   = IF CanTransition(doc[e].status, "ERROR")
                                     THEN "ERROR" ELSE doc[e].status]]

\* A stage's transition(), with the stage loop's handler: an illegal transition
\* raises and ends in mark_error.
TransitionOrError(e, requested, d) ==
    IF Accepts(e, requested) THEN Transition(e, requested, d) ELSE MarkError(e)

-----------------------------------------------------------------------------
(* The payloads TranscriptStage writes with its transitions.  "before" is  *)
(* the copy of the document its caller passed in.                          *)

\* The in-flight marker comes off: the counter returns to what the caller's copy said.
Released(e, before) == [doc[e] EXCEPT !.crashes = before.crashes]

\* Mutant: one attempt too many.
Exhausted_OffByOne(before, retryable) ==
    ~retryable \/ before.attempts + 1 > MaxRetries

Exhausted(before, retryable) ==
    ~retryable \/ before.attempts + 1 >= MaxRetries

AcquireFailed(e, before) ==
    [Released(e, before) EXCEPT !.attempts = @ + 1, !.failedAt = NONE]

AcquireSucceeded(e, before) ==
    [Released(e, before) EXCEPT !.attempts = @ + 1]

==============================================================================
