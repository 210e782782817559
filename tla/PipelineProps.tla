--------------------------- MODULE PipelineProps ---------------------------
(***************************************************************************)
(* What the pipeline job promises about the documents it works on.         *)
(***************************************************************************)
EXTENDS Pipeline

\* An episode whose acquisition keeps killing the process kills it at most
\* CrashBudget times before the stage retires it (transcripts/stage.py:48-56:
\* "one episode froze the whole pipeline for five days").
CrashBudgetHolds == \A e \in Episodes : deaths[e] <= CrashBudget

\* However often acquisition is retried, the counted attempts stay within
\* max_retries, the first attempt being always granted (stage.py:150-155).
RetryBudgetHolds ==
    \A e \in Episodes : doc[e].attempts <= MaxRetries \/ doc[e].attempts <= 1

\* A crash between two writes never leaves a status without what it stands for:
\* no TRANSCRIBED without its attachment, no classified episode without a score
\* (episodes.py:33-34).
StatusHasSubstance ==
    \A e \in Episodes :
        /\ doc[e].status = "TRANSCRIBED" => doc[e].text
        /\ doc[e].status \in {"SUMMARIZED", "READY_FOR_DIGEST", "SCORED_LOW"}
              => doc[e].tier1 # NONE

\* The classification agrees with the score stored beside it.
VerdictMatchesScore ==
    \A e \in Episodes :
        /\ doc[e].status = "READY_FOR_DIGEST" => doc[e].tier1 = "high"
        /\ doc[e].status = "SCORED_LOW" => doc[e].tier1 = "low"

\* Everything in an active status drains on its own (runner.py:57-61): whatever
\* acquisition does, every episode leaves the pipeline's queues in the end, and one
\* that crashes the process holds up the ones behind it only for a while.
EveryEpisodeDrains ==
    \A e \in Episodes :
        doc[e].status \in ACTIVE_STATUSES ~> doc[e].status \notin ACTIVE_STATUSES

\* The one place an episode can be left in is SUMMARIZED, between the two writes of
\* summarize(), and only by a crash or a refused write there (tier1.py:65-66): any other
\* mishap, an outage and a crash of an acquisition are all made good by later runs.
DrainsUnlessCutShort ==
    \A e \in Episodes :
        doc[e].status \in ACTIVE_STATUSES ~>
            \/ doc[e].status \notin ACTIVE_STATUSES
            \/ doc[e].status = "SUMMARIZED" /\ mishaps > 0

=============================================================================
