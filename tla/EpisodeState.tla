---------------------------- MODULE EpisodeState ----------------------------
(***************************************************************************)
(* The episode status vocabulary and the table of legal transitions        *)
(* (podcast_agent/state.py), and the Tier-0 routing rule                   *)
(* (podcast_agent/triage/routing.py).  Constant-level: no state here.      *)
(***************************************************************************)
EXTENDS Naturals

EpisodeStatus ==
    {"NEW", "TRIAGED", "AWAITING_TRANSCRIPT", "TRANSCRIBED",
     "TRANSCRIPT_FAILED", "SUMMARIZED", "READY_FOR_DIGEST", "DIGEST_DIRECT",
     "SCORED_LOW", "DROPPED", "PUBLISHED", "ERROR"}

\* Statuses whose episodes still need pipeline work.
ACTIVE_STATUSES ==
    {"NEW", "TRIAGED", "AWAITING_TRANSCRIPT", "TRANSCRIBED",
     "TRANSCRIPT_FAILED", "SUMMARIZED"}

\* Statuses eligible for a full digest entry.
DIGESTABLE_STATUSES == {"READY_FOR_DIGEST", "DIGEST_DIRECT"}

\* from -> set of permitted next statuses
ALLOWED_TRANSITIONS ==
    [NEW                 |-> {"TRIAGED", "ERROR"},
     TRIAGED             |-> {"AWAITING_TRANSCRIPT", "DIGEST_DIRECT",
                              "DROPPED", "ERROR"},
     AWAITING_TRANSCRIPT |-> {"AWAITING_TRANSCRIPT", "TRANSCRIBED",
                              "TRANSCRIPT_FAILED", "ERROR"},
     TRANSCRIBED         |-> {"SUMMARIZED", "ERROR"},
     TRANSCRIPT_FAILED   |-> {"SUMMARIZED", "AWAITING_TRANSCRIPT", "ERROR"},
     SUMMARIZED          |-> {"READY_FOR_DIGEST", "SCORED_LOW", "ERROR"},
     READY_FOR_DIGEST    |-> {"PUBLISHED", "SCORED_LOW",
                              "AWAITING_TRANSCRIPT", "ERROR"},
     DIGEST_DIRECT       |-> {"PUBLISHED", "AWAITING_TRANSCRIPT", "ERROR"},
     SCORED_LOW          |-> {"AWAITING_TRANSCRIPT", "READY_FOR_DIGEST",
                              "PUBLISHED", "ERROR"},
     DROPPED             |-> {"AWAITING_TRANSCRIPT"},
     PUBLISHED           |-> {"AWAITING_TRANSCRIPT"},
     ERROR               |-> {"NEW", "AWAITING_TRANSCRIPT", "TRANSCRIBED",
                              "TRANSCRIPT_FAILED"}]

CanTransition(current, requested) == requested \in ALLOWED_TRANSITIONS[current]

\* Where /episodes/{id}/retry resets a failed episode.
RetryTarget(current) ==
    IF current \in {"ERROR", "TRANSCRIPT_FAILED"}
    THEN "AWAITING_TRANSCRIPT" ELSE current

-----------------------------------------------------------------------------
(* Routing.  A Tier-0 result is abstracted to where its two numbers fall   *)
(* relative to the thresholds: is the confidence at least t_conf_high, and *)
(* is the relevance below t_rel_low, from t_rel_high up, or in between.    *)

Route == {"DROP", "DIGEST_DIRECT", "ESCALATE"}
Relevance == {"below_low", "grey", "from_high"}

DecideRoute(alwaysEscalate, confident, relevance) ==
    IF alwaysEscalate \/ ~confident \/ relevance = "from_high" THEN "ESCALATE"
    ELSE IF relevance = "below_low" THEN "DROP"
    ELSE "DIGEST_DIRECT"

\* Tier0Stage.dispatch: the status each stored route leads to.
RouteTarget ==
    [DROP          |-> "DROPPED",
     DIGEST_DIRECT |-> "DIGEST_DIRECT",
     ESCALATE      |-> "AWAITING_TRANSCRIPT"]

=============================================================================
