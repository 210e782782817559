----------------------------- MODULE Lifecycle ------------------------------
(***************************************************************************)
(* The life of an episode under everything that writes its document at the *)
(* same time: the pipeline job, the digest job, and what the owner asks    *)
(* for.  The runner keeps one lock per job, so these overlap freely.       *)
(***************************************************************************)
EXTENDS PipelineProps, OwnerActions, Digest

CONSTANTS
    Actors,         \* who takes part, a set of names
    MaxRuns,        \* bound of the model: pipeline runs per behaviour
    MaxRefusals,    \* bound of the model: failed writes of the digest job
    MaxRequests     \* bound of the model: owner's requests per behaviour

ASSUME LifecycleAssumption ==
    /\ Actors \subseteq {"pipeline", "digest", "demand", "retry", "escalate",
                         "rescore", "manual"}
    /\ {MaxRuns, MaxRefusals, MaxRequests} \subseteq Nat

VARIABLES
    runs,       \* pipeline runs started so far
    refused,    \* failed writes of the digest job so far
    requests    \* owner's requests so far

vars == <<doc, workVars, deaths, mishaps, ownerWork, digestWork, runs, refused, requests>>

LifecycleTypeOK ==
    /\ PipelineTypeOK
    /\ OwnerTypeOK
    /\ DigestTypeOK
    /\ runs \in 0..MaxRuns
    /\ refused \in 0..MaxRefusals
    /\ requests \in 0..MaxRequests

Init ==
    /\ PipelineInit
    /\ OwnerInit
    /\ DigestInit
    /\ runs = 0
    /\ refused = 0
    /\ requests = 0

-----------------------------------------------------------------------------
Pipeline ==
    /\ "pipeline" \in Actors
    /\ PipelineStep
    /\ IF stage = "idle"
       THEN runs < MaxRuns /\ runs' = runs + 1
       ELSE UNCHANGED runs
    /\ UNCHANGED <<ownerWork, digestWork, refused, requests>>

Request ==
    /\ requests < MaxRequests
    /\ requests' = requests + 1
    /\ \/ "demand" \in Actors /\ (\E e \in Episodes : DemandStart(e))
                              /\ UNCHANGED digestWork
       \/ "retry" \in Actors /\ (\E e \in Episodes : RetryRead(e))
                             /\ UNCHANGED digestWork
       \/ "escalate" \in Actors /\ (\E e \in Episodes : Escalate(e))
                                /\ UNCHANGED digestWork
       \/ "rescore" \in Actors /\ RescoreStart /\ UNCHANGED digestWork
       \/ "manual" \in Actors /\ ManualDigest /\ UNCHANGED ownerWork
    /\ UNCHANGED <<workVars, deaths, mishaps, runs, refused>>

Owner ==
    /\ \/ \E e \in Episodes : DemandStep(e) \/ RetryWrite(e)
       \/ \E e \in Episodes : Rescore(e) \/ RescoreFails(e)
       \/ RescoreDeferred
    /\ UNCHANGED <<workVars, deaths, mishaps, digestWork, runs, refused,
                  requests>>

WeeklyDigest ==
    /\ "digest" \in Actors
    /\ ScheduledDigest \/ DigestStep \/ NextWeek
    /\ UNCHANGED <<workVars, deaths, mishaps, ownerWork, runs, refused,
                  requests>>

DigestGoesWrong ==
    /\ "digest" \in Actors
    /\ refused < MaxRefusals
    /\ refused' = refused + 1
    /\ DigestMishap
    /\ UNCHANGED <<workVars, deaths, mishaps, ownerWork, runs, requests>>

\* The process goes down with everything in flight in it.
Crash ==
    /\ mishaps < MaxMishaps
    /\ mishaps' = mishaps + 1
    /\ RunDies
    /\ OwnerDies
    /\ DigestDies
    /\ UNCHANGED <<doc, week, due, ddoc, lastTo, listed, runs, refused,
                  requests>>

Next == Pipeline \/ Request \/ Owner \/ WeeklyDigest \/ DigestGoesWrong \/ Crash

Spec == Init /\ [][Next]_vars

-----------------------------------------------------------------------------
(* The promises.                                                           *)

\* PUBLISHED says the owner has been shown it: whatever re-summarises, re-scores or
\* retries an episode, one that reads PUBLISHED is in a file.
PublishedWasListed ==
    \A e \in Episodes : doc[e].status = "PUBLISHED" => listed[e] # {}

\* Whatever crashes, is refused or asked for in between, the digest job goes by its order:
\* the file, the document, the claims of what the document names (generate.py:4-8, 287-288).
\* So a claimed episode is in the file of its digest, and between two claims of an episode
\* the owner has cleared the first (generate.py:548, state.py:99-104).
Ledger == INSTANCE DigestLedger WITH
              Weeks  <- Digests,
              files  <- listed,
              named  <- [w \in Digests |-> IF ddoc[w] = NONE THEN {} ELSE ddoc[w].ids],
              claims <- [e \in Episodes |-> doc[e].claim]

ImplementsLedger == Ledger!Spec

\* A digest whose marking is complete has claimed all it lists, crashes in between
\* included; only a write refused on the way can leave one out (generate.py:4-8).
\* The owner's requests are left out: an escalation takes a claim off on purpose.
CompleteMeansClaimed ==
    \A w \in Digests :
        refused = 0 /\ ddoc[w] # NONE /\ ddoc[w].complete
            => \A e \in ddoc[w].ids : doc[e].claim # NONE

\* No episode is in the files of two weeks (generate.py:4-8: the next run completes
\* the marking "instead of producing a duplicate").
ListedOnce ==
    \A e \in Episodes : \A v, w \in listed[e] : v = w

\* As long as nothing crashed and no write was refused, that is so.
ListedOnceWithoutFailure == mishaps = 0 /\ refused = 0 => ListedOnce

\* READY_FOR_DIGEST means the next digest takes it: a claimed one would be "a queue
\* entry that can never drain" (runner.py:620-626).
ReadyIsCollectable ==
    \A e \in Episodes : doc[e].status = "READY_FOR_DIGEST" => doc[e].claim = NONE

\* Nothing automatic moves a published episode (state.py:99): only the pipeline
\* and the digest are automatic.
PublishedStays ==
    [][\A e \in Episodes :
          (doc[e].status = "PUBLISHED" /\ Pipeline) => doc'[e].status = "PUBLISHED"]_vars

=============================================================================
