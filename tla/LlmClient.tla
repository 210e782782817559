----------------------------- MODULE LlmClient ------------------------------
(***************************************************************************)
(* The model client (podcast_agent/llm/client.py) under the stages that    *)
(* call it: the chain of endpoints of a tier, walked from its head at      *)
(* every call, retries after replies that do not validate, and the         *)
(* cooldown that steps over an endpoint which failed a moment ago.  The    *)
(* calls of overlapping jobs share the cooldown table.                     *)
(*                                                                         *)
(* A caller is a stage working on one episode: one call, or, when the      *)
(* text is too long, one call per chunk and a last one that reduces        *)
(* (summarize/tier1.py).  Time is counted in ticks; an endpoint that goes  *)
(* down takes the requests it holds with it.                               *)
(***************************************************************************)
EXTENDS FiniteSets, FiniteSetsExt, Integers, Sequences

CONSTANTS
    Callers,                \* stages that call the client, at most one call each
    Tiers,
    Endpoints,              \* deployments
    Cloud,                  \* those outside the LAN
    Configured,             \* Configured[t]: primary, then fallbacks
    allow_cloud_fallback,   \* allow_cloud_fallback[t]
    validation_retries,
    ENDPOINT_COOLDOWN,      \* in ticks
    MapReduced,             \* tiers whose long texts are cut into chunks: Tier-1
    Pieces,                 \* how many
    MAX_CHUNKS,
    MaxOutages,             \* bound of the model
    MaxRejections           \* bound of the model: requests an endpoint turns down

\* The last conjunct is the validator of LLMTierConfig.
ASSUME LlmAssumption ==
    /\ Configured \in [Tiers -> Seq(Endpoints)]
    /\ allow_cloud_fallback \in [Tiers -> BOOLEAN]
    /\ MapReduced \subseteq Tiers
    /\ {validation_retries, Pieces, MaxOutages, MaxRejections} \subseteq Nat
    /\ {ENDPOINT_COOLDOWN, MAX_CHUNKS} \subseteq Nat \ {0}
    /\ \A t \in Tiers : \E i \in 1..Len(Configured[t]) :
          allow_cloud_fallback[t] \/ Configured[t][i] \notin Cloud

VARIABLES
    up,             \* up[e]: e answers requests
    cooling,        \* cooling[a]: ticks left of the cooldown of alias a
    since,          \* since[a]: ticks since a last failed, as the world saw it
    call,           \* call[c]: the local variables of complete_structured
    outages, rejections

vars == <<up, cooling, since, call, outages, rejections>>

\* The eligible endpoints of a tier, by their place in the configuration.
active_chain(t) ==
    {i \in 1..Len(Configured[t]) :
        allow_cloud_fallback[t] \/ Configured[t][i] \notin Cloud}

\* An endpoint serving two tiers has an alias, and a cooldown, in each.
Aliases == UNION {{<<t, i>> : i \in active_chain(t)} : t \in Tiers}

EndpointOf(a) == Configured[a[1]][a[2]]

Idle == [at |-> "idle", tier |-> CHOOSE t \in Tiers : TRUE, walk |-> {}, tried |-> {},
         recent |-> {}, failures |-> 0, doomed |-> FALSE, fallback |-> FALSE,
         left |-> 0, bullets |-> FALSE]

Call == [at       : {"idle", "asked", "record", "unavailable"},
         tier     : Tiers,
         walk     : SUBSET Nat,     \* positions still to try, the one asked included
         tried    : SUBSET Nat,
         recent   : SUBSET Nat,     \* those that had failed within a cooldown of the start
         failures : Nat,            \* validation failures of the endpoint asked
         doomed   : BOOLEAN,        \* the request will not be answered
         fallback : BOOLEAN,        \* CallMeta.fallback_used
         left     : Nat,            \* calls of this episode after this one
         bullets  : BOOLEAN]        \* the map phase has extracted something

LlmTypeOK ==
    /\ up \in [Endpoints -> BOOLEAN]
    /\ cooling \in [Aliases -> 0..ENDPOINT_COOLDOWN]
    /\ since \in [Aliases -> 0..ENDPOINT_COOLDOWN]
    /\ call \in [Callers -> Call]
    /\ outages \in 0..MaxOutages
    /\ rejections \in 0..MaxRejections

Init ==
    /\ up = [e \in Endpoints |-> TRUE]
    /\ cooling = [a \in Aliases |-> 0]
    /\ since = [a \in Aliases |-> ENDPOINT_COOLDOWN]
    /\ call = [c \in Callers |-> Idle]
    /\ outages = 0 /\ rejections = 0

-----------------------------------------------------------------------------
(* The walk                                                                *)

\* Mutant: nothing is walked while every endpoint is cooling.
Walk_NoneCooling(t) == {i \in active_chain(t) : cooling[<<t, i>>] = 0}

Walk(t) ==
    LET ready == {i \in active_chain(t) : cooling[<<t, i>>] = 0}
    IN  IF ready # {} THEN ready ELSE active_chain(t)

Current(c) == Min(call[c].walk)

Alias(c) == <<call[c].tier, Current(c)>>

Asked(c) == EndpointOf(Alias(c))

\* The call of tier t that starts now, `left` more to come for the episode.
Started(t, left, bullets) ==
    [Idle EXCEPT !.at = IF Walk(t) = {} THEN "unavailable" ELSE "asked",
                 !.tier = t, !.walk = Walk(t), !.left = left, !.bullets = bullets,
                 !.recent = {i \in active_chain(t) : since[<<t, i>>] < ENDPOINT_COOLDOWN},
                 !.doomed = Walk(t) # {} /\ ~up[EndpointOf(<<t, Min(Walk(t))>>)]]

\* An exception ends the walk at this endpoint: the next, or LLMUnavailable.
MovedOn(c) ==
    LET rest == call[c].walk \ {Current(c)}
    IN  [call[c] EXCEPT !.walk = rest, !.tried = @ \cup {Current(c)}, !.failures = 0,
                        !.at = IF rest = {} THEN "unavailable" ELSE "asked",
                        !.doomed = rest # {} /\ ~up[EndpointOf(<<call[c].tier, Min(rest)>>)]]

\* A stage calls for an episode; a long text needs MAX_CHUNKS calls at most and one more.
Begin(c) ==
    /\ call[c].at = "idle"
    /\ \E t \in Tiers :
       \E left \in {0} \cup IF t \in MapReduced THEN {Min({Pieces, MAX_CHUNKS})} ELSE {} :
          call' = [call EXCEPT ![c] = Started(t, left, left = 0)]
    /\ UNCHANGED <<up, cooling, since, outages, rejections>>

-----------------------------------------------------------------------------
(* One request                                                             *)

Fallback(c) == Current(c) # Min(active_chain(call[c].tier))

\* A reply that validates: whatever was wrong with the endpoint is over.
Answers(c) ==
    /\ call[c].at = "asked" /\ ~call[c].doomed
    /\ cooling' = [cooling EXCEPT ![Alias(c)] = 0]
    /\ \E bullets \in IF call[c].left = 0 THEN {call[c].bullets} ELSE {call[c].bullets, TRUE} :
          call' = [call EXCEPT ![c].at = "record", ![c].fallback = Fallback(c),
                               ![c].bullets = bullets]
    /\ UNCHANGED <<up, since, outages, rejections>>

\* A reply that does not validate: asked again, until the retries are spent.
Invalid(c) ==
    /\ call[c].at = "asked" /\ ~call[c].doomed
    /\ call' = [call EXCEPT ![c] =
          IF call[c].failures + 1 > validation_retries THEN MovedOn(c)
          ELSE [call[c] EXCEPT !.failures = call[c].failures + 1,
                               !.doomed = ~up[Asked(c)]]]
    /\ UNCHANGED <<up, cooling, since, outages, rejections>>

Cools(c) ==
    /\ cooling' = [cooling EXCEPT ![Alias(c)] = ENDPOINT_COOLDOWN]
    /\ since' = [since EXCEPT ![Alias(c)] = 0]
    /\ call' = [call EXCEPT ![c] = MovedOn(c)]
    /\ UNCHANGED <<up, outages>>

\* A time-out, a refused connection, a server error.
Fails(c) ==
    /\ call[c].at = "asked" /\ call[c].doomed
    /\ Cools(c)
    /\ UNCHANGED rejections

\* A request turned down by a healthy endpoint (rate limit, context length) cools it too.
Rejects(c) ==
    /\ call[c].at = "asked" /\ ~call[c].doomed
    /\ rejections < MaxRejections
    /\ rejections' = rejections + 1
    /\ Cools(c)

\* Any other exception: the next endpoint, and no cooldown.
Errs(c) ==
    /\ call[c].at = "asked" /\ ~call[c].doomed
    /\ call' = [call EXCEPT ![c] = MovedOn(c)]
    /\ UNCHANGED <<up, cooling, since, outages, rejections>>

\* Telemetry is written, or fails to be; then the next chunk, the reduction, or the end.
\* A map phase that extracted nothing fails before the reduction.
Recorded(c) ==
    /\ call[c].at = "record"
    /\ call' = [call EXCEPT ![c] =
          IF @.left = 0 \/ (@.left = 1 /\ ~@.bullets) THEN Idle
          ELSE Started(@.tier, @.left - 1, @.bullets)]
    /\ UNCHANGED <<up, cooling, since, outages, rejections>>

\* The stage defers and stops, or the item fails: no call is left half done.
GivesUp(c) ==
    /\ call[c].at = "unavailable"
    /\ call' = [call EXCEPT ![c] = Idle]
    /\ UNCHANGED <<up, cooling, since, outages, rejections>>

-----------------------------------------------------------------------------
(* Endpoints and time                                                      *)

GoesDown(e) ==
    /\ up[e] /\ outages < MaxOutages
    /\ outages' = outages + 1
    /\ up' = [up EXCEPT ![e] = FALSE]
    /\ call' = [c \in Callers |->
          [call[c] EXCEPT !.doomed = @ \/ (call[c].at = "asked" /\ Asked(c) = e)]]
    /\ UNCHANGED <<cooling, since, rejections>>

\* What was asked while the endpoint was down still times out.
ComesUp(e) ==
    /\ ~up[e]
    /\ up' = [up EXCEPT ![e] = TRUE]
    /\ UNCHANGED <<cooling, since, call, outages, rejections>>

\* Mutant: an entry of the table is believed for good.
Elapsed_Never(a) == cooling[a]

Elapsed(a) == Max({0, cooling[a] - 1})

Tick ==
    /\ cooling' = [a \in Aliases |-> Elapsed(a)]
    /\ since' = [a \in Aliases |-> Min({ENDPOINT_COOLDOWN, since[a] + 1})]
    /\ UNCHANGED <<up, call, outages, rejections>>

Proceeds(c) ==
    \/ Answers(c) \/ Invalid(c) \/ Fails(c) \/ Rejects(c) \/ Errs(c)
    \/ Recorded(c) \/ GivesUp(c)

Next ==
    \/ \E c \in Callers : Begin(c) \/ Proceeds(c)
    \/ \E e \in Endpoints : GoesDown(e) \/ ComesUp(e)
    \/ Tick

\* Every request ends (the timeout of the tier) and time passes.
Fairness == WF_vars(Tick) /\ \A c \in Callers : WF_vars(Proceeds(c))

Spec == Init /\ [][Next]_vars /\ Fairness

-----------------------------------------------------------------------------
(* Properties                                                              *)

\* A call reports its tier unavailable only when each endpoint of the chain has failed it or
\* had failed within a cooldown of the start, and never without having asked one: a cooldown
\* that outlives its minute, or that empties the walk, would turn slow into unavailable.
UnavailableMeansFailed ==
    \A c \in Callers : call[c].at = "unavailable" =>
        /\ call[c].tried # {}
        /\ call[c].tried \cup call[c].recent = active_chain(call[c].tier)

\* An endpoint that stays up is in the end offered to every new call, whatever late failures
\* of older requests put back into the table.
HealthyIsOffered ==
    \A a \in Aliases : <>[]up[EndpointOf(a)] => <>[](cooling[a] = 0)

\* What the docstring of _walk promises, and the code does not: a cooldown never turns slow
\* into unavailable, that is, no endpoint is left unasked by a call that gives up.
UnavailableMeansTried ==
    \A c \in Callers : call[c].at = "unavailable" =>
        call[c].tried = active_chain(call[c].tier)
=============================================================================
