------------------------------- MODULE Ingest -------------------------------
(***************************************************************************)
(* Feed ingestion (podcast_agent/ingest/feeds.py) of one podcast, with the *)
(* registry that says which URL it is polled at (podcasts.py), the console *)
(* that overrides the URL or switches it off (api/podcasts.py), and what   *)
(* else creates its episodes.  Polls of different podcasts share nothing,  *)
(* so one is enough.  A feed is what its publisher offers: a set of        *)
(* entries.  A day is the unit of time: polls are hourly, and the circuit  *)
(* breaker holds a failing feed for a day.                                 *)
(***************************************************************************)
EXTENDS FiniteSets, Integers

CONSTANTS
    Urls,           \* feed URLs, Configured among them
    Configured,     \* the one config.yaml names
    Entries,        \* what the publishers put out
    FeedOf,         \* FeedOf[e]: the URL whose feed carries e
    Date,           \* Date[e]: the day e came out
    Walled,         \* entries whose audio is off the narrow CDN allowlist
    Lookback,       \* pipeline.initial_lookback_days
    CIRCUIT_BREAKER_THRESHOLD,
    StartDay,       \* the day the podcast was added
    FirstDays,      \* days a month begins on
    MaxDay,         \* bound of the model: dates stop moving here
    MaxFailures,    \* bound of the model: failed polls and crashes per behaviour
    MaxRequests,    \* bound of the model: changes at the console
    NONE

ASSUME IngestAssumption ==
    /\ Configured \in Urls
    /\ FeedOf \in [Entries -> Urls]
    /\ Date \in [Entries -> Nat]
    /\ Walled \subseteq Entries /\ FirstDays \subseteq Nat
    /\ {Lookback, CIRCUIT_BREAKER_THRESHOLD, StartDay, MaxDay, MaxFailures,
        MaxRequests} \subseteq Nat
    /\ Lookback > 0 /\ CIRCUIT_BREAKER_THRESHOLD > 0 /\ StartDay <= MaxDay
    /\ NONE \notin Urls \cup {"narrow", "wide", "routine", "backfill"}

VARIABLES
    day,        \* today
    offered,    \* the entries out so far
    rules,      \* the allowlist this process was started with
    console,    \* the console's overrides: a URL or NONE, and whether it is enabled
    registry,   \* this process's copy of the merged record
    pdoc,       \* the polling fields of the podcast document
    edoc,       \* edoc[e]: which job recorded e, NONE before
    poll,       \* the poll in progress
    failed,     \* failed polls and crashes so far
    changes,    \* changes at the console so far
    passed,     \* history: entries a poll left as older than its cutoff
    crossed     \* history: the stored validators come of a poll of another URL than
                \* the recorded one, or of a 304 to the validators of such a poll

env == <<day, offered>>
history == <<passed, crossed>>
vars == <<day, offered, rules, console, registry, pdoc, edoc, poll, failed, changes,
          passed, crossed>>

Rules == {"narrow", "wide"}
Record == [url : Urls, enabled : BOOLEAN]

\* etag and last_modified: what they vouch for, the content of one feed at a time.
Validators == [url : Urls, seen : SUBSET Entries] \cup {NONE}

Podcast == [url      : Urls,            \* feed_url, as seeded
            etag     : Validators,
            failures : Nat,             \* consecutive_failures
            today    : BOOLEAN,         \* last_polled_at is less than a day ago
            rules    : Rules \cup {NONE},   \* intake_rules
            metadata : BOOLEAN]         \* feed_metadata_at is set

Poll == [at          : {"idle", "seed", "read", "fetch", "cutoff", "entries",
                        "success", "failure"},
         url         : Urls,
         conditional : BOOLEAN,         \* validators were sent
         backlog     : SUBSET Entries,
         cutoff      : Int,
         etag        : Validators,      \* of the response
         body        : BOOLEAN]         \* the response was not a 304

Idle == [at |-> "idle", url |-> Configured, conditional |-> FALSE, backlog |-> {},
         cutoff |-> 0, etag |-> NONE, body |-> FALSE]

IngestTypeOK ==
    /\ day \in StartDay..MaxDay
    /\ offered \in SUBSET Entries
    /\ rules \in Rules
    /\ console \in [url : Urls \cup {NONE}, enabled : BOOLEAN]
    /\ registry \in Record
    /\ pdoc \in Podcast
    /\ edoc \in [Entries -> {"routine", "backfill", NONE}]
    /\ poll \in Poll
    /\ failed \in 0..MaxFailures
    /\ changes \in 0..MaxRequests
    /\ passed \in SUBSET Entries
    /\ crossed \in BOOLEAN

\* _from_config: the override where there is one.
Merged(overrides) ==
    [url     |-> IF overrides.url = NONE THEN Configured ELSE overrides.url,
     enabled |-> overrides.enabled]

\* The podcast as seeded at the first start: never polled.
Init ==
    /\ day = StartDay
    /\ offered = {e \in Entries : Date[e] < StartDay}
    /\ rules = "narrow"
    /\ console = [url |-> NONE, enabled |-> TRUE]
    /\ registry = [url |-> Configured, enabled |-> TRUE]
    /\ pdoc = [url |-> Configured, etag |-> NONE, failures |-> 0, today |-> FALSE,
               rules |-> NONE, metadata |-> FALSE]
    /\ edoc = [e \in Entries |-> NONE]
    /\ poll = Idle
    /\ failed = 0 /\ changes = 0
    /\ passed = {} /\ crossed = FALSE

-----------------------------------------------------------------------------
(* One poll                                                                *)

\* run_ingest: the registry is read anew first.
PollBegins ==
    /\ poll.at = "idle"
    /\ registry' = Merged(console)
    /\ poll' = [poll EXCEPT !.at = "seed"]
    /\ UNCHANGED <<env, rules, console, pdoc, edoc, failed, changes, history>>

\* Mutant: the validators of the old feed are kept.
Seeded_KeepsValidators(url) ==
    IF pdoc.url = url THEN pdoc
    ELSE [pdoc EXCEPT !.url = url, !.failures = 0]

\* seed_podcast_docs: a changed URL starts without validators.
Seeded(url) ==
    IF pdoc.url = url THEN pdoc
    ELSE [pdoc EXCEPT !.url = url, !.etag = NONE, !.failures = 0]

Seed ==
    /\ poll.at = "seed"
    /\ pdoc' = Seeded(registry.url)
    /\ poll' = [poll EXCEPT !.at = "read"]
    /\ UNCHANGED <<env, rules, console, registry, edoc, failed, changes, history>>

\* Mutant: a feed that keeps failing is given up.
InBackoff_ForGood == pdoc.failures >= CIRCUIT_BREAKER_THRESHOLD

\* _in_backoff
InBackoff == pdoc.failures >= CIRCUIT_BREAKER_THRESHOLD /\ pdoc.today

\* Validators are sent once the metadata is known and if the rules are still those
\* the entries were last read under.
Conditional == pdoc.metadata /\ pdoc.rules = rules /\ pdoc.etag # NONE

\* _ingest_one up to the request; the run's list is read from the registry only now.
ReadPodcast ==
    /\ poll.at = "read"
    /\ poll' = IF ~registry.enabled \/ InBackoff THEN Idle
               ELSE [Idle EXCEPT !.at = "fetch", !.url = registry.url,
                                 !.conditional = Conditional]
    /\ UNCHANGED <<env, rules, console, registry, pdoc, edoc, failed, changes, history>>

Content(url) == {e \in offered : FeedOf[e] = url}

\* A publisher who is shown its own validators says 304 for the same content only;
\* one shown another feed's may go by the date and say it too.
NotModified ==
    /\ poll.at = "fetch" /\ poll.conditional
    /\ pdoc.etag # NONE
    /\ pdoc.etag.url = poll.url => pdoc.etag.seen = Content(poll.url)
    /\ poll' = [poll EXCEPT !.at = "success",
                            !.etag = [url |-> poll.url, seen |-> Content(poll.url)]]
    /\ UNCHANGED <<env, rules, console, registry, pdoc, edoc, failed, changes, history>>

Fetched ==
    /\ poll.at = "fetch"
    /\ poll' = [poll EXCEPT !.at = "cutoff", !.body = TRUE, !.backlog = Content(poll.url),
                            !.etag = [url |-> poll.url, seen |-> Content(poll.url)]]
    /\ UNCHANGED <<env, rules, console, registry, pdoc, edoc, failed, changes, history>>

\* No answer, an error status, or something that is not a feed.
FetchFails ==
    /\ poll.at = "fetch"
    /\ failed < MaxFailures
    /\ failed' = failed + 1
    /\ poll' = [Idle EXCEPT !.at = "failure"]
    /\ UNCHANGED <<env, rules, console, registry, pdoc, edoc, changes, history>>

Held(origins) == {e \in Entries : edoc[e] \in origins}

Oldest(S) == CHOOSE d \in {Date[e] : e \in S} : \A e \in S : d <= Date[e]

\* Mutant: a podcast with history takes the whole feed, as it once did.
Cutoff_Uncapped == IF Held({"routine", "backfill"}) # {} THEN 0 ELSE day - Lookback

\* _cutoff_for: the oldest episode held, of either job; without any, the lookback.
Cutoff ==
    LET held == Held({"routine", "backfill"})
    IN  IF held # {} THEN Oldest(held) ELSE day - Lookback

FindCutoff ==
    /\ poll.at = "cutoff"
    /\ poll' = [poll EXCEPT !.at = "entries", !.cutoff = Cutoff]
    /\ UNCHANGED <<env, rules, console, registry, pdoc, edoc, failed, changes, history>>

\* create-if-absent
Create(e, origin) ==
    IF edoc[e] = NONE THEN edoc' = [edoc EXCEPT ![e] = origin] ELSE UNCHANGED edoc

Permitted(e) == rules = "wide" \/ e \notin Walled

\* _ingest_entry
IngestEntry(e) ==
    /\ poll.at = "entries" /\ e \in poll.backlog
    /\ poll' = [poll EXCEPT !.backlog = @ \ {e}]
    /\ passed' = IF Date[e] < poll.cutoff THEN passed \cup {e} ELSE passed
    /\ IF Date[e] >= poll.cutoff /\ Permitted(e)
       THEN Create(e, "routine") ELSE UNCHANGED edoc
    /\ UNCHANGED <<env, rules, console, registry, pdoc, failed, changes, crossed>>

EntriesDone ==
    /\ poll.at = "entries" /\ poll.backlog = {}
    /\ poll' = [poll EXCEPT !.at = "success"]
    /\ UNCHANGED <<env, rules, console, registry, pdoc, edoc, failed, changes, history>>

\* The store refuses an entry: the feed has failed, later entries are not looked at.
EntryFails ==
    /\ poll.at \in {"cutoff", "entries"}
    /\ failed < MaxFailures
    /\ failed' = failed + 1
    /\ poll' = [Idle EXCEPT !.at = "failure"]
    /\ UNCHANGED <<env, rules, console, registry, pdoc, edoc, changes, history>>

\* _record_success: the validators the response carried, if it did, and the rules.
RecordSuccess ==
    /\ poll.at = "success"
    /\ \E etag \in {poll.etag, NONE} :
          pdoc' = [pdoc EXCEPT !.etag = etag, !.today = TRUE, !.failures = 0,
                               !.rules = rules, !.metadata = @ \/ poll.body]
    /\ crossed' = (poll.url # pdoc.url \/ (crossed /\ ~poll.body))
    /\ poll' = Idle
    /\ UNCHANGED <<env, rules, console, registry, edoc, failed, changes, passed>>

\* _record_failure
RecordFailure ==
    /\ poll.at = "failure"
    /\ pdoc' = [pdoc EXCEPT !.today = TRUE, !.failures =
                   IF @ < CIRCUIT_BREAKER_THRESHOLD THEN @ + 1 ELSE @]
    /\ poll' = Idle
    /\ UNCHANGED <<env, rules, console, registry, edoc, failed, changes, history>>

-----------------------------------------------------------------------------
(* Beside it                                                               *)

Publish(e) ==
    /\ e \notin offered /\ Date[e] = day
    /\ offered' = offered \cup {e}
    /\ UNCHANGED <<day, rules, console, registry, pdoc, edoc, poll, failed, changes,
                   history>>

\* The dates stop at MaxDay, the days do not.
DayPasses ==
    /\ day' = IF day < MaxDay THEN day + 1 ELSE day
    /\ pdoc' = [pdoc EXCEPT !.today = FALSE]
    /\ UNCHANGED <<offered, rules, console, registry, edoc, poll, failed, changes, history>>

\* The archive job records what came out before the month its walk is anchored in, the
\* month of its first run, however far back the lookback reaches.
ArchiveRecords(e) ==
    /\ e \in offered /\ FeedOf[e] = Merged(console).url
    /\ \E first \in FirstDays : Date[e] < first /\ first <= day
    /\ Permitted(e)
    /\ edoc[e] = NONE
    /\ Create(e, "backfill")
    /\ UNCHANGED <<env, rules, console, registry, pdoc, poll, failed, changes, history>>

\* PATCH /podcasts/{slug} and DELETE .../overrides/{field}: the document, then the
\* registry.  A poll under way keeps the record it has.
ConsoleSets ==
    /\ changes < MaxRequests
    /\ changes' = changes + 1
    /\ \/ \E url \in Urls \cup {NONE} : console' = [console EXCEPT !.url = url]
       \/ console' = [console EXCEPT !.enabled = ~@]
    /\ registry' = Merged(console')
    /\ UNCHANGED <<env, rules, pdoc, edoc, poll, failed, history>>

\* The process goes down and comes up, possibly with another allowlist: the seeding
\* at start knows config.yaml only, the registry is read after it.
Restart ==
    /\ \/ rules' = rules /\ failed < MaxFailures /\ failed' = failed + 1
       \/ rules = "narrow" /\ rules' = "wide" /\ UNCHANGED failed
    /\ pdoc' = Seeded(Configured)
    /\ registry' = Merged(console)
    /\ poll' = Idle
    /\ UNCHANGED <<env, console, edoc, changes, history>>

PollStep ==
    \/ PollBegins \/ Seed \/ ReadPodcast
    \/ NotModified \/ Fetched \/ FindCutoff
    \/ \E e \in Entries : IngestEntry(e)
    \/ EntriesDone \/ RecordSuccess \/ RecordFailure

Next ==
    \/ PollStep \/ FetchFails \/ EntryFails
    \/ \E e \in Entries : Publish(e) \/ ArchiveRecords(e)
    \/ DayPasses \/ ConsoleSets \/ Restart

\* Polls are scheduled hourly, and days pass.
Spec == Init /\ [][Next]_vars /\ WF_vars(PollStep) /\ WF_vars(DayPasses)

-----------------------------------------------------------------------------
(* The promises.                                                           *)

\* A poll has left e behind, for good: something newer is held and nothing as old, so
\* that e is below every cutoff to come; or the archive has since recorded an episode as
\* old, and what was left under the cutoff before is not looked at again unless the feed
\* is read in full.
PassedOver(e) ==
    /\ e \in passed
    /\ \E h \in Held({"routine", "backfill"}) : Date[e] < Date[h]
    /\ \/ \A h \in Held({"routine", "backfill"}) : Date[e] < Date[h]
       \/ \E h \in Held({"backfill"}) : Date[h] <= Date[e]

\* An entry routine ingestion owes an episode: in the feed the podcast is polled at,
\* allowed, within the lookback, and not passed over.
Wanted(e) ==
    /\ e \in Content(Merged(console).url) /\ console.enabled
    /\ Permitted(e)
    /\ Date[e] >= day - Lookback
    /\ ~PassedOver(e)

\* It gets one, whatever fails, is held back for a day or answered by a 304, and
\* whatever the URL or the allowlist was before (feeds.py:133-134, 181-193).
OfferedIsTaken == \A e \in Entries : Wanted(e) ~> (edoc[e] # NONE \/ ~Wanted(e))

\* Routine ingestion "must not do it by accident" (feeds.py:267-273): it takes nothing
\* older than the lookback reached when the podcast was added.  Not so: an episode the
\* archive recorded counts as held, and moves the cutoff back to its date.
RoutineLooksForward ==
    \A e \in Entries : edoc[e] = "routine" => Date[e] >= StartDay - Lookback

\* So it is as long as the archive has recorded nothing of the podcast.
RoutineAloneLooksForward == Held({"backfill"}) = {} => RoutineLooksForward

\* The lookback is what a fresh podcast is read by (feeds.py:264-265) and what an
\* entry refused under a narrower allowlist has left (188-193): an allowed entry that
\* young is taken.  Not so: the first poll may be cut short between two entries, or
\* refuse one, or the archive may record the month before the current one first, and the
\* next poll takes nothing older than what is held (278-288).
YoungIsTaken ==
    \A e \in Entries :
        (e \in Content(Merged(console).url) /\ console.enabled /\ Permitted(e)
            /\ Date[e] >= day - Lookback)
          ~> (edoc[e] # NONE \/ ~console.enabled \/ Date[e] < day - Lookback
                \/ e \notin Content(Merged(console).url))

\* A 304 hides nothing: what the stored validators vouch for has been taken.  Left
\* aside are validators stored while the URL was changed under the poll, for which the
\* next seeding is there: it drops them, the recorded URL being still the old one.
NothingBehindValidators ==
    (pdoc.etag # NONE /\ pdoc.rules = rules /\ ~crossed)
        => \A e \in pdoc.etag.seen : Wanted(e) => edoc[e] # NONE

\* A changed URL starts without validators, "so the new feed is read in full rather than
\* 304'd against the old" ones (feeds.py:131-134).  Not so: the seeding looks at the
\* recorded URL only.  With the URL changed under a poll and back before the next, the
\* other feed's validators stay, and a 304 to them vouches for what was never read.
NothingBehindRecordedUrl ==
    (pdoc.etag # NONE /\ pdoc.etag.url = pdoc.url /\ pdoc.rules = rules)
        => \A e \in pdoc.etag.seen : Wanted(e) => edoc[e] # NONE

=============================================================================
