# podcast-digest: TLA+ specifications

Specifications of the podcast digest agent (`podcast_agent/`), the TLC runs that
check them on small instances and the proofs TLAPS checks for every instance.
File and line references are to this repository.

- [1. The system](#1-the-system)
- [2. Modules and how they correspond to the code](#2-modules-and-how-they-correspond-to-the-code)
- [3. The runs](#3-the-runs)
- [4. Fairness](#4-fairness)
- [5. What is proved](#5-what-is-proved)
- [6. Where code and comments disagree](#6-where-code-and-comments-disagree)
- [7. What the models leave out](#7-what-the-models-leave-out)
- [8. Plan](#8-plan)

`tlc -config X.cfg M` runs a configuration, `tlapm MProofs.tla` checks the proofs.

## 1. The system

One asyncio process polls podcast feeds, has a language model triage each new
episode, acquires transcripts for those worth it, summarises and scores them, and
writes a weekly Markdown digest. All state is in CouchDB documents; Markdown (and
audio) files are the output. Jobs are fired by a scheduler and overlap freely, as
do requests of the owner over HTTP: there is one lock per *job*, none per *episode*.

| Component | State | Operations | Interacts through | Hard part | Correct when |
|---|---|---|---|---|---|
| Statuses (`state.py`) and documents (`episodes.py`) | status, counters, error, score, claim of each episode | `transition`, `mark_error` | every actor | writers that read earlier | a status has its substance, a verdict its score |
| Store (`db/base.py`, `db/couch.py`) | documents with revisions | `get`, `put`, `create`, `update_doc` | every component | conflicts, lost replies, repeated requests | no update is lost, each is applied once |
| Pipeline (`pipeline/runner.py`) | queue snapshot of the stage in progress | four stages an hour | documents; stages below | stale snapshots, crashes, outages | every episode drains; budgets hold |
| Triage (`triage/`) | `tier0` block | triage, dispatch | pipeline | model outages | the stored route decides |
| Transcripts (`transcripts/stage.py`) | attachment, `attempts` counters | `process` | pipeline, owner, archive | an acquisition may kill the process | a killer is retired, a failing one exhausts its retries |
| Acquisition (`transcripts/acquire.py`, `asr.py`, `net.py`) | audio file of the episode, slots | three strategies, download with resumption, transcribe, sweep | disk, network, stage | two acquisitions, one file; what a crash left under its name; enclosures replaced between rounds | what is transcribed is whole, no file stays |
| Tier-1 (`summarize/tier1.py`) | `tier1` block | `summarize`, `rescore` | pipeline, owner, archive | two writes with a crash in between | classified by its own score |
| Chunking (`summarize/chunking.py`, `narrate.chunk_script`) | none | cut a text to a budget | Tier-1, narration | sentences longer than the budget, separators | nothing lost, nothing too long, no paragraph divided that fits |
| Digest (`digest/generate.py`) | files, digest documents, `digest_id` claims | `generate`, reconcile, mark | documents, disk | crash between file, document and claims; owner meanwhile | listed once, claims backed by files |
| Owner's requests (`runner.summarize_episode`, `api/routes.py`, re-scoring) | requests in flight | summarise, retry, escalate, rescore | documents | no lock against the pipeline or the digest | what is PUBLISHED was shown |
| Job lease (`joblock.py`) | one lock document a job | acquire, heartbeat, release, sweep | store | expiry, late writes, lost replies, dead processes | at most one live run; a dead run does not wedge the job |
| Ingestion (`ingest/feeds.py`), registry (`podcasts.py`) | podcast poll state, new episodes | poll, circuit breaker, conditional fetch, seeding | store, network, console | a 304 hides what was rejected before; URL changed during a poll; a cutoff that the archive moves | an entry that is wanted becomes one document |
| Archive (`backfill/`, `digest/archive.py`) | cursor and anchor per show, pause flag, archive files and claims | walk a month, process, write months, pause, rewind, widen | store, stages | cursor against budget, rewind during a walk, turn of the month, reconcile | every month visited, recorded means listed |
| Narration (`digest/narrate.py`) | audio file, embed, record | narrate | disk, speech server, store | crash between the three; weeks generated again meanwhile | a file that plays is whole |
| LLM client (`llm/client.py`) | cooldown table | failover, validation retries | stages | concurrent callers, late failures of old requests | a tier is unavailable only if every endpoint failed it |
| Start, scheduler, shutdown (`main.py`, `scheduler.py`) | phase, running jobs | migrate, reclaim, fire, drain, close | leases, overrides, log store | cleanup after cancellation and after the end of the grace, death among the migrations | leases released before the store closes; jobs meet migrated documents |
| Migrations (`migrate.py`) | document versions | origins, anchors, adoption of files | store, disk | rerun after a death half-way | everything is completed before a job runs |
| Console overrides (`settings_store.py`, `api/settings.py`) | override document, what is applied | save, reset, merge at the start | store, start | overlapping saves, restart between | the restart banner tells the truth |
| Log store (`logstore.py`) | bounded queue | emit, drain in batches, flush | store, shutdown | what is logged while stopping | (see section 6) |
| Retention (`retention.py`), search (`search.py`) | texts, index rows | expire, sweep, rebuild, sync | store, index file | selection read before deletion, pages that shift | the index agrees with what is stored, old texts go |
| Signals, feedback, entities, insights, cadence, notifications, console pages, export, estimate, URL guard | derived or read-only | | | | out of scope, see section 7 |

`PROJECT.json` lists the components with their status, the hazards with their
lines, and which property guards against which.

## 2. Modules and how they correspond to the code

```
EpisodeState ─┬─ EpisodeDocs ─┬─ Pipeline ── PipelineProps ─┬─ MCPipeline
 (constants)  │   (documents) │                              │
              │               ├─ OwnerActions ───────────────┼─ Lifecycle ─┬─ MCLifecycle
              │               └─ Digest ─────────────────────┘             └─ LifecycleProofs
              └─ ArchiveDocs ─┬─ ArchiveWalk ────┐
                              ├─ ArchiveProcess ─┼─ Archive ── MCArchive, ArchiveProofs
                              └─ ArchiveDigest ──┘
Overrides ───┐
LogStore ────┼─ Process ── MCProcess, ProcessProofs
Migrations ──┘
Ingest ── MCIngest, IngestProofs    Acquire ── MCAcquire, AcquireProofs
LlmClient ── MCLlmClient, LlmClientProofs
DigestLedger ◁── Lifecycle
Audiobook ◁── Narrate, over Chunking ── MCNarrate, NarrateProofs
JobExclusion ◁── JobLease ────────────────┐
AtomicUpdate ◁── UpdateDoc ── MCUpdateDoc ┼─ StoreProofs            (◁ implements)
                 Corpus ── MCCorpus ──────┘
```

- **EpisodeState** is `state.py` and `triage/routing.py`: the transition table, where
  retry goes, and the routing rule over a Tier-0 answer abstracted to where its two
  numbers lie against the thresholds.
- **EpisodeDocs** is `episodes.py`: the documents (`doc[e]`) and the atomic writes
  `Transition` and `MarkError`, judged against the status the document has *at the
  write*. A document keeps its status, route, the two transcript counters, the status
  recorded by the last error, whether the attachment exists, the score relative to the
  threshold, the claim (`digest_id`) and `summary_after_listing`.
- **Pipeline** is `_run_pipeline` and the stages' work on one episode. `stage`, `todo`
  and `snap` are the stage in progress, what is left of its queue, and the documents as
  the queue's `find()` returned them; one action ends at every `await` on a model, a
  transcript or a write, so `snap` may be old. What `TranscriptStage.process` read of
  its argument (the counters before the attempt) comes from `snap`, as in the code.
- **PipelineProps** states the pipeline's promises.
- **OwnerActions** is what runs beside it: `summarize_episode` in twelve steps, the
  retry button's read and write, escalate, re-scoring.
- **Digest** is `generate()`: collect, file, document, claims one by one (each a read
  and a write), the complete flag, and reconciliation of a document whose marking did
  not finish. Weeks are numbers in order.
- **Lifecycle** composes the three, with bounds on what is started, and a process
  crash that takes everything in flight and leaves documents and files. **DigestLedger**
  is what whoever reads the digests may count on: the file, the document that names its
  episodes, the claims, in that order, and no claim handed on.
- **ArchiveDocs**, **ArchiveWalk**, **ArchiveProcess**, **ArchiveDigest** are the
  archive's documents and the three phases of `_run_backfill`; **Archive** runs them one
  after the other in one run, as the runner does, with what happens beside: requests of
  the owner (rewind, a wider window, retry, escalate), pause and preemption by routine
  work, the turn of the month, crashes and refused writes. `pdoc[s]` is a show's cursor, anchor and flag,
  `done[s]` the months some run has been through, which the code does not keep. The walk
  of one show is a read of its document, one step per month, and the write of the cursor.
- **Ingest** is one podcast's poll: seeding from the registry, the conditional fetch,
  the intake rules and the cutoff, entry by entry, the validators stored at the end, the
  circuit breaker. `pdoc` is the podcast's document, `poll` the poll under way with the
  copy it read. The archive is one action, which records what came out before some month
  that has begun: its walk starts with the month before the current one, whatever the
  lookback. Two history variables (`passed`, `crossed`) say which entries a poll left as
  older than its cutoff, and whether the stored validators come of a poll under which the
  URL was changed.
- **Acquire** is `acquire.py` to the byte chunk: feed, scrape, download and ASR, the
  slots of both semaphores, the file under its name with the handles open on it (POSIX:
  truncating, appending, unlinking), the resumption rounds of `net.py`, the sweep. A
  connection may break while the body is streamed or before the headers; the next round
  goes on from the size of whatever file has the name. `shared` is history: which files
  had two writers, or were swept under one, since they were last started anew.
- **Corpus** is the text of a transcript as three jobs see it: stored, expired by age,
  indexed, the rebuild in pages and the sync included.
- **LlmClient** is the walk over a tier's chain with the cooldown table that concurrent
  callers share, and the validation retries.
- **Overrides**, **LogStore**, **Migrations** are the parts a start and a stop join;
  **Process** is `main.py` and `scheduler.py`: the start in its order, jobs under leases,
  the stop with its two graces, deaths anywhere, and the next boot. When a grace runs out
  (`GraceEnds`) the jobs are cancelled a second time, which cuts off the release of some;
  the stop waits on for all of them (`Waits`), as `gather` does. A release may be refused
  by an open store, which `release()` swallows; `unclean` are the jobs that ended in
  either way.
- **Chunking** holds both chunkers as recursive functions over texts reduced to the
  lengths of their sentences; **Narrate** is the narration job over them: choice of the
  digest, chunks into a file beside, rename, embed, record. **Audiobook** is what it
  promises a listener: whole readings only, each put in place at once, never replaced by
  an older one.
- **JobLease** is `joblock.py`: every request is split at its await, a write may land
  unheard or late, and the revision of the document is kept as the set of readers for
  whom it is still the one they read. Time is counted in heartbeats, an expiry as what
  remains of it. **JobExclusion** is what a lease promises.
- **UpdateDoc** is `update_doc` over the CouchDB client's retries, for one document and
  overlapping calls. **AtomicUpdate** is what it promises; that EpisodeDocs writes a
  document in one step is this promise.

Each module opens with what it models; `map` in `PROJECT.json` names the lines of every
definition. Operators whose comment begins with "Mutant" are plausible bugs of the
definition below them; no specification uses them. They show that each property can
fail. Properties stated in a module that no configuration checks are the sentences of
section 6, which the code does not keep.

## 3. The runs

| Run | Module, configuration | Question | Bounds |
|---|---|---|---|
| pipeline | MCPipeline | Do the budgets, the status/substance and verdict/score relations hold through crashes and refused writes, and does every episode leave the queues? | two episodes, one transcript and one summary a run (so the older waits behind the newer), 2 retries, crash budget 2, one mishap besides acquisition crashes, which the budget bounds; 115 531 states |
| owner | MCLifecycle, MCOwner | What may two requests do to an episode under a pipeline run and a digest? | one episode, one run, one week, two requests; 1.9M states |
| digest | MCLifecycle, MCDigest | Do files, digest documents and claims agree, and come about in the ledger's order? | two episodes, two weeks, one digest on request over any period, one crash, one refused write; 1.9M states |
| archive | MCArchive | Is every month of a window walked, and everything recorded in one file? | one show, two episodes in one month, one month and one episode a run, window 1 that may become 2, one turn of the month, one mishap, one request, one pause or preemption; 391 316 states |
| ingest | MCIngest | Is what is offered and wanted taken, whatever a 304, a breaker or a changed URL hides? | four entries (before the lookback, within it and walled, appearing later, in the other feed), two URLs, a month that begins on the second of two days, breaker at 1, two failures, one request; 419 699 states |
| acquire | MCAcquire | Is what is transcribed whole, and is every file removed? | the job and a request on one episode, files of three chunks, two recordings, one resumption, two download slots, one ASR slot, one crash; 206 864 states |
| corpus | MCCorpus | Is what a sync passes over right, does the index come to agree with what is stored, and do old texts go? | two episodes, one of them ingested late, two texts, pages of one, a query limit of two, one mishap; 320 764 states |
| llm | MCLlmClient | When is a tier reported unavailable, and does a healthy endpoint come back? | two callers, a chain of two after the cloud endpoint is left out, one validation retry, cooldown of two ticks, one outage, one rejection; 371 610 states |
| process | MCProcess | What do starts and stops leave behind, for leases, documents and overrides? | two boots, one job, two requests and two saves of the console, a queue of one, one warning; migrations in batches of one over two old episodes, two shows and three weeks of files; 570 440 states |
| narrate | MCNarrate | Can a broken file ever be played, is the newest week read, and are texts cut well? | three weeks of which two are looked at, scripts of one chunk and of two, three generations, one summary rewritten, one death; every text of up to three paragraphs of up to two sentences of lengths 1, 2, 3 and 7 against a cap of 5; 555 384 states |
| lease | JobLease | Is a run alone while it believes so, and does the lease of a dead run go? | two runs, lifetime of three heartbeats as in the code; 22 990 states |
| update | MCUpdateDoc | Is `update_doc` atomic, and are `max_retries` tries enough? | three calls, three tries, two sends a put, symmetric calls; 1.5M states |

Why the bounds are enough for what is asked:

- Starvation needs one episode in front and one behind, with room for one; the second
  crash is the one the budget of two must stop; an episode claimed twice needs two
  weeks; the owner's races need a request against one run of each job, and a second
  request to start from what the first left.
- The archive's cursor is told apart from its budget by a month with more episodes than a
  run records; the floor moves by a widened window, the anchor by a turn of the month.
- A poll must meet an entry it refuses and one that comes later, and a URL changed away
  from under it; a podcast is held back for a day after a failure, and taken up again. A
  first poll cut short leaves one of the two entries it could take. With the month
  beginning on the second day the archive records within the lookback, before, between
  and after the polls.
- An acquisition's races need one other on the same file; a resumption that continues
  another recording needs two recordings and one resumption; a file with a gap that is
  resumed once more needs three chunks, two writers and a crash; the wait for a slot
  needs one slot fewer than actors.
- A page that shifts needs one more episode than a page holds; a text expired twice
  needs a second text.
- One caller must find an endpoint cooling that another caller's failure put there, and
  an endpoint must fail late, after it was offered again.
- One job is waited for with either of the two graces, and its lease is met by the next
  boot. A second boot meets what the first left; a batch of one stops between any two
  migrations; two saves overlap, and a third would only repeat the pair.
- Narration: a digest of two chunks can die before the first, between them, and after
  the last; with three weeks and two looked at, the newest can be hidden, and not. Lengths
  below, at and over the cap, alone and joined, occur among the lengths chosen.
- A take-over, a late write and a sweep need one run that loses the lease and one that
  finds it; that more runs change nothing is not left to the bound but proved
  (section 5). Three calls are the fewest where a call is refused by two others, which
  `EnoughTries` is about.

`MCOwner`, `MCDigest`, `MCUpdateDoc`, `MCProcess` and `MCNarrate` do not check deadlock:
their counters of runs, requests, boots and calls are spent in the end. The others are
checked for deadlock too.

What the properties say:

- `CrashBudgetHolds`, `RetryBudgetHolds`: an episode kills the process at most
  `CRASH_BUDGET` times while it is acquired, and counts at most `max_retries` attempts.
- `StatusHasSubstance`: TRANSCRIBED has its attachment, SUMMARIZED and classified
  statuses a score, whatever dies in between.
- `VerdictMatchesScore`: the classification agrees with the stored score (pipeline
  alone; beside on-demand runs it does not, see section 7).
- `DrainsUnlessCutShort`: every episode leaves the active statuses, except that a crash
  or refused write between the two writes of `summarize()` may leave it at SUMMARIZED.
- `PublishedWasListed`, `CompleteMeansClaimed`, `ListedOnceWithoutFailure`: what PUBLISHED,
  a claim and `marking_complete` mean on disk.
- `NothingSteppedOver`, `WindowIsWalked`, `ShelvedOnce`, `EveryEntryShelved`: the archive's walk
  passes no month unread and gets through the window, whatever is rewound, widened or
  cut short; what it records ends in one file.
- `NothingBehindValidators`, `OfferedIsTaken`, `RoutineAloneLooksForward`: a 304 hides no
  entry that is wanted, unless its validators come of a poll under which the URL was
  changed; such an entry is taken in the end; routine polling takes nothing from before
  the lookback, as long as the archive has recorded nothing. An entry is no longer wanted
  (`PassedOver`) when a poll has left it as older than its cutoff and the cutoff is still
  newer, or was moved back by an episode of the archive since: which of those entries are
  taken after all depends on whether the feed is read in full again (section 6).
- `WholeUnlessShared`, `NoAudioLeft`, `EveryAcquisitionEnds`: what is transcribed has the
  length of a recording and no gap, unless its file had two writers or was swept and was
  not started anew since; a file that a crash left so damaged and a later acquisition by
  itself goes on with is one of these.
- `SignaturesTell`: the row of an episode that a sync passes over, since its signature is
  the document's, holds the text that is stored. `IndexCatchesUp`: what a sync makes of a
  row agrees with what a rebuild would, once texts stop changing. Both leave aside episodes
  whose document does not tell what text is held, or whose expiry was cut short (see
  `IndexMatchesTexts` in section 6). `OldTextsGo`: a text past its days goes.
- `UnavailableMeansFailed`, `HealthyIsOffered`.
- `CleanStopReleases`, `StopsInTheEnd`, `MigratedBeforeJobs`, `PendingSinceStart`: a stop
  leaves no lease but one whose release was cut off or refused, so none whose release was
  still to come when the store closed; and it ends, if the cleanups do.
- `ImplementsLedger`: no document of a digest names an episode that its file does not
  list, no episode is claimed that the document does not name, and between two claims of
  an episode somebody clears it.
- `ImplementsAudiobook`: a file that can be played holds its whole script, is never taken
  away, and is replaced by no older reading; `HourlyIsNewest`, as long as fewer weeks have
  been generated since the newest than are looked at; `TextsCutWell`: both chunkers lose,
  repeat and reorder nothing, keep within the cap, and divide no paragraph that fits.
- `LeaseSafety`, `LiveLeaseKept`, `AbandonedLeaseLapses`, `ImplementsExclusion`.
- `NoUpdateLost`, `AppliedOnceWhenAnswered`, `EnoughTries`, `ImplementsAtomic`.

## 4. Fairness

`FairPipelineSpec`: weak fairness of `Advance`, the steps the job takes by itself. The
scheduler fires the job every hour and after every restart (`scheduler.py:76-82`), and
the event loop resumes a coroutine whose await is over. Strong fairness of "some
triage answers", "some acquisition comes to an end", "some score comes back": outages
and acquisition crashes may interrupt any finite number of times, and a backend asked
for ever answers in the end. Strong, because an outage between two attempts disables
the answer each time. Nothing is assumed of which episode is answered. Acquisition
crashes need no bound: the crash budget retires each episode, which is what the
property shows.

`FairSpec` of Archive: the cron entry fires again and again, and a run in progress goes
on. The two liveness properties speak of behaviours in which, from some point on, nothing
holds the archive back (no pause, no routine work): the code gives way to both without a bound.

Ingest: a poll under way goes on, and days pass; the hourly job starts a poll as part of
`PollStep`. Failures are bounded; a feed that fails for ever is owed nothing.

Acquire: each actor's next step, each hour and the sweep (weak). The two slots are
asyncio semaphores, which wake waiters in order, hence strong fairness of an actor's
getting a slot.

Corpus: the steps of retention and sync once begun, the start of a sync, and the write of
the transcript's status after its attachment. LlmClient: time passes and a caller goes
on. Process: the stop and the log store's task go on once begun; both are timers and
tasks of the event loop. A job that was cancelled is through with its cleanup in the
end, if it is not in `Declining`: the cleanups are requests with timeouts, and nothing
under `podcast_agent/` swallows a cancellation and goes on, but the `await beat` of
`held()` (`joblock.py:217`), after which one release is left. In the run nobody declines. `FairSpec` of JobLease: time passes. No request need ever be
answered, no process need ever finish, the sweep need never run; a lease lapses all the
same.

Narrate, Lifecycle and UpdateDoc assume no fairness.

## 5. What is proved

The proof modules hold for any number of episodes, runs, calls, shows and weeks and any
budgets, from the named assumptions on the constants only, which every module declares
beside its constants and TLC evaluates in every run. What a theorem assumes beyond them
is in its statement, and is said below.

- **The pipeline alone** (`PipelineInv`, in LifecycleProofs): type correctness, both
  budgets, `StatusHasSubstance` and `VerdictMatchesScore`. None is inductive alone. The
  crash budget needs that the marker in the document is at least the number of deaths,
  that while the acquisition is in flight it is one more than the snapshot's and the
  deaths are still at most the snapshot's, and that every copy in the queue but the one
  at the head is the document itself. The retry budget needs the head's copy to have the
  document's attempts. That a status has its substance needs the attachment to exist once
  `pc` is at "saving", and the verdict needs the pending score to be the stored one while
  `pc` is at "classify".
- **Lifecycle**, the pipeline, the digest and the owner's requests interleaved in any way:
  - `PublishedWasListed` and `ClaimsBacked` (`LifeInv`): a claimed episode is in the file of
    its digest, which no run checks by itself, since the ledger implies it. Only the
    marking loop makes claims, and when it does the file and the document are already
    there: the ids of a run are listed under its week from the moment its document is
    put, and the episode it is about to claim carries no claim when the claim is written.
    Every other writer is *harmless*: it keeps or clears a claim, and publishes nothing that no file
    lists. That needs one fact about the owner: a request that will put an episode back
    to PUBLISHED found it listed.
  - `StatusHasSubstance` (`SubstanceInv`). It has to hold of three statuses: the one an
    episode has, the one recorded by its last failure, and the one a retry has computed
    and is about to write; and of the two half-done stages, the queue's and the request's,
    whose first write is already there.
  - `CompleteMeansClaimed` and `ListedOnceWithoutFailure` (`AutomaticInv`), assuming
    `Actors \subseteq Automatic`: the pipeline, the digest job and the console's digest.
    With the owner's status requests neither holds, since an escalation takes a claim off
    on purpose. Without failures an unclaimed episode is in a file only while the run
    that wrote the file is between it and the claim; and a document is found incomplete
    exactly while its marking is under way or was cut off.
  - Lifecycle implements DigestLedger (`ImplementsLedger`), with every actor and every
    failure: a document's put is the ledger's naming, since the file lists by then what
    the run collected; a write of the marking loop is a claim of what the document names
    (`InHandIsNamed`: while a run marks, its ids are the document's) or nothing; every
    other step clears claims at most.
- **Archive walk** (`WalkInv`): `NothingSteppedOver`. Said of the documents alone it is
  not inductive, since a run writes the cursor and anchor it holds in local variables
  after the owner, the calendar and the configuration have moved on. The invariant says
  of the local variables what the property says of the document: every month between
  them is done, and the run's floor lies at or below the narrowest window's. Months
  stay natural numbers because no window reaches before the first month.
- **Archive digest** (`ShelfInv`): `ShelvedOnce`. As long as nothing crashed and no write
  was refused, a listed episode is claimed or the run is about to claim it, what the run
  has still to write is in no file, and the only half-claimed month is the one in hand.
- **Ingestion**: `RoutineAloneLooksForward` (`ForwardInv`: no poll works with a cutoff
  before the lookback of the first day, as long as the archive has recorded nothing); and
  `NothingBehindValidators` (`ReadInv`), for any number of changes at the console. An entry
  that was *read* (it has an episode, is not allowed, is too old, or was passed over) stays
  so. What a poll's cutoff lies above has something newer held (`CutoffBounded`), and what
  was left under one stays passed over whatever is recorded later (`LeftBehind`): an
  episode as old can only come from the archive. What the response carries is read by the
  time its validators are stored, unless the URL was changed under the poll, and then
  `crossed` says so until a feed is read in full again.
- **Acquisition**: `NoAudioLeft` (`AudioInv`). A file on disk is one that a crash left
  to the sweep, or somebody is between its first response and the clean-up. Saying only
  that somebody works on the episode is too weak: who is still looking for a text ends
  without cleaning up. `WholeUnlessShared` (`WholeInv`): the file of an acquisition that
  has it for itself holds, without a gap, exactly the chunks the acquisition has counted,
  at every point of every round; and a file that is nobody's, such as one a crash left,
  is *sound* (no gap, no longer than a recording), so that a round that breaks before
  the headers may count what it finds there.
- **LLM client** (`ClientInv`): `UnavailableMeansFailed`. A cooldown and the time since
  its failure add up to no more than a cooldown, so what a walk leaves out had failed
  within one; and what a call has still to try, has tried and had seen fail is all of its
  chain. That no chain is empty is the validator of `LLMTierConfig`.
- **Process** (`LeaseInv`, `BannerInv`, `MigrationInv`): `CleanStopReleases`,
  `PendingSinceStart` and `MigratedBeforeJobs`. A lease of this incarnation has a job
  behind it as long as the process lives, or that job ended without giving it back; and a
  job the stop has waited for is through, in time or not. A request about to write carries the moment this process adopted, and the
  document never goes back behind it. Each document is as before the migrations or as one
  run of them leaves it; what a migration that is past has left undone is in the batch in
  hand. That a week's files are all named afterwards needs that any finite set of files
  can be listed in order, which is proved by a smallest one that could not be.
- **Chunking** (`ScriptCutsWell`, `TranscriptCutsWell`, hence `TextsCutWell`): for every
  text and every cap, what the run checks of short ones. The prover has no induction
  over sequences, and needs none: the loop is a recursive function on an interval, which
  is shown to exist, and to keep what its first value has and each turn hands on, by the
  least number at which it would fail (`Recursion`). What each turn hands on: the
  chunks put out follow one another from the text's beginning, each within the cap, and
  the chunk being filled goes on where they end. The same lemma of the loop
  (`GreedyCuts`) serves sentences into pieces and pieces into chunks, for both cutters.
- **Narration**: that Narrate implements Audiobook. A file is whole since, while a chunk is
  being spoken, the file beside holds exactly the chunks spoken (`NarrateInv`); none is
  older than the one before, since there is one narration at a time, and its summaries are
  at least as new as what can be played (`HeardInv`). And `HourlyIsNewest`: what is
  generated since the newest takes up at most the places looked at but one, so the newest
  is among them, and its period is the greatest.
- **Search index** (`CorpusInv`, in StoreProofs): `SignaturesTell`. A row is made of two
  readings, the document's and later the text's. The invariant says one thing of rows in
  the index, of rows still to be written and of documents read into a page: the
  signature is not ahead of the document, and if it is not behind either, the text is the
  document's, or somebody is between the two writes that change it. It is kept because a
  document never comes back to a signature it had, which needs that a text to be named is
  later than the one named.
- **Job lease** (in StoreProofs, as is the next): types, `LeaseSafety`, `LiveLeaseKept`,
  and that JobLease implements JobExclusion. The invariant behind them says that whatever
  is still on its way under the current revision was sent by a run that had the right to:
  an update against the current revision by its owner, or by a run that read an expired
  lease; a delete by the owner that left its block, or by the sweep for a process that is
  gone. What a run believes of its expiry never exceeds what is stored under its name.
- **`update_doc`**: types, `NoUpdateLost`, `AppliedOnceWhenAnswered`, and that UpdateDoc
  implements AtomicUpdate. The invariant says that a copy that can still land, in hand
  or late, is the present document with exactly its own call's change added.
  `EnoughTries` (`RefusedByOthers`), for any finite set of calls: with every put
  answered, the revision counts the calls that returned, and a call has been refused no
  oftener than the revision its copy carries, so the last try of a call comes after all
  others have returned.

The types of pipeline, lease, update and narration are theorems; no run repeats them.
Every invariant above was checked with TLC on the bounds of its run before it was proved.

Every invariant, every property of steps and every refinement that a run checks is a
theorem. Only model-checked is liveness under fairness, which the prover does not do:
`DrainsUnlessCutShort`, `AbandonedLeaseLapses`, `EveryEntryShelved`, `WindowIsWalked`,
`OfferedIsTaken`, `EveryAcquisitionEnds`, `IndexCatchesUp`, `OldTextsGo`,
`HealthyIsOffered`, `StopsInTheEnd`.

## 6. Where code and comments disagree

Each line quotes a sentence of the repository and names a property that states it. No
configuration checks these properties, since the code does not keep them: add the
property to the configuration named, with the bounds given where they differ (an
INVARIANT, or a PROPERTY when it speaks of steps or behaviours), and TLC prints a
behaviour. (Two properties are checked by a run as well, with the other bounds:
`OldTextsGo` and `StopsInTheEnd`.) Where a run checks a property of the same
subject, that property is the part of the promise that does hold.

| Property | Where it fails | Sentence | What happens |
|---|---|---|---|
| `EveryEpisodeDrains` | MCPipeline.cfg | `tier1.py:62-64` "in one write"; `runner.py:59` "drains on its own" | two writes; cut between them, the episode stays SUMMARIZED, which no stage selects |
| `ListedOnce` | MCDigest.cfg, Episodes {e1}, no requests, actors pipeline and digest | `generate.py:4-8` "instead of producing a duplicate" | file first, document second: a crash in between leaves the file unknown and the episodes are listed again |
| `ReadyIsCollectable` | MCDigest.cfg, Episodes {e1}, Digests {1}, no mishaps, one request, actors pipeline, digest and demand | `runner.py:624` "a queue entry that can never drain" | an episode claimed as an audit row, summarised on demand, is READY_FOR_DIGEST with its claim on |
| `PublishedStays` | the same with two runs | `state.py:99` "nothing automatic moves a published episode" | a pipeline run takes an episode of its old queue snapshot, published meanwhile, back into the queue |
| `RefusedMeansTaken` | JobLease, Runs {r1} | `joblock.py:185` "another process now holds the lease" | a renewal landed unheard and its repeat was refused; the lease is still the run's, and nobody renews it |
| `AppliedOnce` | MCUpdateDoc, Calls {c1} | `couch.py:92-94` "rather than applying twice" | the repeat's 409 makes `update_doc` start over and apply its change a second time |
| `ClaimedIsListed` | MCArchive | `archive.py:140-143` "the next run finishes the claiming" | reconciling a month claims what this run collected, not what the file lists: an episode that came in since is claimed and in no file |
| `WalkedMonthsAreRecorded` | MCArchive | `ingest.py:3-5` "bounded, resumable and stoppable" | a month ends at the budget and the cursor moves past it all the same: the month's rest is never recorded unless rewound |
| `RewoundStartsOver` | MCArchive, Window 2, no mishaps | `control.py:103` "so the window is walked again" | a rewind during a walk is overwritten by the cursor the walk holds |
| `RoutineLooksForward` | MCIngest, `moved` dated 1 in MCDate | `feeds.py:262-273` "routine polling only ever looks forward" | the cutoff is the oldest episode held, the archive's included: routine polling goes back as far as the archive did |
| `YoungIsTaken` | MCIngest | `feeds.py:264-265` the lookback of a fresh show | a first poll cut short sets the cutoff to the one episode it left, and an archive run before the first poll to the oldest it recorded of the month before; older ones within the lookback are never taken |
| `NothingBehindRecordedUrl` | MCIngest, MaxRequests 2 | `feeds.py:133-134` "read in full rather than 304'd against the old validators" | a URL changed away and back during a poll leaves the other feed's validators in place |
| `WholeRecordingHeard` | MCAcquire | `retention.py:193`, `net.py:450-451`, `net.py:57-60` | the sweep takes a file still waiting for its slot; two acquisitions share a file; a resumption splices two recordings; what a crash left, older or torn, is taken for the beginning |
| `OldTextsGo` | MCCorpus, Limit 1 | `retention.py:85` "Only episodes that still hold a transcript" | expired episodes fill the query, and no text behind them goes |
| `IndexMatchesTexts` | MCCorpus | `search.py:201` "keeps the index honest" | a text transcribed anew after an expiry is left out; an expiry cut short leaves a row whose text is gone |
| `FreshTextsKept` | MCCorpus | `retention.py:3` past their days | a candidate transcribed anew before its turn loses the new text |
| `OneRowEach` | MCCorpus | `search.py:165` "Safe to run at any time" | an episode ingested between two pages gives another two rows |
| `UnavailableMeansTried` | MCLlmClient | `client.py:190-193` "never turn 'slow' into 'unavailable'" | with one endpoint cooling and the other failing, the first is not asked |
| `PendingIsHonest` | MCProcess, MaxSaves 3, MaxBoots 3, one request | `settings_store.py:249` "booted with the current overrides" | overrides dropped as invalid are recorded as applied |
| `SavedBoots` | MCProcess, MaxSaves 3 | `api/settings.py:198-201` "rejected here instead" | a save is judged over the running configuration, the restart merges over the file |
| `WarningsLand` | MCProcess | `main.py:310-311` "still lands" | one last batch, then the background tasks are cancelled: what they log is lost |
| `ReclaimedAtStart` | MCProcess, PidsReused TRUE | `joblock.py:237-242` dead processes' leases dropped | a pid another process has by now keeps the lease |
| `RepairedWalksStop` | MCProcess, MCWindow giving 3, Months 2 | `migrate.py:152-153` "its floor lands exactly on the month" | the repair counts with the configured window, the walk with the show's own |
| `EveryFileNamed` | MCProcess | `migrate.py:76` "in no document" | a week without a document is not looked at |
| `StopsInTheEnd` | MCProcess, Declining {"backfill"} | `main.py:324-325` "must not be able to hold the whole shutdown open" | the timeout cancels a gather, which ends only with its last task: a job that declines is waited for |
| `AudioSaysTheFile` | MCNarrate | `narrate.py:222-225` "so the audio says what the file says" | the summaries are those of today |
| `NarrationIsFinished` | MCNarrate | `narrate.py:3-5` "the note gets an embed" | a death between the rename and the embed: the audio is there, and nothing else is ever done |
| `HourlyNeverWorksBackwards` | MCNarrate | `narrate.py:200-202` "the walk backwards this job must never do" | as many older weeks generated again as are scanned hide the newest |

Five more, read in the code or met in a proof, that no property states:

- A poll leaves entries as older than its cutoff, which is the date of an episode the
  archive recorded first, or the one a first poll cut short had left; an older episode of
  the archive then moves the cutoff back over them (`feeds.py:278-286`), but the
  validators stored meanwhile let the publisher answer 304: they are taken, some or all,
  only if the feed is sent in full again. `PassedOver` counts them as given up, like
  those of `YoungIsTaken`.
- A month of the archive that gains an episode after it was written gets a second file
  (`-r2`) with the newcomer alone, and its document then speaks of that file only.
- `RateLimitError`, `BadRequestError` and `ContextWindowExceededError` cool an endpoint
  that is healthy (`client.py:83-93`, `301-304`).
- A digest document written before `runs` existed loses its earlier file from the list
  when its week is generated again, until the next start adopts the file without the ids
  of its episodes (`generate.py:289-291`).
- Two overlapping saves of the console: each merges its change into the overrides it read
  (`api/settings.py:203`), and the later put is on the revision the earlier one left
  (`settings_store.py:230`): its change is lost, though both were told it is saved.

## 7. What the models leave out

- A document write by `transition()` or `mark_error()` is one atomic step applied once.
  UpdateDoc justifies this but for a lost reply (`AppliedOnce`), which can count an
  attempt twice; that is not fed back into the pipeline. A transition that is illegal and
  the handler's `mark_error` after it are one step.
- One on-demand run per episode: the check of `summarize_episode` is separated from its
  entry by awaits, so two could start. Acquire is where two runs on one episode meet.
  The retry button is a read and a write; escalate is one step, since nothing it read
  decides what it writes.
- Beside on-demand runs and re-scoring, `VerdictMatchesScore` does not hold for the
  moment between two writers' writes; `owner` checks the properties that do.
- Digests: the content of the file, beyond which episodes it lists, is left out, so that
  the score a file states may differ from the database's after a re-score is not
  expressed. Dry runs change nothing and are left out. Period boundaries are whole
  weeks; undated episodes are left out; so is the limit of 50 revisions of one file and
  the limits of 500 or 1000 documents of most `find()` calls.
- Lease: clocks of hosts agree; reused pids are in Process (`PidsReused`), not in
  JobLease; the sweep is shown as done from the owner's host, since elsewhere it does
  nothing.
- The transport between client and store may lose a reply or delay a write, never
  reorder within one call: the client sends the next request after the last one's fate
  is known to it or given up. The in-memory store, for tests, is not modelled.
- Retention: expiry of telemetry and log documents is left out; so is the batch that is
  refused as a whole and asked for again (a hazard of `PROJECT.json`).
- Narration: what the record says in the digest's document is left out, and a note that
  the reader has moved, or that has no heading to put the embed under, counts as done.
- The archive's processing calls the pipeline's stages; their work on one episode is one
  step with the outcomes Pipeline shows, without Pipeline's crash inside a stage.
- Models, feeds, web pages and the speech server are arbitrary answers out of the outcomes
  the code tells apart. Rendering, prompts, parsing of feeds and transcripts and the
  content of the summaries are text.
- Not modelled at all: the in-memory store; digest synthesis and export, which compute
  text; notifications, which write nothing back; the backfill estimate, which reads only.
  Of signals, feedback, entities, insights and cadence only what touches the search index
  is; of the URL guard, configuration and the console pages what decides a state change.

## 8. Plan

1. Abstract specifications and refinements: the archive as "each month once per rewind",
   the corpus as a set of texts with a view, the override document as a register.
2. The pipeline over lost replies: counters applied twice, a second on-demand run;
   which budgets still hold.
3. The expiry of telemetry; on-demand requests with a promise per request.
