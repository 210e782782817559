------------------------------ MODULE Process -------------------------------
(***************************************************************************)
(* The life of the service's process (podcast_agent/main.py, scheduler.py):*)
(* the steps of its start, the jobs that the scheduler and the console run *)
(* under a lease of the database, the orderly stop, and a death anywhere.  *)
(* A boot is one incarnation of the process; the lease protocol itself is  *)
(* JobLease's, here a lease is taken and given back in one step.           *)
(***************************************************************************)
EXTENDS FiniteSets, Overrides, LogStore, Migrations

CONSTANTS
    Jobs,           \* names of jobs; one lease each
    Declining,      \* jobs that may never be through with their cleanup
    PidsReused,     \* a new process of this host may have its predecessor's pid
    MaxBoots        \* bound of the model

ASSUME ProcessAssumption ==
    Declining \subseteq Jobs /\ PidsReused \in BOOLEAN /\ MaxBoots \in Nat \ {0}

VARIABLES
    phase,      \* where lifespan() is
    boot,       \* the incarnation, 0 before the first
    store,      \* the store's connection is open
    job,        \* job[j]: idle, running, or in its cleanup
    kind,       \* kind[j]: run by the scheduler, or spawned by a request
    lease,      \* lease[j]: the incarnation that holds control:lock:j, 0 without one
    late,       \* the grace of this wait ran out on a job's cleanup
    unclean     \* jobs of this incarnation that ended and did not give their lease back

process_vars == <<phase, boot, store, job, kind, lease, late, unclean>>
vars == <<process_vars, overrides_vars, logs_vars, migration_vars>>

Phases == {"down", "migrate", "reclaim", "overrides", "mark", "up", "stopping", "draining", "flushing",
           "cancelling", "closing", "closed"}

ProcessTypeOK ==
    /\ OverridesTypeOK /\ LogStoreTypeOK /\ MigrationsTypeOK
    /\ phase \in Phases
    /\ boot \in 0..MaxBoots
    /\ store \in BOOLEAN
    /\ job \in [Jobs -> {"idle", "running", "cleanup"}]
    /\ kind \in [Jobs -> {"scheduled", "spawned"}]
    /\ lease \in [Jobs -> 0..MaxBoots]
    /\ late \in BOOLEAN
    /\ unclean \in SUBSET Jobs

Init ==
    /\ OverridesInit /\ LogStoreInit /\ MigrationsInit
    /\ phase = "down" /\ boot = 0 /\ store = FALSE
    /\ job = [j \in Jobs |-> "idle"]
    /\ kind = [j \in Jobs |-> "scheduled"]
    /\ lease = [j \in Jobs |-> 0]
    /\ late = FALSE /\ unclean = {}

Alive == phase \notin {"down", "closed"}

Busy(k) == {j \in Jobs : job[j] # "idle" /\ kind[j] = k}

Goes(from, to) == phase = from /\ phase' = to

-----------------------------------------------------------------------------
(* Start                                                                   *)

\* ensure_setup and the log store.
Boots ==
    /\ phase \in {"down", "closed"} /\ boot < MaxBoots
    /\ phase' = "migrate"
    /\ boot' = boot + 1 /\ store' = TRUE /\ unclean' = {}
    /\ LogsStart /\ MigrationsBegin
    /\ UNCHANGED <<job, kind, lease, late, overrides_vars, origin, walks, digests>>

run_migrations ==
    \/ /\ phase = "migrate" /\ MigrationStep
       /\ UNCHANGED <<process_vars, overrides_vars, logs_vars>>
    \/ /\ Goes("migrate", "reclaim") /\ MigrationsOver
       /\ UNCHANGED <<boot, store, job, kind, lease, late, unclean, overrides_vars, logs_vars>>

\* A lease of this host whose pid is gone.
Reclaimable(j) == lease[j] # 0 /\ lease[j] # boot /\ ~PidsReused

reclaim_local_leases ==
    /\ Goes("reclaim", "overrides")
    /\ lease' = [j \in Jobs |-> IF Reclaimable(j) THEN 0 ELSE lease[j]]
    /\ UNCHANGED <<boot, store, job, kind, late, unclean, overrides_vars, logs_vars,
                   migration_vars>>

LoadsSettings ==
    /\ Goes("overrides", "mark")
    /\ get_overrides
    /\ UNCHANGED <<boot, store, job, kind, lease, late, unclean, logs_vars, migration_vars>>

\* The rest of the start follows: clients, registry, runner, scheduler.
MarksApplied ==
    /\ Goes("mark", "up")
    /\ mark_applied
    /\ UNCHANGED <<boot, store, job, kind, lease, late, unclean, logs_vars, migration_vars>>

-----------------------------------------------------------------------------
(* Jobs                                                                    *)

\* _exclusive: a job that runs, here or elsewhere, is not run twice.
JobStarts(j) ==
    /\ phase = "up" /\ job[j] = "idle" /\ lease[j] = 0
    /\ \E k \in {"scheduled", "spawned"} : kind' = [kind EXCEPT ![j] = k]
    /\ job' = [job EXCEPT ![j] = "running"]
    /\ lease' = [lease EXCEPT ![j] = boot]
    /\ unclean' = unclean \ {j}
    /\ UNCHANGED <<phase, boot, store, late, overrides_vars, logs_vars, migration_vars>>

JobEnds(j) ==
    /\ job[j] = "running"
    /\ job' = [job EXCEPT ![j] = "cleanup"]
    /\ UNCHANGED <<phase, boot, store, kind, lease, late, unclean, overrides_vars, logs_vars,
                   migration_vars>>

\* The jobs in ended are over.
Over(ended) ==
    /\ job' = [j \in Jobs |-> IF j \in ended THEN "idle" ELSE job[j]]
    /\ kind' = [j \in Jobs |-> IF j \in ended THEN "scheduled" ELSE kind[j]]

\* The finally of held(): a write, whose refusal release() swallows; a closed store refuses it.
JobReleases(j) ==
    /\ job[j] = "cleanup"
    /\ Over({j})
    /\ \/ store /\ lease[j] = boot /\ lease' = [lease EXCEPT ![j] = 0] /\ UNCHANGED unclean
       \/ unclean' = unclean \cup {j} /\ UNCHANGED lease
    /\ UNCHANGED <<phase, boot, store, late, overrides_vars, logs_vars, migration_vars>>

\* A lease nobody renews any more runs out.
LeaseExpires(j) ==
    /\ lease[j] # 0 /\ (lease[j] # boot \/ ~Alive \/ job[j] = "idle")
    /\ lease' = [lease EXCEPT ![j] = 0]
    /\ UNCHANGED <<phase, boot, store, job, kind, late, unclean, overrides_vars, logs_vars,
                   migration_vars>>

-----------------------------------------------------------------------------
(* Stop                                                                    *)

Cancelled(k) == [j \in Jobs |-> IF j \in Busy(k) THEN "cleanup" ELSE job[j]]

\* The signal; uvicorn ends the requests before lifespan() goes on.
StopBegins ==
    /\ Goes("up", "stopping")
    /\ request' = [r \in Requests |-> NoRequest]
    /\ UNCHANGED <<boot, store, job, kind, lease, late, unclean, logs_vars, stored, running,
                   adopted, migration_vars>>

\* mark_shutting_down, scheduler.shutdown(wait=False).
SchedulerStops ==
    /\ Goes("stopping", "draining")
    /\ job' = Cancelled("scheduled")
    /\ UNCHANGED <<boot, store, kind, lease, late, unclean, overrides_vars, logs_vars,
                   migration_vars>>

\* Mutant: the stop goes on as soon as the jobs are cancelled.
Waits_NotFor(k) == late' = FALSE

\* gather(return_exceptions=True): until all are over, the end of the grace notwithstanding.
Waits(k) == Busy(k) = {} /\ late' = FALSE

\* asyncio.timeout() cancels the gather and with it the jobs, a second time: it cuts off the
\* release of some, and of others (in the await of their heartbeat, say) it does not.
GraceEnds(k) ==
    /\ ~late /\ Busy(k) # {}
    /\ late' = TRUE
    /\ \E ended \in SUBSET Busy(k) : Over(ended) /\ unclean' = unclean \cup ended
    /\ UNCHANGED <<phase, boot, store, lease, overrides_vars, logs_vars, migration_vars>>

drain_jobs ==
    \/ phase = "draining" /\ GraceEnds("scheduled")
    \/ /\ Goes("draining", "flushing")
       /\ Waits("scheduled")
       /\ LogsStop
       /\ UNCHANGED <<boot, store, job, kind, lease, unclean, overrides_vars, migration_vars>>

\* Background tasks are cancelled once the log store has stopped.
TasksCancelled ==
    /\ Goes("flushing", "cancelling")
    /\ LogsStopped
    /\ job' = Cancelled("spawned")
    /\ UNCHANGED <<boot, store, kind, lease, late, unclean, overrides_vars, migration_vars>>

TasksGathered ==
    \/ phase = "cancelling" /\ GraceEnds("spawned")
    \/ /\ Goes("cancelling", "closing")
       /\ Waits("spawned")
       /\ UNCHANGED <<boot, store, job, kind, lease, unclean, overrides_vars, logs_vars,
                      migration_vars>>

\* The tasks go with their process.
NoJob ==
    /\ job' = [j \in Jobs |-> "idle"]
    /\ kind' = [j \in Jobs |-> "scheduled"]

StoreCloses ==
    /\ Goes("closing", "closed")
    /\ store' = FALSE
    /\ NoJob
    /\ UNCHANGED <<boot, lease, late, unclean, overrides_vars, logs_vars, migration_vars>>

-----------------------------------------------------------------------------
(* Death, and the rest of the process                                      *)

\* Nothing is unwound.
Dies ==
    /\ Alive
    /\ phase' = "down" /\ store' = FALSE
    /\ NoJob /\ late' = FALSE /\ unclean' = {}
    /\ request' = [r \in Requests |-> NoRequest]
    /\ migrating' = NotMigrating
    /\ drain' = "off" /\ queued' = 0 /\ flushing' = 0 /\ cut' = 0
    /\ UNCHANGED <<boot, lease, stored, running, adopted, offered, origin, walks, digests>>

Warns == Alive /\ Offer /\ UNCHANGED <<process_vars, overrides_vars, migration_vars>>

Logs == (DrainTakes \/ Writes) /\ UNCHANGED <<process_vars, overrides_vars, migration_vars>>

Owner ==
    /\ phase = "up"
    /\ \E r \in Requests : Console(r)
    /\ UNCHANGED <<process_vars, logs_vars, migration_vars>>

Stop == SchedulerStops \/ drain_jobs \/ TasksCancelled \/ TasksGathered \/ StoreCloses

Next ==
    \/ Boots \/ run_migrations \/ reclaim_local_leases \/ LoadsSettings \/ MarksApplied
    \/ StopBegins \/ Stop \/ Dies \/ Warns \/ Logs \/ Owner
    \/ \E j \in Jobs : JobStarts(j) \/ JobEnds(j) \/ JobReleases(j) \/ LeaseExpires(j)

\* Writes end, by their timeouts, and so do the cleanups that are made of them, but those of
\* Declining; nothing else is promised to end.
Fairness ==
    /\ WF_vars(Stop) /\ WF_vars(Logs)
    /\ \A j \in Jobs \ Declining : WF_vars(JobReleases(j))

Spec == Init /\ [][Next]_vars /\ Fairness

-----------------------------------------------------------------------------
(* Properties                                                              *)

\* A stop leaves the lease of a job behind, which locks it out until the TTL, only when the
\* release was cut off by the end of the grace or refused by an open store: none is still
\* to come when the store closes.
CleanStopReleases ==
    phase = "closed" => \A j \in Jobs : lease[j] = boot => j \in unclean

\* The banner "waiting for a restart" is shown exactly while the document is not the one this
\* process read when it started, through overlapping saves, conflicts and restarts.
PendingSinceStart ==
    phase = "up" => (pending_restart <=> stored.updated_at # adopted)

\* A stop ends, with jobs in any state, a batch of warnings half written and graces that run
\* out, if every cleanup does.  "A task that declines to stop must not be able to hold the
\* whole shutdown open" (main.py:324-325) would be the same with jobs in Declining, and is
\* not so: after the grace the gather is waited for as before.
StopsInTheEnd == phase = "stopping" ~> phase \in {"closed", "down"}

\* No job runs over documents the migrations were to complete (main.py:120-122: "migrating
\* while the pipeline ran would hide work"), starts that died among them notwithstanding.
MigratedBeforeJobs == (\E j \in Jobs : job[j] = "running") => Migrated

\* What the console says and the code does not keep: when no restart is pending, the stored
\* overrides are what runs.
PendingIsHonest ==
    phase = "up" /\ ~pending_restart => running = deep_merge(File, stored.overrides)

\* What the docstring of write_settings says: a change that would refuse to boot is refused.
SavedBoots == Valid(deep_merge(File, stored.overrides))

\* What a comment of lifespan() says: what is queued during shutdown still lands.
WarningsLand == phase = "closed" => queued = 0 /\ cut = 0

\* What the docstring of anchor_backfill_walks says and the code does not keep for a show
\* with a window of its own: the walk is anchored with the file's.
RepairedWalksStop == phase = "up" => ResumesAtCursor

\* What the docstring of adopt_orphaned_digest_files says: a file of a week that has no
\* document is adopted by none.
EveryFileNamed == phase = "up" => FilesAreAdopted

\* What reclaim_local_leases is for, whatever the pids.
ReclaimedAtStart == phase = "up" => \A j \in Jobs : lease[j] \in {0, boot}
=============================================================================
