------------------------------ MODULE LogStore ------------------------------
(***************************************************************************)
(* The durable record of warnings (podcast_agent/logstore.py): a bounded   *)
(* queue, the background task that drains it in batches, and the stop that *)
(* cancels the task and flushes once more.  Events are counted, not told   *)
(* apart; the identical events of a batch are one document.                *)
(***************************************************************************)
EXTENDS FiniteSetsExt, Integers

CONSTANTS
    QUEUE_LIMIT,
    DRAIN_BATCH,
    MaxEvents       \* bound of the model

ASSUME LogStoreAssumption ==
    /\ {QUEUE_LIMIT, DRAIN_BATCH} \subseteq Nat \ {0}
    /\ MaxEvents \in Nat

VARIABLES
    queued,     \* length of the queue
    flushing,   \* documents of the batch in hand not written yet
    drain,      \* the background task: off, on, or stopping once its last flush is through
    cut,        \* events in a batch that a cancelled flush gave up
    offered     \* events offered so far

logs_vars == <<queued, flushing, drain, cut, offered>>

LogStoreTypeOK ==
    /\ queued \in 0..QUEUE_LIMIT
    /\ flushing \in 0..DRAIN_BATCH
    /\ drain \in {"off", "on", "last", "stopped"}
    /\ cut \in 0..DRAIN_BATCH
    /\ offered \in 0..MaxEvents

LogStoreInit ==
    /\ queued = 0 /\ flushing = 0 /\ drain = "off" /\ cut = 0 /\ offered = 0

\* A warning: the oldest gives way when the queue is full.
Offer ==
    /\ offered < MaxEvents
    /\ offered' = offered + 1
    /\ queued' = Min({QUEUE_LIMIT, queued + 1})
    /\ UNCHANGED <<flushing, drain, cut>>

LogsStart ==
    /\ drain' = "on" /\ queued' = 0 /\ flushing' = 0 /\ cut' = 0
    /\ UNCHANGED offered

\* A batch leaves the queue, folded into at least one document.
TakeBatch ==
    LET batch == Min({DRAIN_BATCH, queued})
    IN  /\ queued' = queued - batch
        /\ flushing' \in IF batch = 0 THEN {0} ELSE 1..batch

DrainTakes ==
    /\ drain = "on" /\ flushing = 0 /\ queued > 0
    /\ TakeBatch
    /\ UNCHANGED <<drain, cut, offered>>

\* One document is written, or its failure swallowed.
Writes ==
    /\ flushing > 0
    /\ flushing' = flushing - 1
    /\ UNCHANGED <<queued, drain, cut, offered>>

\* Mutant: the drain swallows its cancellation and loops on.
LogsStop_LoopsOn == drain = "on" /\ UNCHANGED logs_vars

\* stop(): the task is cancelled, in the middle of a batch if need be, and one flush follows.
LogsStop ==
    /\ drain = "on"
    /\ drain' = "last"
    /\ cut' = flushing
    /\ TakeBatch
    /\ UNCHANGED offered

LogsStopped ==
    /\ drain = "last" /\ flushing = 0
    /\ drain' = "stopped"
    /\ UNCHANGED <<queued, flushing, cut, offered>>
=============================================================================
