------------------------------ MODULE JobLease ------------------------------
(***************************************************************************)
(* The lease a job holds in the database while it runs                     *)
(* (podcast_agent/joblock.py).  Every request is split at its awaits: what *)
(* was read may be old when the write arrives, the store then refuses it,  *)
(* and a write may land without its sender being told.                     *)
(*                                                                         *)
(* Time is counted in heartbeat intervals.  An expiry is kept as what      *)
(* remains of it; all hosts read the same clock.  A revision is kept as    *)
(* the set of readers for whom the document is still the one they read.    *)
(***************************************************************************)
EXTENDS Naturals

CONSTANTS
    Runs,       \* runs of the job, each with a lease object (an owner) of its own
    NoRun,
    TTL         \* _RENEWALS_PER_TTL: the lifetime of a lease, in heartbeats

ASSUME LeaseAssumption == NoRun \notin Runs /\ TTL \in Nat \ {0}

VARIABLES
    lease,      \* the lock document: its owner, NoRun if there is none, and
                \* what remains until it expires
    main,       \* main[r]: where the block under held() is
    beat,       \* beat[r]: its heartbeat task
    put,        \* put[r]: the insert or the update r has on the way to the store
    stamp,      \* stamp[r]: what remains of the expiry written in it
    current,    \* runs whose update on the way is against the current revision
    deleting,   \* runs whose delete on the way is against the current revision
    reclaiming, \* the start-up sweep has a delete against the current revision
    gone,       \* runs whose process no longer exists
    valid       \* valid[r]: what remains of the last expiry r knows to be stored

vars == <<lease, main, beat, put, stamp, current, deleting, reclaiming, gone, valid>>

TypeOK ==
    /\ lease \in [owner : Runs \cup {NoRun}, left : 0..TTL]
    /\ main \in [Runs -> {"idle", "acquire", "running", "release", "delete", "done"}]
    /\ beat \in [Runs -> {"off", "asleep", "due", "put", "lost"}]
    /\ put \in [Runs -> {"none", "create", "update"}]
    /\ stamp \in [Runs -> 0..TTL]
    /\ current \in SUBSET Runs
    /\ deleting \in SUBSET Runs
    /\ reclaiming \in BOOLEAN
    /\ gone \in SUBSET Runs
    /\ valid \in [Runs -> 0..TTL]

NoLease == [owner |-> NoRun, left |-> 0]

Init ==
    /\ lease = NoLease
    /\ main = [r \in Runs |-> "idle"]
    /\ beat = [r \in Runs |-> "off"]
    /\ put = [r \in Runs |-> "none"]
    /\ stamp = [r \in Runs |-> 0]
    /\ current = {} /\ deleting = {} /\ reclaiming = FALSE
    /\ gone = {}
    /\ valid = [r \in Runs |-> 0]

-----------------------------------------------------------------------------
(* The document                                                            *)

Free == lease.owner = NoRun

\* A write of the document makes every revision read before it old.
Store(l) ==
    /\ lease' = l
    /\ current' = {} /\ deleting' = {} /\ reclaiming' = FALSE

\* Mutant: an update is taken whatever revision it carries.
Takes_AnyRevision(r) ==
    \/ put[r] = "create" /\ Free
    \/ put[r] = "update"

\* The store takes an insert when there is no document, an update when it carries
\* the current revision.
Takes(r) ==
    \/ put[r] = "create" /\ Free
    \/ put[r] = "update" /\ r \in current

Land(r) == Takes(r) /\ Store([owner |-> r, left |-> stamp[r]])

\* r sends the document with a new expiry on it.
Send(r, kind) ==
    /\ put' = [put EXCEPT ![r] = kind]
    /\ stamp' = [stamp EXCEPT ![r] = TTL]
    /\ current' = IF kind = "update" THEN current \cup {r} ELSE current

Answered(r) == put' = [put EXCEPT ![r] = "none"]
Goto(r, at) == main' = [main EXCEPT ![r] = at]
BeatGoes(r, at) == beat' = [beat EXCEPT ![r] = at]

-----------------------------------------------------------------------------
(* acquire(), then the block                                               *)

AcquireRead(r) ==
    /\ main[r] = "idle"
    /\ \/ Free /\ Send(r, "create") /\ Goto(r, "acquire")
       \/ ~Free /\ lease.left = 0 /\ Send(r, "update") /\ Goto(r, "acquire")
       \/ Goto(r, "done") /\ UNCHANGED <<put, stamp, current>>  \* busy, or no answer
    /\ UNCHANGED <<lease, beat, deleting, reclaiming, gone, valid>>

\* The block is entered and the heartbeat started.
Acquired(r) ==
    /\ main[r] = "acquire"
    /\ Land(r)
    /\ Answered(r)
    /\ Goto(r, "running")
    /\ BeatGoes(r, "asleep")
    /\ valid' = [valid EXCEPT ![r] = stamp[r]]
    /\ UNCHANGED <<stamp, gone>>

\* The write landed but the answer was lost: the client's own retry meets a conflict,
\* which acquire() takes for a refusal (or it runs out of retries).
AcquireUnheard(r) ==
    /\ main[r] = "acquire"
    /\ Land(r)
    /\ Answered(r)
    /\ Goto(r, "done")
    /\ UNCHANGED <<beat, stamp, gone, valid>>

\* Somebody was first, or the request failed.
NotAcquired(r) ==
    /\ main[r] = "acquire"
    /\ Answered(r)
    /\ Goto(r, "done")
    /\ current' = current \ {r}
    /\ UNCHANGED <<lease, beat, stamp, deleting, reclaiming, gone, valid>>

-----------------------------------------------------------------------------
(* _heartbeat() and renew()                                                *)

RenewRead(r) ==
    /\ beat[r] = "due"
    /\ IF lease.owner = r
       THEN Send(r, "update") /\ BeatGoes(r, "put")
       ELSE BeatGoes(r, "lost") /\ UNCHANGED <<put, stamp, current>>
    /\ UNCHANGED <<lease, main, deleting, reclaiming, gone, valid>>

Renewed(r) ==
    /\ beat[r] = "put"
    /\ Land(r)
    /\ Answered(r)
    /\ BeatGoes(r, "asleep")
    /\ valid' = [valid EXCEPT ![r] = stamp[r]]
    /\ UNCHANGED <<main, stamp, gone>>

\* Landed, answer lost: the retry's conflict ends the heartbeat, an exception after
\* the last retry leaves it going.
RenewUnheard(r) ==
    /\ beat[r] = "put"
    /\ Land(r)
    /\ Answered(r)
    /\ BeatGoes(r, "lost") \/ BeatGoes(r, "asleep")
    /\ UNCHANGED <<main, stamp, gone, valid>>

\* Not landed: a conflict is a refusal, anything else is a missed beat.
NotRenewed(r) ==
    /\ beat[r] = "put"
    /\ Answered(r)
    /\ BeatGoes(r, "asleep") \/ (~Takes(r) /\ BeatGoes(r, "lost"))
    /\ current' = current \ {r}
    /\ UNCHANGED <<lease, main, stamp, deleting, reclaiming, gone, valid>>

\* No answer to the read: a missed beat.
BeatMissed(r) ==
    /\ beat[r] = "due"
    /\ BeatGoes(r, "asleep")
    /\ UNCHANGED <<lease, main, put, stamp, current, deleting, reclaiming, gone, valid>>

-----------------------------------------------------------------------------
(* The end of the block: the heartbeat is cancelled, then release()        *)

\* Mutant: the heartbeat is left running.
Cancel_Forgotten(r) == UNCHANGED <<beat, put, current>>

\* A cancelled request may still be on its way to the store.
Cancel(r) ==
    /\ BeatGoes(r, "off")
    /\ UNCHANGED <<put, current>> \/ (Answered(r) /\ current' = current \ {r})

BodyEnds(r) ==
    /\ main[r] = "running"
    /\ Cancel(r)
    /\ Goto(r, "release")
    /\ UNCHANGED <<lease, stamp, deleting, reclaiming, gone, valid>>

\* Mutant: whoever owns it, the lease is deleted.
ReleaseRead_Unowned(r) ==
    /\ main[r] = "release"
    /\ Goto(r, "delete")
    /\ deleting' = deleting \cup {r}
    /\ UNCHANGED <<lease, beat, put, stamp, current, reclaiming, gone, valid>>

\* Only a lease that is still ours is deleted.
ReleaseRead(r) ==
    /\ main[r] = "release"
    /\ \/ lease.owner = r /\ Goto(r, "delete") /\ deleting' = deleting \cup {r}
       \/ Goto(r, "done") /\ UNCHANGED deleting     \* taken over, or no answer
    /\ UNCHANGED <<lease, beat, put, stamp, current, reclaiming, gone, valid>>

Released(r) ==
    /\ main[r] = "delete" /\ r \in deleting
    /\ Store(NoLease)
    /\ Goto(r, "done")
    /\ UNCHANGED <<beat, put, stamp, gone, valid>>

\* A conflict or an exception: the document is left to expire.
NotReleased(r) ==
    /\ main[r] = "delete"
    /\ Goto(r, "done")
    /\ deleting' = deleting \ {r}
    /\ UNCHANGED <<lease, beat, put, stamp, current, reclaiming, gone, valid>>

-----------------------------------------------------------------------------
(* Around the run                                                          *)

\* The process is killed, or exits after its run.
ProcessEnds(r) ==
    /\ main[r] # "idle" /\ r \notin gone
    /\ gone' = gone \cup {r}
    /\ Goto(r, "done")
    /\ Cancel(r)
    /\ deleting' = deleting \ {r}
    /\ UNCHANGED <<lease, stamp, reclaiming, valid>>

\* A write nobody waits for any more arrives, or does not.
Orphaned(r) == put[r] # "none" /\ main[r] # "acquire" /\ beat[r] # "put"

LateLands(r) ==
    /\ Orphaned(r)
    /\ Land(r)
    /\ Answered(r)
    /\ UNCHANGED <<main, beat, stamp, gone, valid>>

LateLost(r) ==
    /\ Orphaned(r)
    /\ Answered(r)
    /\ current' = current \ {r}
    /\ UNCHANGED <<lease, main, beat, stamp, deleting, reclaiming, gone, valid>>

\* Mutant: the process is not looked for.
ReclaimRead_AnyPid ==
    /\ ~Free
    /\ reclaiming' = TRUE
    /\ UNCHANGED <<lease, main, beat, put, stamp, current, deleting, gone, valid>>

\* reclaim_local_leases() at the start of a process on the owner's host: only the
\* lease of a process that is gone, and only as it was read.
ReclaimRead ==
    /\ lease.owner \in gone
    /\ reclaiming' = TRUE
    /\ UNCHANGED <<lease, main, beat, put, stamp, current, deleting, gone, valid>>

Reclaim ==
    /\ reclaiming
    /\ Store(NoLease)
    /\ UNCHANGED <<main, beat, put, stamp, gone, valid>>

Less(n) == IF n = 0 THEN 0 ELSE n - 1

\* One heartbeat interval passes.
Tick ==
    /\ lease' = [lease EXCEPT !.left = Less(@)]
    /\ stamp' = [r \in Runs |-> Less(stamp[r])]
    /\ valid' = [r \in Runs |-> Less(valid[r])]
    /\ beat' = [r \in Runs |-> IF beat[r] = "asleep" THEN "due" ELSE beat[r]]
    /\ UNCHANGED <<main, put, current, deleting, reclaiming, gone>>

-----------------------------------------------------------------------------
RunStep(r) ==
    \/ AcquireRead(r) \/ Acquired(r) \/ AcquireUnheard(r) \/ NotAcquired(r)
    \/ RenewRead(r) \/ Renewed(r) \/ RenewUnheard(r) \/ NotRenewed(r)
    \/ BeatMissed(r)
    \/ BodyEnds(r) \/ ReleaseRead(r) \/ Released(r) \/ NotReleased(r)
    \/ ProcessEnds(r)
    \/ LateLands(r) \/ LateLost(r)

Next == (\E r \in Runs : RunStep(r)) \/ ReclaimRead \/ Reclaim \/ Tick

Spec == Init /\ [][Next]_vars

\* Time passes.  Nothing else is assumed: no request need ever be answered.
FairSpec == Spec /\ WF_vars(Tick)

-----------------------------------------------------------------------------
(* Properties                                                              *)

\* A run that is inside its block and within the expiry it was last told of is alone:
\* the document names it and lasts at least as long as it believes, whoever takes
\* over, renews, releases, reclaims or lands late (joblock.py:9-11).
LeaseSafety ==
    \A r \in Runs :
        main[r] = "running" /\ valid[r] > 0
            => lease.owner = r /\ lease.left >= valid[r]

\* No step, of whatever other run or of the sweep, takes an unexpired lease from a
\* run that goes on running (joblock.py:149-153, 245-247).
LiveLeaseKept ==
    [][\A r \in Runs :
          lease.owner = r /\ lease.left > 0 /\ main[r] = "running"
              => lease'.owner = r \/ main'[r] # "running"]_vars

\* A lease whose run is over does not wedge the job: it goes, expires, or changes
\* hands in the end, with or without the sweep (joblock.py:19-20).
AbandonedLeaseLapses ==
    \A r \in Runs :
        lease.owner = r /\ main[r] = "done"
            ~> lease.owner # r \/ lease.left = 0

\* The lease implements exclusion: its holder is the run inside its block and within
\* its expiry.
Holds(r) == main[r] = "running" /\ valid[r] > 0
Holder == IF \E r \in Runs : Holds(r) THEN CHOOSE r \in Runs : Holds(r) ELSE NoRun
Exclusion == INSTANCE JobExclusion WITH holder <- Holder
ImplementsExclusion == Exclusion!Spec

\* "Renewal was refused, which means another process now holds the lease"
\* (joblock.py:185-186).
RefusedMeansTaken ==
    \A r \in Runs : main[r] = "running" /\ beat[r] = "lost" => lease.owner # r

=============================================================================
