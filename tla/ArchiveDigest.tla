---------------------------- MODULE ArchiveDigest ---------------------------
(***************************************************************************)
(* The archive's monthly files (podcast_agent/digest/archive.py).  The job *)
(* collects every unclaimed archive episode once, and then, month by       *)
(* month, writes the file, stores its document and claims the episodes.  A *)
(* month whose document says the claiming did not finish is only claimed.  *)
(* One claim is one step: the race between its read and its write is that  *)
(* of the weekly digest, in Digest.                                        *)
(***************************************************************************)
EXTENDS ArchiveDocs

VARIABLES
    months,     \* the (show, month) pairs generate() has still to look at
    members,    \* what it collected: the status of each unclaimed episode, or NONE
    month,      \* the pair it is writing
    todo,       \* members of that month still to claim
    file,       \* file[k]: what the document of k says its file holds, and whether
                \* the claiming is complete; NONE without a document
    listed      \* listed[e]: in how many files on disk e is

digestVars == <<months, members, month, todo, file, listed>>

Keys == {<<ShowOf[e], MonthOf[e]>> : e \in Entries}
KeyOf(e) == <<ShowOf[e], MonthOf[e]>>

\* Statuses of an episode that is still being processed.
PENDING_STATUSES == {"NEW", "TRIAGED", "AWAITING_TRANSCRIPT", "TRANSCRIBED", "SUMMARIZED"}

ArchiveTypeOK ==
    /\ months \in SUBSET Keys
    /\ members \in [Entries -> EpisodeStatus \cup {NONE}]
    /\ month \in Keys \cup {NONE}
    /\ todo \in SUBSET Entries
    /\ file \in [Keys -> [ids : SUBSET Entries, complete : BOOLEAN] \cup {NONE}]
    /\ listed \in [Entries -> Nat]

ArchiveInit ==
    /\ months = {}
    /\ members = [e \in Entries |-> NONE]
    /\ month = NONE
    /\ todo = {}
    /\ file = [k \in Keys |-> NONE]
    /\ listed = [e \in Entries |-> 0]

Forget ==
    /\ months' = {}
    /\ members' = [e \in Entries |-> NONE]
    /\ month' = NONE
    /\ todo' = {}

-----------------------------------------------------------------------------
Unclaimed == {e \in Recorded : ~adoc[e].claimed}

\* Mutant: claimed episodes are collected again.
Collect_Everything ==
    /\ at = "collect"
    /\ members' = [e \in Entries |-> IF e \in Recorded THEN adoc[e].status ELSE NONE]
    /\ months' = {KeyOf(e) : e \in Recorded}
    /\ at' = "months"
    /\ UNCHANGED <<month, todo, file, listed, adoc, held, job>>

Collect ==
    /\ at = "collect"
    /\ members' = [e \in Entries |-> IF e \in Unclaimed THEN adoc[e].status ELSE NONE]
    /\ months' = {KeyOf(e) : e \in Unclaimed}
    /\ at' = "months"
    /\ UNCHANGED <<month, todo, file, listed, adoc, held, job>>

MembersOf(k) == {e \in Entries : members[e] # NONE /\ KeyOf(e) = k}

\* Mutant: an episode without a transcript counts as pending.
Settled_NeedsTranscript(k) ==
    \A e \in MembersOf(k) : members[e] \notin PENDING_STATUSES \cup {"TRANSCRIPT_FAILED"}

\* Every member of the month has been processed.
Settled(k) == \A e \in MembersOf(k) : members[e] \notin PENDING_STATUSES

SkipIncomplete(k) ==
    /\ at = "months" /\ k \in months
    /\ ~Settled(k)
    /\ months' = months \ {k}
    /\ UNCHANGED <<members, month, todo, file, listed, docsVars>>

\* An interrupted month is finished, not written again; what is claimed is what was
\* collected now.
OpenMonth(k) ==
    /\ at = "months" /\ k \in months
    /\ Settled(k)
    /\ months' = months \ {k}
    /\ month' = k
    /\ IF file[k] # NONE /\ ~file[k].complete
       THEN at' = "claim" /\ todo' = MembersOf(k)
       ELSE at' = "file" /\ todo' = {}
    /\ UNCHANGED <<members, file, listed, adoc, held, job>>

\* A file of its own: _atomic_write never replaces one.
WriteMonth ==
    /\ at = "file"
    /\ listed' = [e \in Entries |-> IF e \in MembersOf(month) THEN listed[e] + 1 ELSE listed[e]]
    /\ at' = "put"
    /\ UNCHANGED <<months, members, month, todo, file, adoc, held, job>>

\* The document of the month, in place of the one it may have had.
PutMonth ==
    /\ at = "put"
    /\ file' = [file EXCEPT ![month] = [ids |-> MembersOf(month), complete |-> FALSE]]
    /\ todo' = MembersOf(month)
    /\ at' = "claim"
    /\ UNCHANGED <<months, members, month, listed, adoc, held, job>>

\* _claim_all, one episode as it is now: an entry is PUBLISHED, an audit row keeps
\* its status.
ClaimOne(e) ==
    /\ at = "claim" /\ e \in todo
    /\ todo' = todo \ {e}
    /\ adoc' = IF adoc[e].claimed THEN adoc
               ELSE IF adoc[e].status \in DIGESTABLE_STATUSES
                    THEN [Moved(e, "PUBLISHED") EXCEPT ![e].claimed = TRUE]
                    ELSE [adoc EXCEPT ![e].claimed = TRUE]
    /\ UNCHANGED <<months, members, month, file, listed, at, held, job>>

ClaimRefused(e) ==
    /\ at = "claim" /\ e \in todo
    /\ todo' = todo \ {e}
    /\ UNCHANGED <<months, members, month, file, listed, docsVars>>

MarkComplete ==
    /\ at = "claim" /\ todo = {}
    /\ file' = [file EXCEPT ![month].complete = TRUE]
    /\ month' = NONE
    /\ at' = "months"
    /\ UNCHANGED <<months, members, todo, listed, adoc, held, job>>

\* Logged, and the next run finishes the month.
MarkRefused ==
    /\ at = "claim" /\ todo = {}
    /\ month' = NONE
    /\ at' = "months"
    /\ UNCHANGED <<months, members, todo, file, listed, adoc, held, job>>

MonthsOver ==
    /\ at = "months" /\ months = {}
    /\ Forget
    /\ at' = "idle" /\ job' = NoJob
    /\ UNCHANGED <<file, listed, adoc, held>>

\* The disk or the store refuses: the exception ends the run.
WritingFails ==
    /\ at \in {"file", "put"}
    /\ Forget
    /\ at' = "idle" /\ job' = NoJob
    /\ UNCHANGED <<file, listed, adoc, held>>

ArchiveStep ==
    \/ Collect
    \/ \E k \in Keys : SkipIncomplete(k) \/ OpenMonth(k)
    \/ WriteMonth \/ PutMonth
    \/ \E e \in Entries : ClaimOne(e)
    \/ MarkComplete \/ MonthsOver

ArchiveMishap ==
    \/ \E e \in Entries : ClaimRefused(e)
    \/ MarkRefused \/ WritingFails

=============================================================================
