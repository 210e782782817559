------------------------------- MODULE Digest -------------------------------
(***************************************************************************)
(* The weekly digest job (podcast_agent/digest/generate.py).  It collects  *)
(* every unclaimed finished episode of its window, writes the file, stores *)
(* the digest document, then claims the episodes one by one.  It shares no *)
(* lock with the pipeline job or the owner's requests: a document it read  *)
(* may have moved on when it writes.  A week stands for its period key.    *)
(***************************************************************************)
EXTENDS EpisodeDocs

CONSTANTS
    Published,      \* Published[e]: the week e came out in
    CatchUp         \* pipeline.digest_catch_up_days, in weeks

ASSUME DigestAssumption ==
    /\ 0 \notin Digests
    /\ Published \in [Episodes -> Digests]
    /\ CatchUp \in Nat

VARIABLES
    week,       \* the current ISO week
    due,        \* its scheduled run has not fired yet
    run,        \* the digest run in progress
    ddoc,       \* ddoc[w]: the stored digest document of week w
    lastTo,     \* where the period of the digest generated last ended
    listed      \* listed[e]: the weeks whose files on disk list e

digestWork == <<week, due, run, ddoc, lastTo, listed>>
digestVars == <<doc, digestWork>>

\* A run: where it is, its week, the episodes in its file, those not looked at yet
\* by the marking loop, and the status the loop read of the one it is at.
Run == [at   : {"idle", "file", "put", "marking", "write"},
        week : Digests,
        ids  : SUBSET Episodes,
        todo : SUBSET Episodes,
        ep   : Episodes \cup {NONE},
        saw  : EpisodeStatus \cup {NONE}]

DigestDoc == [ids : SUBSET Episodes, complete : BOOLEAN]

ASSUME NoDigestAssumption == NONE \notin DigestDoc

DigestTypeOK ==
    /\ week \in Digests
    /\ due \in BOOLEAN
    /\ run \in Run
    /\ ddoc \in [Digests -> DigestDoc \cup {NONE}]
    /\ lastTo \in Digests \cup {0}
    /\ listed \in [Episodes -> SUBSET Digests]

Idle(w) == [at |-> "idle", week |-> w, ids |-> {}, todo |-> {},
            ep |-> NONE, saw |-> NONE]

DigestInit ==
    /\ week \in {w \in Digests : \A v \in Digests : w <= v}
    /\ due = TRUE
    /\ run = Idle(week)
    /\ ddoc = [w \in Digests |-> NONE]
    /\ lastTo = 0
    /\ listed = [e \in Episodes |-> {}]

\* Process death: the files and the documents stay.
DigestDies == run' = Idle(run.week)

-----------------------------------------------------------------------------
(* Selection                                                               *)

\* Statuses a digest leaves for a later one.
Pending == ACTIVE_STATUSES \ {"TRANSCRIPT_FAILED"}

\* _floor(): never later than CatchUp before the end of the period.
InWindow(e, from, to) ==
    /\ Published[e] <= to
    /\ Published[e] >= from \/ Published[e] + CatchUp >= to

Candidates(from, to) ==
    {e \in Episodes : /\ doc[e].claim = NONE
                      /\ InWindow(e, from, to)
                      /\ doc[e].status \notin Pending}

Begun(w) == ddoc[w] # NONE /\ ~ddoc[w].complete

\* Mutant: what is finished is what would be collected now.
Generate_Recollects(from, w) ==
    /\ run.at = "idle"
    /\ run' = IF Begun(w)
              THEN [Idle(w) EXCEPT !.at = "marking", !.ids = Candidates(from, w),
                                   !.todo = Candidates(from, w)]
              ELSE [Idle(w) EXCEPT !.at = "file", !.ids = Candidates(from, w)]
    /\ UNCHANGED <<doc, week, ddoc, lastTo, listed>>

\* generate() for the week w with a period from "from": a digest of that week whose
\* marking did not finish is finished; otherwise a new one is collected, a second
\* one for the week if there is a complete one.
Generate(from, w) ==
    /\ run.at = "idle"
    /\ run' = IF Begun(w)
              THEN [Idle(w) EXCEPT !.at = "marking", !.ids = ddoc[w].ids,
                                   !.todo = ddoc[w].ids]
              ELSE [Idle(w) EXCEPT !.at = "file", !.ids = Candidates(from, w)]
    /\ UNCHANGED <<doc, week, ddoc, lastTo, listed>>

\* The weekly fire of the scheduler: the current week, from where the last digest
\* ended.  A fire that finds a run in progress, or no process, is skipped.
ScheduledDigest ==
    /\ due /\ due' = FALSE
    /\ Generate(lastTo, week)

\* A run the owner asks for, over whatever period they name; where they name no
\* start, it is where the last digest ended.
ManualDigest == \E w \in Digests, from \in Digests \cup {lastTo} :
                    Generate(from, w) /\ UNCHANGED due

NextWeek ==
    /\ week + 1 \in Digests
    /\ week' = week + 1
    /\ due' = TRUE
    /\ UNCHANGED <<doc, run, ddoc, lastTo, listed>>

-----------------------------------------------------------------------------
(* The file, the document, the marking                                     *)

\* An atomic rename under a name that did not exist before.
WriteFile ==
    /\ run.at = "file"
    /\ listed' = [e \in Episodes |-> IF e \in run.ids
                                     THEN listed[e] \cup {run.week} ELSE listed[e]]
    /\ run' = [run EXCEPT !.at = "put"]
    /\ UNCHANGED <<doc, week, due, ddoc, lastTo>>

\* Mutant: the document says at once that marking is complete.
PutDigest_Complete ==
    /\ run.at = "put"
    /\ ddoc' = [ddoc EXCEPT ![run.week] = [ids |-> run.ids, complete |-> TRUE]]
    /\ lastTo' = run.week
    /\ run' = [run EXCEPT !.at = "marking", !.todo = run.ids]
    /\ UNCHANGED <<doc, week, due, listed>>

PutDigest ==
    /\ run.at = "put"
    /\ ddoc' = [ddoc EXCEPT ![run.week] = [ids |-> run.ids, complete |-> FALSE]]
    /\ lastTo' = run.week
    /\ run' = [run EXCEPT !.at = "marking", !.todo = run.ids]
    /\ UNCHANGED <<doc, week, due, listed>>

\* One turn of _mark_published: read the episode, skip it if somebody claimed it.
MarkRead(e) ==
    /\ run.at = "marking" /\ e \in run.todo
    /\ run' = IF doc[e].claim # NONE
              THEN [run EXCEPT !.todo = @ \ {e}]
              ELSE [run EXCEPT !.at = "write", !.todo = @ \ {e}, !.ep = e,
                               !.saw = doc[e].status]
    /\ UNCHANGED <<doc, week, due, ddoc, lastTo, listed>>

\* Mutant: only full entries are claimed, the audit rows are not.
MarkWrite_EntriesOnly ==
    /\ run.at = "write"
    /\ IF run.saw \in DIGESTABLE_STATUSES /\ Accepts(run.ep, "PUBLISHED")
       THEN Transition(run.ep, "PUBLISHED", [doc[run.ep] EXCEPT !.claim = run.week])
       ELSE UNCHANGED doc
    /\ run' = [run EXCEPT !.at = "marking", !.ep = NONE, !.saw = NONE]
    /\ UNCHANGED <<week, due, ddoc, lastTo, listed>>

\* The write is chosen by the status just read, made on the document as it is now.
\* An illegal transition is logged and the episode stays unclaimed.
MarkWrite ==
    /\ run.at = "write"
    /\ LET e == run.ep
           d == [doc[e] EXCEPT !.claim = run.week]
       IN IF run.saw \notin DIGESTABLE_STATUSES
          THEN doc' = [doc EXCEPT ![e] = d]
          ELSE IF Accepts(e, "PUBLISHED")
          THEN Transition(e, "PUBLISHED", d)
          ELSE UNCHANGED doc
    /\ run' = [run EXCEPT !.at = "marking", !.ep = NONE, !.saw = NONE]
    /\ UNCHANGED <<week, due, ddoc, lastTo, listed>>

\* The store refuses the write of one episode: logged, never fatal.
MarkFails ==
    /\ run.at = "write"
    /\ run' = [run EXCEPT !.at = "marking", !.ep = NONE, !.saw = NONE]
    /\ UNCHANGED <<doc, week, due, ddoc, lastTo, listed>>

CompleteMarking ==
    /\ run.at = "marking" /\ run.todo = {}
    /\ ddoc' = [ddoc EXCEPT ![run.week].complete = TRUE]
    /\ run' = Idle(run.week)
    /\ UNCHANGED <<doc, week, due, lastTo, listed>>

\* An exception out of the file or the store ends the run where it is; so does the
\* store refusing the marking_complete flag, which is only logged.
DigestFails ==
    /\ \/ run.at \in {"file", "put"}
       \/ run.at = "marking" /\ run.todo = {}
    /\ run' = Idle(run.week)
    /\ UNCHANGED <<doc, week, due, ddoc, lastTo, listed>>

-----------------------------------------------------------------------------
DigestStep ==
    \/ WriteFile
    \/ PutDigest
    \/ \E e \in Episodes : MarkRead(e)
    \/ MarkWrite
    \/ CompleteMarking

DigestMishap == MarkFails \/ DigestFails

=============================================================================
