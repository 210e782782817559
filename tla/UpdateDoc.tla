----------------------------- MODULE UpdateDoc ------------------------------
(***************************************************************************)
(* update_doc (podcast_agent/db/base.py) over the CouchDB client           *)
(* (podcast_agent/db/couch.py), for one document and the calls on it that  *)
(* overlap.  A call reads the document, changes its copy and puts it back  *)
(* under the revision it read.  The store refuses any other revision; the  *)
(* client repeats a request it gets no answer to; update_doc starts over   *)
(* after a refusal.                                                        *)
(***************************************************************************)
EXTENDS Naturals, FiniteSets

CONSTANTS
    Calls,          \* overlapping calls, one change each
    MaxTries,       \* max_retries of update_doc
    MaxSends        \* RETRY_ATTEMPTS of the client

ASSUME UpdateAssumption == {MaxTries, MaxSends} \subseteq Nat \ {0}

VARIABLES
    doc,        \* the stored document: its revision, and how often each change is in it
    at,         \* at[c]: where the call is
    copy,       \* copy[c]: the document as c read it, with c's change on it
    tries,      \* tries[c]: refusals so far
    sends,      \* sends[c]: requests of the put in progress that got no answer
    late,       \* copies sent without an answer that the store would still take
    unheard     \* history: calls one of whose puts got no answer

update_vars == <<doc, at, copy, tries, sends, late, unheard>>

Document == [rev : Nat, content : [Calls -> Nat]]

UpdateTypeOK ==
    /\ doc \in Document
    /\ at \in [Calls -> {"get", "put", "done", "conflict", "error"}]
    /\ copy \in [Calls -> Document]
    /\ tries \in [Calls -> 0..MaxTries]
    /\ sends \in [Calls -> 0..MaxSends]
    /\ late \in SUBSET Document
    /\ unheard \in SUBSET Calls

UpdateInit ==
    /\ doc = [rev |-> 0, content |-> [c \in Calls |-> 0]]
    /\ at = [c \in Calls |-> "get"]
    /\ copy = [c \in Calls |-> doc]
    /\ tries = [c \in Calls |-> 0]
    /\ sends = [c \in Calls |-> 0]
    /\ late = {}
    /\ unheard = {}

-----------------------------------------------------------------------------
Moves(c, place) == at' = [at EXCEPT ![c] = place]

\* The store takes a copy of the current revision, and only that: what was sent
\* under it before is refused from then on, whenever it arrives.
Lands(d) ==
    /\ d.rev = doc.rev
    /\ doc' = [d EXCEPT !.rev = @ + 1]
    /\ late' = {}

\* Mutant: whatever revision a copy carries, the store takes it.
PutAnswered_Forced(c) ==
    /\ at[c] = "put"
    /\ doc' = [copy[c] EXCEPT !.rev = doc.rev + 1]
    /\ late' = {}
    /\ Moves(c, "done")
    /\ UNCHANGED <<copy, tries, sends, unheard>>

\* get(), then the mutator on what it returned.
Read(c) ==
    /\ at[c] = "get"
    /\ copy' = [copy EXCEPT ![c] = [doc EXCEPT !.content[c] = doc.content[c] + 1]]
    /\ sends' = [sends EXCEPT ![c] = 0]
    /\ Moves(c, "put")
    /\ UNCHANGED <<doc, tries, late, unheard>>

\* put() is answered: update_doc returns.
PutAnswered(c) ==
    /\ at[c] = "put"
    /\ Lands(copy[c])
    /\ Moves(c, "done")
    /\ UNCHANGED <<copy, tries, sends, unheard>>

\* Mutant: the copy in hand is changed again, under the new revision.
Refused_KeepsCopy(c) ==
    /\ at[c] = "put" /\ copy[c].rev # doc.rev
    /\ copy' = [copy EXCEPT ![c] = [rev |-> doc.rev,
                                    content |-> [copy[c].content EXCEPT ![c] = @ + 1]]]
    /\ UNCHANGED <<doc, at, tries, sends, late, unheard>>

\* Mutant: one try fewer.
Refused_OneTryFewer(c) ==
    /\ at[c] = "put" /\ copy[c].rev # doc.rev
    /\ tries' = [tries EXCEPT ![c] = @ + 1]
    /\ Moves(c, IF tries[c] + 2 >= MaxTries THEN "conflict" ELSE "get")
    /\ UNCHANGED <<doc, copy, sends, late, unheard>>

\* A 409: start over on the document as it is now, MaxTries times at most.
Refused(c) ==
    /\ at[c] = "put" /\ copy[c].rev # doc.rev
    /\ tries' = [tries EXCEPT ![c] = @ + 1]
    /\ Moves(c, IF tries[c] + 1 = MaxTries THEN "conflict" ELSE "get")
    /\ UNCHANGED <<doc, copy, sends, late, unheard>>

\* No answer to a put: it has landed, or still may, or never will.  The client sends
\* it again, MaxSends times in all.
Unanswered(c) ==
    /\ at[c] = "put"
    /\ \/ Lands(copy[c])
       \/ copy[c].rev = doc.rev /\ late' = late \cup {copy[c]} /\ UNCHANGED doc
       \/ UNCHANGED <<doc, late>>
    /\ sends' = [sends EXCEPT ![c] = @ + 1]
    /\ Moves(c, IF sends[c] + 1 = MaxSends THEN "error" ELSE "put")
    /\ unheard' = unheard \cup {c}
    /\ UNCHANGED <<copy, tries>>

LatePutLands ==
    /\ \E d \in late : Lands(d)
    /\ UNCHANGED <<at, copy, tries, sends, unheard>>

\* The read fails, or the store answers a put with an error of its own.
StoreFails(c) ==
    /\ at[c] \in {"get", "put"}
    /\ Moves(c, "error")
    /\ UNCHANGED <<doc, copy, tries, sends, late, unheard>>

-----------------------------------------------------------------------------
Step(c) == Read(c) \/ PutAnswered(c) \/ Refused(c) \/ Unanswered(c) \/ StoreFails(c)

UpdateNext == LatePutLands \/ \E c \in Calls : Step(c)

UpdateSpec == UpdateInit /\ [][UpdateNext]_update_vars

-----------------------------------------------------------------------------
\* No change is overwritten by a later one: a call that returned has its change in
\* the document for good (base.py:249-253, "never a force-overwrite").
NoUpdateLost == \A c \in Calls : at[c] = "done" => doc.content[c] > 0

\* A call whose puts were all answered applied its change exactly once if it
\* returned, and not at all if it raised (couch.py:92-94).
AppliedOnceWhenAnswered ==
    \A c \in Calls \ unheard :
        doc.content[c] = IF at[c] = "done" THEN 1 ELSE 0

\* With an answer to every put, a call is refused once per other call at most, so
\* that MaxTries overlapping calls all get through.
EnoughTries ==
    unheard = {} /\ Cardinality(Calls) <= MaxTries
        => \A c \in Calls : at[c] # "conflict"

\* The store's document changes as if each update were one step, on the document as
\* it is at that step.
Atomic == INSTANCE AtomicUpdate WITH content <- doc.content
ImplementsAtomic == Atomic!Spec

\* "if the first attempt did land, the retry loses to a 409 rather than applying
\* twice" (couch.py:92-94).
AppliedOnce == \A c \in Calls : at[c] = "done" => doc.content[c] = 1

=============================================================================
