------------------------------- MODULE Corpus -------------------------------
(***************************************************************************)
(* The transcript texts and what becomes of them: stored by the transcript *)
(* stage (transcripts/stage.py), deleted with age by the retention job     *)
(* (retention.py), and copied into the search index (search.py), a cache   *)
(* in a file of its own.  The three run in one process and wait between    *)
(* any two calls of the store; no lock is common to them.                  *)
(*                                                                         *)
(* Texts are numbered in the order they are stored, and the number stands  *)
(* for transcript_at too.  The index row of an episode holds the text it   *)
(* was given, and the signature that says when to write it anew.           *)
(***************************************************************************)
EXTENDS FiniteSets, Integers

CONSTANTS
    Episodes,
    Rank,           \* Rank[e]: place by published_at, the newest first
    Late,           \* episodes ingested only during the behaviour
    MaxTexts,       \* bound of the model: transcripts stored
    BATCH,          \* page size of the search index
    Limit,          \* 500: how many one query of the retention job returns
    MaxMishaps,     \* bound of the model: refused calls and crashes
    NONE

ASSUME CorpusAssumption ==
    /\ IsFiniteSet(Episodes) /\ Late \subseteq Episodes
    /\ Rank \in [Episodes -> Nat]
    /\ \A e, f \in Episodes : Rank[e] = Rank[f] => e = f
    /\ {BATCH, Limit} \subseteq Nat \ {0}
    /\ {MaxTexts, MaxMishaps} \subseteq Nat
    /\ NONE \notin Episodes \cup (Nat \X Nat)

VARIABLES
    edoc,       \* the episode documents with their attachments
    stored,     \* texts stored so far
    horizon,    \* texts up to this one are older than transcript_days
    pending,    \* pending[e]: a text attached but not yet named by the document
    ret,        \* the retention run
    index,      \* the index file
    sync,       \* the run of sync or rebuild that holds the lock
    torn,       \* episodes an expiry was cut short on
    mishaps

docs == <<edoc, stored, horizon, pending>>
corpus_vars == <<docs, ret, index, sync, torn, mishaps>>

Text == 0..MaxTexts     \* 0: none

Doc == [here    : BOOLEAN,
        text    : Text,         \* the attachment
        at      : Text,         \* transcript_at
        expired : Text]         \* transcript_expired_at: which expiry it is of

\* signature: decides whether a row is written, without a look at the attachment.  The
\* title, the status and the summary are part of it as well and are left out here.
signature(doc) == <<doc.at, doc.expired>>

Signatures == (Text \X Text) \cup {NONE}

Row == [sig : Signatures, text : Text, extra : BOOLEAN]
NoRow == [sig |-> NONE, text |-> 0, extra |-> FALSE]

Sync == [at      : {"idle", "load"},
         rebuild : BOOLEAN,
         known   : [Episodes -> Signatures],
         skip    : Nat,
         size    : Nat,
         page    : SUBSET [e : Episodes, doc : Doc],
         rows    : [Episodes -> Row]]

NoSync == [at |-> "idle", rebuild |-> FALSE, known |-> [e \in Episodes |-> NONE],
           skip |-> 0, size |-> 0, page |-> {}, rows |-> [e \in Episodes |-> NoRow]]

Ret == [at : {"idle", "texts", "mark"}, todo : SUBSET Episodes,
        e  : Episodes \cup {NONE}]
NoRet == [at |-> "idle", todo |-> {}, e |-> NONE]

CorpusTypeOK ==
    /\ edoc \in [Episodes -> Doc]
    /\ stored \in Text /\ horizon \in Text
    /\ pending \in [Episodes -> Text]
    /\ ret \in Ret
    /\ index = NONE \/ index \in [Episodes -> Row]
    /\ sync \in Sync
    /\ torn \in SUBSET Episodes
    /\ mishaps \in 0..MaxMishaps

CorpusInit ==
    /\ edoc = [e \in Episodes |-> [here |-> e \notin Late, text |-> 0, at |-> 0,
                                   expired |-> 0]]
    /\ stored = 0 /\ horizon = 0 /\ mishaps = 0
    /\ pending = [e \in Episodes |-> 0]
    /\ ret = NoRet
    /\ index = NONE /\ sync = NoSync
    /\ torn = {}


-----------------------------------------------------------------------------
(* Ingestion and the stages                                                *)

Ingest(e) ==
    /\ ~edoc[e].here
    /\ edoc' = [edoc EXCEPT ![e].here = TRUE]
    /\ UNCHANGED <<stored, horizon, pending, ret, index, sync, torn, mishaps>>

\* save_transcript, at the first acquisition or at a later one.
SaveText(e) ==
    /\ edoc[e].here /\ pending[e] = 0 /\ stored < MaxTexts
    /\ stored' = stored + 1
    /\ edoc' = [edoc EXCEPT ![e].text = stored']
    /\ pending' = [pending EXCEPT ![e] = stored']
    /\ UNCHANGED <<horizon, ret, index, sync, torn, mishaps>>

\* ... and the transition to TRANSCRIBED that names it.
NameText(e) ==
    /\ pending[e] # 0
    /\ edoc' = [edoc EXCEPT ![e].at = pending[e]]
    /\ pending' = [pending EXCEPT ![e] = 0]
    /\ UNCHANGED <<stored, horizon, ret, index, sync, torn, mishaps>>

Aged(e) == edoc[e].at \in 1..horizon

DaysPass ==
    /\ horizon < stored
    /\ horizon' = horizon + 1
    /\ UNCHANGED <<edoc, stored, pending, ret, index, sync, torn, mishaps>>

-----------------------------------------------------------------------------
(* Retention                                                               *)

\* Mutant: the query leaves out what has expired before.
Batch_Once == {e \in Episodes : Aged(e) /\ edoc[e].expired = 0}

\* The query's answer, in the order of its index: the oldest first.
Batch == {e \in Episodes : /\ Aged(e)
                           /\ Cardinality({f \in Episodes : Aged(f) /\ edoc[f].at < edoc[e].at})
                                 < Limit}

\* _expire_transcripts: those of the answer that had a text when it was read.
RetentionBegins ==
    /\ ret.at = "idle"
    /\ LET todo == {e \in Batch : edoc[e].text # 0}
       IN todo # {} /\ ret' = [NoRet EXCEPT !.at = "texts", !.todo = todo]
    /\ UNCHANGED <<docs, index, sync, torn, mishaps>>

DeleteText(e) ==
    /\ ret.at = "texts" /\ e \in ret.todo
    /\ edoc' = [edoc EXCEPT ![e].text = 0]
    /\ ret' = [ret EXCEPT !.at = "mark", !.todo = @ \ {e}, !.e = e]
    /\ UNCHANGED <<stored, horizon, pending, index, sync, torn, mishaps>>

Rest(todo) == IF todo = {} THEN NoRet ELSE [NoRet EXCEPT !.at = "texts", !.todo = todo]

MarkExpired ==
    /\ ret.at = "mark"
    /\ edoc' = [edoc EXCEPT ![ret.e].expired = @ + 1]
    /\ ret' = Rest(ret.todo)
    /\ UNCHANGED <<stored, horizon, pending, index, sync, torn, mishaps>>

\* Refused: noted under errors, and on to the next.
ExpireFails ==
    /\ mishaps < MaxMishaps /\ mishaps' = mishaps + 1
    /\ \/ /\ ret.at = "texts"
          /\ \E e \in ret.todo : ret' = Rest(ret.todo \ {e})
          /\ UNCHANGED torn
       \/ /\ ret.at = "mark"
          /\ ret' = Rest(ret.todo)
          /\ torn' = torn \cup {ret.e}
    /\ UNCHANGED <<docs, index, sync>>

-----------------------------------------------------------------------------
(* The index                                                               *)

Newer(e) == {f \in Episodes : edoc[f].here /\ Rank[f] < Rank[e]}

\* A page as the store has it now: what came in since the last shifts it.
Page(skip) == {e \in Episodes : edoc[e].here /\ Cardinality(Newer(e)) \in
                                    skip..(skip + BATCH - 1)}

ReadPage(state, skip) ==
    [state EXCEPT !.at = "load", !.skip = skip, !.size = Cardinality(Page(skip)),
                  !.page = {[e |-> e, doc |-> edoc[e]] : e \in Page(skip)}]

\* rebuild; sync on an index that is not there is one, too.
SyncBegins(rebuild) ==
    /\ sync.at = "idle"
    /\ index = NONE => rebuild
    /\ sync' = ReadPage([NoSync EXCEPT !.rebuild = rebuild, !.known =
                        IF rebuild THEN @ ELSE [e \in Episodes |-> index[e].sig]], 0)
    /\ UNCHANGED <<docs, ret, index, torn, mishaps>>

\* Whether the text is fetched: a rebuild goes by the attachment, a sync by the dates.
Fetches(doc) == IF sync.rebuild THEN doc.text # 0 ELSE doc.at # 0 /\ doc.expired = 0

\* Mutant: the row is signed with the document of now, not with the one it was made of.
Signed_Late(read) == signature(edoc[read.e])

Signed(read) == signature(read.doc)

\* One episode of the page: skipped if nothing about it moved, else its row is made,
\* of the text there is by now.
LoadRow(read) ==
    /\ sync.at = "load" /\ read \in sync.page
    /\ LET e == read.e
           row == [sig   |-> Signed(read),
                   text  |-> IF Fetches(read.doc) THEN edoc[e].text ELSE 0,
                   extra |-> sync.rebuild /\ sync.rows[e].sig # NONE]
       IN sync' = IF sync.known[e] = signature(read.doc)
                  THEN [sync EXCEPT !.page = @ \ {read}]
                  ELSE [sync EXCEPT !.page = @ \ {read}, !.rows[e] = row]
    /\ UNCHANGED <<docs, ret, index, torn, mishaps>>

\* A sync writes page by page, replacing the row each episode points to; a rebuild is
\* written whole.  Then the next page is read, until one is short or empty.
PageDone ==
    /\ sync.at = "load" /\ sync.page = {}
    /\ LET skip == sync.skip + sync.size
           last == sync.size < BATCH \/ Page(skip) = {}
       IN
       /\ sync' = IF last THEN NoSync
                  ELSE ReadPage([sync EXCEPT !.rows = IF sync.rebuild THEN @ ELSE NoSync.rows],
                            skip)
       /\ index' = IF ~sync.rebuild
                   THEN [e \in Episodes |->
                            IF sync.rows[e].sig = NONE THEN index[e]
                            ELSE [sync.rows[e] EXCEPT !.extra = index[e].extra]]
                   ELSE IF last THEN sync.rows ELSE index
    /\ UNCHANGED <<docs, ret, torn, mishaps>>

-----------------------------------------------------------------------------
\* The process dies: a rebuild leaves the index it was to replace.
Crash ==
    /\ mishaps < MaxMishaps /\ mishaps' = mishaps + 1
    /\ pending' = [e \in Episodes |-> 0]
    /\ torn' = IF ret.at = "mark" THEN torn \cup {ret.e} ELSE torn
    /\ ret' = NoRet /\ sync' = NoSync
    /\ UNCHANGED <<edoc, stored, horizon, index>>

RetentionStep ==
    RetentionBegins \/ (\E e \in Episodes : DeleteText(e)) \/ MarkExpired

SyncStep ==
    (\E read \in sync.page : LoadRow(read)) \/ PageDone

CorpusNext ==
    \/ \E e \in Episodes : Ingest(e) \/ SaveText(e) \/ NameText(e)
    \/ DaysPass
    \/ RetentionStep \/ ExpireFails
    \/ SyncStep \/ \E rebuild \in BOOLEAN : SyncBegins(rebuild)
    \/ Crash

\* The jobs are scheduled and go on; a rebuild is the owner's to ask for.
CorpusSpec ==
    /\ CorpusInit /\ [][CorpusNext]_corpus_vars
    /\ \A e \in Episodes : WF_corpus_vars(NameText(e))
    /\ WF_corpus_vars(RetentionStep)
    /\ WF_corpus_vars(SyncStep) /\ WF_corpus_vars(SyncBegins(index = NONE))

-----------------------------------------------------------------------------
(* The promises.                                                           *)

\* The document tells what the attachment is.
Told(e) == edoc[e].text = IF edoc[e].expired = 0 THEN edoc[e].at ELSE 0

\* "This is what keeps the index honest between rebuilds" (search.py:201): once nothing
\* changes any more, each row is what a rebuild would make of its document, texts stored
\* or deleted between the reading of a page and its writing included.  Left aside are
\* documents that do not tell what text is held, and an expiry cut short: see
\* IndexMatchesTexts.
IndexCatchesUp ==
    []<>(\A e \in Episodes :
           (edoc[e].here /\ Told(e) /\ e \notin torn)
              => /\ index # NONE
                 /\ index[e].sig = signature(edoc[e])
                 /\ index[e].text = edoc[e].text)

Expiring(e) == ret.at = "mark" /\ ret.e = e

\* What a sync passes over is right (search.py:237-240): a row with the signature of the
\* document has its text, whatever was stored, deleted or noted between the reading of the
\* page, the reading of the text and the writing of the row.  Left aside as above, and
\* while an expiry is between its two writes.
SignaturesTell ==
    index # NONE =>
        \A e \in Episodes :
           (index[e].sig = signature(edoc[e]) /\ Told(e) /\ e \notin torn /\ ~Expiring(e))
              => index[e].text = edoc[e].text

\* A text past its days goes (retention.py:3), refusals and crashes notwithstanding,
\* as long as one query reaches every old episode: see retention.py:94.
OldTextsGo ==
    \A e \in Episodes : (Aged(e) /\ edoc[e].text # 0) ~> ~(Aged(e) /\ edoc[e].text # 0)

\* The index holds no text that is gone, and every text there is.  Not so: the date of
\* an expiry is never taken back, so a sync leaves out a text acquired after it; and an
\* expiry cut short is never noted.
IndexMatchesTexts ==
    []<>(\A e \in Episodes : edoc[e].here =>
            index # NONE /\ index[e].text = edoc[e].text)

\* Only a text past its days is deleted.  Not so: an episode transcribed anew between
\* the retention job's query and its turn loses the new text.
FreshTextsKept ==
    [][\A e \in Episodes :
          (edoc[e].text # 0 /\ edoc'[e].text = 0) => edoc[e].text <= horizon]_corpus_vars

\* An episode has one row.  Not so: an episode ingested between two pages of a rebuild
\* shifts another onto the second, and only the last of its rows can be replaced.
OneRowEach == index # NONE => \A e \in Episodes : ~index[e].extra

=============================================================================
