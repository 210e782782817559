------------------------------ MODULE Narrate -------------------------------
(***************************************************************************)
(* Reading a digest aloud (podcast_agent/digest/narrate.py, narrate_digest *)
(* of the runner): which digest, the script in chunks, one request of the  *)
(* speech server per chunk into a file beside the target, the rename, the  *)
(* embed in the note and the record in the document.                       *)
(*                                                                         *)
(* A digest is a period and the files it was generated into, one per run;  *)
(* digests are generated and summaries rewritten meanwhile.                *)
(* One narration at a time: the runner holds a lock and a lease.           *)
(***************************************************************************)
EXTENDS Chunking, FiniteSetsExt

CONSTANTS
    Periods,            \* weeks, as numbers
    Texts,              \* texts to cut
    Scripts,            \* those a digest is tried with
    max_chars,          \* tts.max_chars_per_request
    NEWEST_SCAN,
    MaxRuns,            \* bound of the model: generations in all
    MaxSummaries,       \* bound of the model: times the summaries are rewritten
    MaxDeaths,          \* bound of the model
    NONE

ASSUME NarrateAssumption ==
    /\ Periods \subseteq Nat /\ IsFiniteSet(Periods)
    /\ Scripts \subseteq Texts
    /\ Texts \subseteq Seq(Seq(Nat \ {0}) \ {<<>>}) \ {<<>>}
    /\ {max_chars, NEWEST_SCAN, MaxRuns} \subseteq Nat \ {0}
    /\ MaxSummaries \in Nat /\ MaxDeaths \in Nat /\ NONE \notin Nat

Files == Periods \X (1..MaxRuns)

VARIABLES
    runs,       \* runs[p]: generations of p, 0 while there is no document
    generated,  \* generated[p]: generated_at, 0 while there is no document
    clock,      \* the generations of all periods so far: the last generated_at
    summaries,  \* the version of the episodes' summaries
    embedded,   \* files whose note has the embed, or had no place for it when it was tried
    written,    \* written[f]: the version of the summaries f was written from
    audio,      \* audio[f]: the file beside it, NONE without one
    tmp,        \* tmp[f]: the chunks in the partial file of f, NONE without one
    work,       \* the local variables of narrate()
    deaths

vars == <<runs, generated, clock, summaries, embedded, written, audio, tmp, work, deaths>>

Idle == [at |-> "idle", f |-> NONE, hourly |-> FALSE, total |-> 0, spoken |-> 0,
         said |-> 0]

NarrateTypeOK ==
    /\ runs \in [Periods -> 0..MaxRuns]
    /\ clock \in 0..MaxRuns /\ generated \in [Periods -> 0..MaxRuns]
    /\ summaries \in 0..MaxSummaries
    /\ embedded \subseteq Files
    /\ written \in [Files -> 0..MaxSummaries]
    /\ \A f \in Files : audio[f] = NONE \/ audio[f] \in [whole : BOOLEAN, said : 0..MaxSummaries]
    /\ tmp \in [Files -> Nat \cup {NONE}]
    /\ work.at \in {"idle", "episodes", "synth", "embed", "record"}
    /\ work.f \in Files \cup {NONE}
    /\ deaths \in 0..MaxDeaths

Init ==
    /\ runs = [p \in Periods |-> 0] /\ summaries = 0
    /\ generated = [p \in Periods |-> 0] /\ clock = 0
    /\ embedded = {} /\ written = [f \in Files |-> 0]
    /\ audio = [f \in Files |-> NONE] /\ tmp = [f \in Files |-> NONE]
    /\ work = Idle /\ deaths = 0

-----------------------------------------------------------------------------
(* Meanwhile                                                               *)

\* A period generated again gets another file, and the newest generated_at.
Generate(p) ==
    /\ clock < MaxRuns
    /\ written' = [written EXCEPT ![<<p, runs[p] + 1>>] = summaries]
    /\ runs' = [runs EXCEPT ![p] = @ + 1]
    /\ clock' = clock + 1
    /\ generated' = [generated EXCEPT ![p] = clock + 1]
    /\ UNCHANGED <<summaries, embedded, audio, tmp, work, deaths>>

Resummarize ==
    /\ summaries < MaxSummaries
    /\ summaries' = summaries + 1
    /\ UNCHANGED <<runs, generated, clock, embedded, written, audio, tmp, work, deaths>>

-----------------------------------------------------------------------------
(* narrate()                                                               *)

Documents == {p \in Periods : runs[p] > 0}

GeneratedSince(p) == {q \in Documents : generated[q] > generated[p]}

\* Mutant: the newest is the one generated last.
Newest_Generated == CHOOSE p \in Documents : GeneratedSince(p) = {}

\* Of the NEWEST_SCAN documents generated last, the latest period.
Newest == Max({p \in Documents : Cardinality(GeneratedSince(p)) < NEWEST_SCAN})

LatestFile(p) == <<p, runs[p]>>

\* Audio that is there is not made again, unless forced: skipped, without a request.
Begins(p, force, hourly) ==
    /\ work.at = "idle" /\ runs[p] > 0
    /\ audio[LatestFile(p)] = NONE \/ force
    /\ work' = [Idle EXCEPT !.at = "episodes", !.f = LatestFile(p), !.hourly = hourly]
    /\ UNCHANGED <<runs, generated, clock, summaries, embedded, written, audio, tmp, deaths>>

Hourly == Documents # {} /\ Begins(Newest, FALSE, TRUE)

OwnerAsks(p) == \E force \in BOOLEAN : Begins(p, force, FALSE)

Works(at) == work.at = at

\* Mutant: what an earlier death left of the partial file is appended to.
Opened_Appended(f) == IF tmp[f] = NONE THEN 0 ELSE tmp[f]

\* open("wb"): the partial file begins empty, whatever an earlier death left of it.
Opened(f) == 0

\* The episodes of the run, as they are now; without one there is nothing to narrate.  The
\* script is cut and the partial file opened.
Episodes ==
    /\ Works("episodes")
    /\ \/ \E s \in Scripts :
             /\ work' = [work EXCEPT !.at = "synth", !.said = summaries,
                                     !.total = Len(chunk_script(s, max_chars))]
             /\ tmp' = [tmp EXCEPT ![work.f] = Opened(work.f)]
       \/ work' = Idle /\ UNCHANGED tmp
    /\ UNCHANGED <<runs, generated, clock, summaries, embedded, written, audio, deaths>>

\* One chunk is spoken and appended.
Speaks ==
    /\ Works("synth") /\ work.spoken < work.total
    /\ tmp' = [tmp EXCEPT ![work.f] = @ + 1]
    /\ work' = [work EXCEPT !.spoken = @ + 1]
    /\ UNCHANGED <<runs, generated, clock, summaries, embedded, written, audio, deaths>>

\* The server fails, or the narration is cancelled: the partial file goes.
SpeechFails ==
    /\ Works("synth")
    /\ tmp' = [tmp EXCEPT ![work.f] = NONE]
    /\ work' = Idle
    /\ UNCHANGED <<runs, generated, clock, summaries, embedded, written, audio, deaths>>

\* The loop is over: the partial file, whatever it holds, becomes the audio.
Replaces ==
    /\ Works("synth") /\ work.spoken = work.total
    /\ audio' = [audio EXCEPT ![work.f] = [whole |-> tmp[work.f] = work.total,
                                           said |-> work.said]]
    /\ tmp' = [tmp EXCEPT ![work.f] = NONE]
    /\ work' = [work EXCEPT !.at = "embed"]
    /\ UNCHANGED <<runs, generated, clock, summaries, embedded, written, deaths>>

\* Once, and best effort: a note the reader has moved or stripped of its heading is left
\* alone.
Embeds ==
    /\ Works("embed")
    /\ embedded' = embedded \cup {work.f}
    /\ work' = [work EXCEPT !.at = "record"]
    /\ UNCHANGED <<runs, generated, clock, summaries, written, audio, tmp, deaths>>

\* The record of it in the document, which nothing reads back; one that cannot be written is
\* logged.
Records ==
    /\ Works("record")
    /\ work' = Idle
    /\ UNCHANGED <<runs, generated, clock, summaries, embedded, written, audio, tmp, deaths>>

\* A death of the process unwinds nothing; the partial file stays until it is written anew.
Dies ==
    /\ deaths < MaxDeaths /\ ~Works("idle")
    /\ deaths' = deaths + 1
    /\ work' = Idle
    /\ UNCHANGED <<runs, generated, clock, summaries, embedded, written, audio, tmp>>

Narration == Episodes \/ Speaks \/ SpeechFails \/ Replaces \/ Embeds \/ Records

Next ==
    \/ Hourly \/ Narration \/ Dies \/ Resummarize
    \/ \E p \in Periods : Generate(p) \/ OwnerAsks(p)

Spec == Init /\ [][Next]_vars

-----------------------------------------------------------------------------
(* Properties                                                              *)

\* Partial files, deaths and what the owner forces aside, all that a listener can see is
\* whole readings, each in one step and none older than the one before (narrate.py:261-266).
Listener == INSTANCE Audiobook WITH Versions <- 0..MaxSummaries

ImplementsAudiobook == Listener!Spec

HourlyBegins == work.at = "idle" /\ work'.at # "idle" /\ work'.hourly

\* The hourly job reads the latest week and never works backwards, also when older weeks have
\* been generated again since, as long as they are fewer than it looks at.
HourlyIsNewest ==
    [][LET newest == Max(Documents)
       IN  HourlyBegins /\ Cardinality(GeneratedSince(newest)) < NEWEST_SCAN
              => work'.f[1] = newest]_vars

CutWell(t) ==
    /\ CutsWell(t, chunk_script(t, max_chars), max_chars)
    /\ Len(t) > 1 \/ Paragraph(t, 1).len > max_chars =>
          CutsWell(t, chunk_transcript(t, max_chars), max_chars)

AllCutWell == \A t \in Texts : CutWell(t)

\* Whatever text a digest is about to be rendered to, and whatever transcript (one that is
\* cut is over the budget), the pieces keep within their cap, lose nothing and divide no
\* paragraph that fits.  Every text of the bound is tried where a script is cut; only the
\* number of its chunks matters to the rest.
TextsCutWell == Works("episodes") => AllCutWell

\* What the docstring of _episodes says and the code does not keep: the audio says what the
\* file says.  The ids are the run's, the summaries are today's.
AudioSaysTheFile == \A f \in Files : audio[f] # NONE => audio[f].said = written[f]

\* What the comment in _resolve promises whatever was generated since, and the code keeps
\* for NEWEST_SCAN weeks only.
HourlyNeverWorksBackwards == [][HourlyBegins => work'.f[1] = Max(Documents)]_vars

\* What the module's docstring says of every narration: the note gets its embed (a death
\* before that is never made up for: the audio is there, so nothing is done).
NarrationIsFinished ==
    \A f \in Files : audio[f] # NONE /\ work.at = "idle" => f \in embedded
=============================================================================
