------------------------------ MODULE Acquire -------------------------------
(***************************************************************************)
(* Transcript acquisition (podcast_agent/transcripts/acquire.py) down to   *)
(* the audio file: the three strategies in their order, the download with  *)
(* its resumption (net.py), the transcription backend (transcripts/asr.py) *)
(* and the sweep of left-over audio (retention.py).                        *)
(*                                                                         *)
(* The hourly job and a request of the owner are not excluded from one     *)
(* another, and the file's name depends on the episode only.  A file is    *)
(* the sequence of its chunks, each labelled with the recording it is of:  *)
(* a publisher may replace the enclosure.  Two open handles behave as      *)
(* POSIX says: opening for writing truncates, a write is at the handle's   *)
(* own position (what lies before it is a GAP) or, appending, at the end,  *)
(* and an unlinked file takes its writers with it.                         *)
(***************************************************************************)
EXTENDS FiniteSets, Integers, Sequences

CONSTANTS
    Actors,             \* the hourly job and the owner's request
    Episodes,
    Published,          \* episodes whose feed names a transcript
    Scraped,            \* episodes of a podcast with a transcript selector
    Enclosed,           \* episodes with an audio enclosure of an accepted size
    Chunks,             \* length of a recording
    MaxRecordings,      \* bound of the model: versions of an enclosure
    max_bytes,          \* asr.max_audio_mb, in chunks
    max_resume_attempts,
    download_concurrency,
    asr_concurrency,
    MaxCrashes,         \* bound of the model
    NONE, GAP

ASSUME AcquireAssumption ==
    /\ Published \cup Scraped \cup Enclosed \subseteq Episodes
    /\ {Chunks, MaxRecordings, max_bytes, download_concurrency, asr_concurrency}
          \subseteq Nat \ {0}
    /\ max_resume_attempts \in Nat /\ MaxCrashes \in Nat
    /\ NONE \notin Episodes /\ {NONE, GAP} \cap Nat = {} /\ NONE # GAP

VARIABLES
    recording,  \* recording[e]: the version of the enclosure served now
    audio,      \* audio[e]: the file under work_dir/audio, NONE without one
    old,        \* files not written to for ORPHAN_AUDIO_AGE
    work,       \* work[a]: the local variables of an acquisition
    left,       \* files a crash has left behind
    shared,     \* history: files two acquisitions had, or the sweep took from one,
                \* until one begins without a file or starts it anew by itself
    crashes

vars == <<recording, audio, old, work, left, shared, crashes>>

Recordings == 1..MaxRecordings

ASSUME NoFileAssumption == NONE \notin Seq(Recordings \cup {GAP})

Work == [at        : {"idle", "feed", "scrape", "asr", "queued", "request", "stream",
                      "downloaded", "transcribe"},
         e         : Episodes \cup {NONE},
         allow_asr : BOOLEAN,
         total     : Nat,               \* bytes held when the round began
         position  : Nat,               \* where in the recording the stream is
         attempt   : 0..max_resume_attempts,
         of        : Recordings,        \* the recording streamed
         mode      : {"wb", "ab"},
         attached  : BOOLEAN]           \* the handle's file still has its name

Idle == [at |-> "idle", e |-> NONE, allow_asr |-> FALSE, total |-> 0,
         position |-> 0, attempt |-> 0, of |-> 1, mode |-> "wb", attached |-> FALSE]

AcquireTypeOK ==
    /\ recording \in [Episodes -> Recordings]
    /\ \A e \in Episodes : audio[e] = NONE \/ audio[e] \in Seq(Recordings \cup {GAP})
    /\ old \in SUBSET Episodes
    /\ work \in [Actors -> Work]
    /\ left \in SUBSET Episodes
    /\ shared \in SUBSET Episodes
    /\ crashes \in 0..MaxCrashes

Init ==
    /\ recording = [e \in Episodes |-> 1]
    /\ audio = [e \in Episodes |-> NONE]
    /\ old = {} /\ left = {} /\ shared = {}
    /\ work = [a \in Actors |-> Idle]
    /\ crashes = 0

At(a, place) == work[a].at = place
Goes(a, place) == work' = [work EXCEPT ![a].at = place]
File(a) == audio[work[a].e]
Workers(e) == {a \in Actors : work[a].e = e}

-----------------------------------------------------------------------------
(* The three strategies                                                    *)

\* acquire: the stage decides whether transcription is allowed.
Begin(a, e) ==
    /\ At(a, "idle")
    /\ \E allow_asr \in BOOLEAN :
          work' = [work EXCEPT ![a] = [Idle EXCEPT !.at = "feed", !.e = e,
                                                   !.allow_asr = allow_asr]]
    /\ shared' = IF Workers(e) # {} THEN shared \cup {e}
                 ELSE IF audio[e] = NONE THEN shared \ {e} ELSE shared
    /\ UNCHANGED <<recording, audio, old, left, crashes>>

\* The transcript, or the lack of one, is the caller's affair.
Done(a) == work' = [work EXCEPT ![a] = Idle]

\* _try_feed_transcripts: any of those the feed names may serve; none, the next way.
TryFeed(a) ==
    /\ At(a, "feed")
    /\ \/ work[a].e \in Published /\ Done(a)
       \/ Goes(a, "scrape")
    /\ UNCHANGED <<recording, audio, old, left, shared, crashes>>

TryScrape(a) ==
    /\ At(a, "scrape")
    /\ \/ work[a].e \in Scraped /\ Done(a)
       \/ Goes(a, "asr")
    /\ UNCHANGED <<recording, audio, old, left, shared, crashes>>

\* Transcription is off, or _try_asr returns before it touches a file.
NoAsr(a) ==
    /\ At(a, "asr")
    /\ ~work[a].allow_asr \/ work[a].e \notin Enclosed
    /\ Done(a)
    /\ UNCHANGED <<recording, audio, old, left, shared, crashes>>

TryAsr(a) ==
    /\ At(a, "asr")
    /\ work[a].allow_asr /\ work[a].e \in Enclosed
    /\ Goes(a, "queued")
    /\ UNCHANGED <<recording, audio, old, left, shared, crashes>>

-----------------------------------------------------------------------------
(* The file                                                                *)

\* The name goes; whoever writes to the file, writes to no name any more.
Unlinked(e) == [b \in Actors |-> IF work[b].e = e THEN [work[b] EXCEPT !.attached = FALSE]
                                 ELSE work[b]]

\* Mutant: only a failed download removes the file.
Cleanup_DownloadOnly(a) ==
    LET e == work[a].e IN
    IF At(a, "transcribe")
    THEN work' = [work EXCEPT ![a] = Idle] /\ UNCHANGED <<audio, old, left>>
    ELSE /\ work' = [Unlinked(e) EXCEPT ![a] = Idle]
         /\ audio' = [audio EXCEPT ![e] = NONE]
         /\ old' = old \ {e} /\ left' = left \ {e}

\* The finally clause, keep_audio being off: the file is unlinked if it is there.
Cleanup(a) ==
    LET e == work[a].e IN
    /\ work' = [Unlinked(e) EXCEPT ![a] = Idle]
    /\ audio' = [audio EXCEPT ![e] = NONE]
    /\ old' = old \ {e} /\ left' = left \ {e}

Downloading == {a \in Actors : work[a].at \in {"request", "stream"}}
Transcribing == {a \in Actors : At(a, "transcribe")}

\* async with self._download_sem
StartDownload(a) ==
    /\ At(a, "queued")
    /\ Cardinality(Downloading) < download_concurrency
    /\ Goes(a, "request")
    /\ UNCHANGED <<recording, audio, old, left, shared, crashes>>

\* Mutant: a resumed transfer appends, whatever the server answered.
Respond_AppendsAlways(a, status) ==
    LET resuming == work[a].total > 0 IN
    /\ work' = [work EXCEPT ![a].at = "stream", ![a].of = recording[work[a].e],
                            ![a].attached = TRUE, ![a].mode = IF resuming THEN "ab" ELSE "wb",
                            ![a].position = IF status = 206 THEN work[a].total ELSE 0]
    /\ audio' = [audio EXCEPT ![work[a].e] =
                    IF resuming /\ @ # NONE THEN @ ELSE << >>]

\* _stream_into up to the first chunk: 206 continues where the file ends, 200 starts
\* the recording anew and the file with it.
Respond(a, status) ==
    LET resuming == work[a].total > 0 /\ status = 206 IN
    /\ work' = [work EXCEPT ![a].at = "stream", ![a].of = recording[work[a].e],
                            ![a].attached = TRUE, ![a].mode = IF resuming THEN "ab" ELSE "wb",
                            ![a].position = IF resuming THEN work[a].total ELSE 0]
    /\ audio' = [audio EXCEPT ![work[a].e] =
                    IF resuming /\ @ # NONE THEN @ ELSE << >>]

Request(a) ==
    /\ At(a, "request")
    /\ \E status \in {200, 206} :
          /\ status = 206 => work[a].total \in 1..(Chunks - 1)
          /\ Respond(a, status)
          /\ shared' = IF status = 200 /\ Workers(work[a].e) = {a}
                       THEN shared \ {work[a].e} ELSE shared
    /\ old' = old \ {work[a].e}
    /\ UNCHANGED <<recording, left, crashes>>

\* What a write at position p makes of the file.
Written(file, p, chunk, mode) ==
    IF mode = "ab" THEN Append(file, chunk)
    ELSE [i \in 1..(IF p + 1 > Len(file) THEN p + 1 ELSE Len(file)) |->
             IF i = p + 1 THEN chunk ELSE IF i > Len(file) THEN GAP ELSE file[i]]

\* One chunk; more than max_bytes never gets to the file.
Stream(a) ==
    /\ At(a, "stream")
    /\ work[a].position < Chunks /\ work[a].position < max_bytes
    /\ work' = [work EXCEPT ![a].position = @ + 1]
    /\ audio' = IF ~work[a].attached THEN audio
                ELSE [audio EXCEPT ![work[a].e] =
                         Written(@, work[a].position, work[a].of, work[a].mode)]
    /\ old' = IF work[a].attached THEN old \ {work[a].e} ELSE old
    /\ UNCHANGED <<recording, left, shared, crashes>>

\* Refused by the guard or the server, or larger than the cap.
Refused(a) ==
    /\ \/ At(a, "request")
       \/ At(a, "stream") /\ work[a].position < Chunks /\ work[a].position = max_bytes
    /\ Cleanup(a)
    /\ UNCHANGED <<recording, shared, crashes>>

Held(a) == IF File(a) = NONE THEN 0 ELSE Len(File(a))

\* Mutant: a transfer that was cut short is asked for again, however often.
GivesUp_Never(a) == FALSE

\* No progress, or no attempt left.
GivesUp(a) == Held(a) <= work[a].total \/ work[a].attempt >= max_resume_attempts

\* The server breaks off, at any byte or before the headers: resumed from what the file
\* holds, even one that was there before.
CutShort(a) ==
    /\ At(a, "request") \/ At(a, "stream")
    /\ IF GivesUp(a)
       THEN Cleanup(a)
       ELSE /\ work' = [work EXCEPT ![a] =
                           [Idle EXCEPT !.at = "request", !.e = work[a].e, !.total = Held(a),
                                        !.attempt = IF work[a].attempt < max_resume_attempts
                                                    THEN work[a].attempt + 1
                                                    ELSE work[a].attempt]]
            /\ UNCHANGED <<audio, old, left>>
    /\ UNCHANGED <<recording, shared, crashes>>

Downloaded(a) ==
    /\ At(a, "stream") /\ work[a].position = Chunks
    /\ work' = [work EXCEPT ![a] = [Idle EXCEPT !.at = "downloaded", !.e = work[a].e]]
    /\ UNCHANGED <<recording, audio, old, left, shared, crashes>>

\* async with self._asr_sem
StartAsr(a) ==
    /\ At(a, "downloaded")
    /\ Cardinality(Transcribing) < asr_concurrency
    /\ Goes(a, "transcribe")
    /\ UNCHANGED <<recording, audio, old, left, shared, crashes>>

\* The backend reads the file and answers: a text, or too little of one.
Transcribed(a) ==
    /\ At(a, "transcribe") /\ File(a) # NONE
    /\ Cleanup(a)
    /\ UNCHANGED <<recording, shared, crashes>>

\* Unreachable, refused, no file: ASRUnavailable, the episode stays queued.
BackendFails(a) ==
    /\ At(a, "transcribe")
    /\ Cleanup(a)
    /\ UNCHANGED <<recording, shared, crashes>>

-----------------------------------------------------------------------------
(* Beside it                                                               *)

Replace(e) ==
    /\ e \in Enclosed /\ recording[e] < MaxRecordings
    /\ recording' = [recording EXCEPT ![e] = @ + 1]
    /\ UNCHANGED <<audio, old, work, left, shared, crashes>>

HoursPass(e) ==
    /\ audio[e] # NONE /\ e \notin old
    /\ old' = old \cup {e}
    /\ UNCHANGED <<recording, audio, work, left, shared, crashes>>

Sweepable == old

\* _sweep_orphan_audio: by age alone.
Sweep ==
    /\ Sweepable # {}
    /\ audio' = [e \in Episodes |-> IF e \in Sweepable THEN NONE ELSE audio[e]]
    /\ work' = [a \in Actors |-> IF work[a].e \in Sweepable
                                 THEN [work[a] EXCEPT !.attached = FALSE] ELSE work[a]]
    /\ shared' = shared \cup {e \in Sweepable : Workers(e) # {}}
    /\ old' = old \ Sweepable /\ left' = left \ Sweepable
    /\ UNCHANGED <<recording, crashes>>

Crash ==
    /\ crashes < MaxCrashes
    /\ crashes' = crashes + 1
    /\ work' = [a \in Actors |-> Idle]
    /\ left' = {e \in Episodes : audio[e] # NONE}
    /\ UNCHANGED <<recording, audio, old, shared>>

Step(a) ==
    \/ TryFeed(a) \/ TryScrape(a) \/ NoAsr(a) \/ TryAsr(a)
    \/ StartDownload(a) \/ Request(a) \/ Stream(a) \/ Refused(a)
    \/ CutShort(a) \/ Downloaded(a)
    \/ StartAsr(a) \/ Transcribed(a) \/ BackendFails(a)

Next ==
    \/ \E a \in Actors : Step(a) \/ \E e \in Episodes : Begin(a, e)
    \/ \E e \in Episodes : Replace(e) \/ HoursPass(e)
    \/ Sweep \/ Crash

\* Requests have timeouts, semaphores are handed on in turn, hours pass, and the
\* retention job is scheduled.
Spec ==
    /\ Init /\ [][Next]_vars
    /\ \A a \in Actors : WF_vars(Step(a)) /\ SF_vars(StartDownload(a) \/ StartAsr(a))
    /\ \A e \in Episodes : WF_vars(HoursPass(e))
    /\ WF_vars(Sweep)

-----------------------------------------------------------------------------
(* The promises.                                                           *)

\* "A truncated download can never be handed to the ASR backend" (net.py:450-451),
\* however often it was cut short, before the headers or after, whether or not the server
\* continues it, and whatever a crash left under its name: what is transcribed has the
\* length of a recording and no gap.  Left aside: a file that had a second writer or was
\* swept meanwhile, until it is started anew.
WholeUnlessShared ==
    \A a \in Actors : \A e \in Episodes :
        (At(a, "transcribe") /\ work[a].e = e /\ e \notin shared)
            => audio[e] # NONE /\ Len(audio[e]) = Chunks
               /\ \A i \in 1..Chunks : audio[e][i] # GAP

\* No audio outlives the acquisitions that wanted it, whichever of them ended how and
\* in whatever order, except what a crash left.
NoAudioLeft ==
    \A e \in Episodes : (audio[e] # NONE /\ Workers(e) = {}) => e \in left

\* An acquisition comes to an end, however often its download is cut short and
\* whoever else is after a slot, and what a crash left is swept.
EveryAcquisitionEnds ==
    /\ \A a \in Actors : ~At(a, "idle") ~> At(a, "idle")
    /\ \A e \in Episodes : e \in left ~> e \notin left

\* The same without its exception, and of one recording: "the bytes already written
\* [...] remain valid" (net.py:59-60).  Not so for a file with two writers, one swept
\* while its acquisition waits for the backend, an enclosure that is replaced, or what a
\* crash left and a later acquisition takes for its own (net.py:468-478).
WholeRecordingHeard ==
    \A a \in Actors : At(a, "transcribe") =>
        \E r \in Recordings : File(a) = [i \in 1..Chunks |-> r]

=============================================================================
