---------------------------- MODULE AcquireProofs -----------------------------
(***************************************************************************)
(* Of the audio files, for any actors, episodes and lengths of recordings, *)
(* any number of resumptions, crashes and replaced enclosures: none        *)
(* outlives the acquisitions that wanted it, but what a crash left; and    *)
(* what is transcribed is whole, unless two of them wrote the file.        *)
(***************************************************************************)
EXTENDS Acquire, SequenceTheorems, TLAPS

\* From the first response to the clean-up.
Holding == {"request", "stream", "downloaded", "transcribe"}

Holders(e) == {a \in Actors : work[a].e = e /\ work[a].at \in Holding}

WorkShape ==
    /\ DOMAIN work = Actors /\ DOMAIN audio = Episodes
    /\ \A a \in Actors : DOMAIN work[a] = {"at", "e", "allow_asr", "total", "position", "attempt",
                                           "of", "mode", "attached"}

\* NoAudioLeft alone is not inductive: an acquisition that is still looking for a text
\* would end without cleaning up.  Whoever holds a file is past that.
AudioInv ==
    /\ WorkShape
    /\ \A e \in Episodes : audio[e] # NONE => e \in left \/ Holders(e) # {}

LEMMA AudioInit == Init => AudioInv
BY DEF Init, Idle, AudioInv, WorkShape

\* The clean-up takes the only file its actor holds.
LEMMA CleanupKeeps ==
    ASSUME AudioInv, NEW a \in Actors, Cleanup(a)
    PROVE  AudioInv'
<1>1. WorkShape'
  BY DEF AudioInv, WorkShape, Cleanup, Unlinked, Idle
<1>2. ASSUME NEW e \in Episodes, audio'[e] # NONE, e \notin left'
      PROVE  Holders(e)' # {}
  <2>1. e # work[a].e /\ audio[e] # NONE /\ e \notin left
    BY <1>2 DEF AudioInv, WorkShape, Cleanup
  <2>2. PICK b \in Actors : work[b].e = e /\ work[b].at \in Holding
    BY <2>1 DEF AudioInv, Holders
  <2>3. work'[b] = work[b]
    BY <2>1, <2>2 DEF Cleanup, Unlinked, AudioInv, WorkShape
  <2>q. QED
    BY <2>2, <2>3 DEF Holders
<1>q. QED
  BY <1>1, <1>2 DEF AudioInv

\* No file appears, and whoever holds one goes on holding it.
LEMMA HoldersStay ==
    ASSUME AudioInv, WorkShape', left' = left,
           \A e \in Episodes : audio'[e] # NONE => audio[e] # NONE,
           \A b \in Actors : work[b].at \in Holding
                                => work'[b].e = work[b].e /\ work'[b].at \in Holding
    PROVE  AudioInv'
BY DEF AudioInv, Holders

\* Before a file is held: looking for a text, waiting for a slot.
LEMMA LookingKeeps ==
    ASSUME AudioInv, NEW a \in Actors,
           \/ TryFeed(a) \/ TryScrape(a) \/ NoAsr(a) \/ TryAsr(a)
           \/ StartDownload(a) \/ StartAsr(a)
           \/ \E e \in Episodes : Begin(a, e)
    PROVE  AudioInv'
<1>1. left' = left /\ audio' = audio
  BY DEF TryFeed, TryScrape, NoAsr, TryAsr, StartDownload, StartAsr, Begin
<1>2. CASE \E place \in {"scrape", "asr", "queued", "request", "transcribe"} :
                /\ Goes(a, place)
                /\ At(a, "downloaded") => place \in Holding
                /\ work[a].at \notin {"request", "stream", "transcribe"}
  <2>1. WorkShape'
    BY <1>1, <1>2 DEF AudioInv, WorkShape, Goes
  <2>2. \A b \in Actors : work[b].at \in Holding
                             => work'[b].e = work[b].e /\ work'[b].at \in Holding
    BY <1>2 DEF AudioInv, WorkShape, Goes, At, Holding
  <2>q. QED
    BY <1>1, <2>1, <2>2, HoldersStay
<1>3. CASE /\ work[a].at \notin Holding
           /\ \/ Done(a)
              \/ \E e \in Episodes, allow_asr \in BOOLEAN :
                    work' = [work EXCEPT ![a] = [Idle EXCEPT !.at = "feed", !.e = e,
                                                             !.allow_asr = allow_asr]]
  <2>1. WorkShape'
    BY <1>1, <1>3 DEF AudioInv, WorkShape, Done, Idle
  <2>2. \A b \in Actors : work[b].at \in Holding => work'[b] = work[b]
    BY <1>3 DEF AudioInv, WorkShape, Done
  <2>q. QED
    BY <1>1, <2>1, <2>2, HoldersStay
<1>q. QED
  BY <1>2, <1>3 DEF TryFeed, TryScrape, NoAsr, TryAsr, StartDownload, StartAsr,
                    Begin, At, Holding

\* The file is opened and written to by an acquisition that holds it.
LEMMA DownloadKeeps ==
    ASSUME AudioInv, NEW a \in Actors, Request(a) \/ Stream(a)
    PROVE  AudioInv'
<1>1. WorkShape' /\ left' = left
  BY DEF AudioInv, WorkShape, Request, Respond, Stream
<1>2. work'[a].e = work[a].e /\ work'[a].at \in Holding
  BY DEF AudioInv, WorkShape, Request, Respond, Stream, At, Holding
<1>3. \A b \in Actors \ {a} : work'[b] = work[b]
  BY DEF AudioInv, WorkShape, Request, Respond, Stream
<1>4. \A e \in Episodes : e # work[a].e => audio'[e] = audio[e]
  BY DEF AudioInv, WorkShape, Request, Respond, Stream
<1>5. ASSUME NEW e \in Episodes, audio'[e] # NONE, e \notin left'
      PROVE  Holders(e)' # {}
  <2>1. CASE e = work[a].e
    BY <2>1, <1>2 DEF Holders
  <2>2. CASE e # work[a].e
    BY <2>2, <1>1, <1>3, <1>4, <1>5 DEF Holders, AudioInv
  <2>q. QED
    BY <2>1, <2>2
<1>q. QED
  BY <1>1, <1>5 DEF AudioInv

\* A transfer ends, or goes back to the request: the file stays its acquisition's.
LEMMA CutShortKeeps ==
    ASSUME AudioInv, NEW a \in Actors, CutShort(a) \/ Downloaded(a)
    PROVE  AudioInv'
<1>1. CASE CutShort(a) /\ GivesUp(a)
  BY <1>1, CleanupKeeps DEF CutShort
<1>2. CASE (CutShort(a) /\ ~GivesUp(a)) \/ Downloaded(a)
  <2>1. WorkShape' /\ left' = left /\ audio' = audio
    BY <1>2 DEF AudioInv, WorkShape, CutShort, Downloaded, Idle
  <2>2. work'[a].e = work[a].e /\ work'[a].at \in {"request", "downloaded"}
    BY <1>2 DEF AudioInv, WorkShape, CutShort, Downloaded, Idle
  <2>3. \A b \in Actors \ {a} : work'[b] = work[b]
    BY <1>2 DEF AudioInv, WorkShape, CutShort, Downloaded
  <2>4. \A b \in Actors : work[b].at \in Holding
                             => work'[b].e = work[b].e /\ work'[b].at \in Holding
    BY <2>2, <2>3 DEF Holding
  <2>q. QED
    BY <2>1, <2>4, HoldersStay
<1>q. QED
  BY <1>1, <1>2

\* The sweep takes files only; a crash counts what it leaves.
LEMMA BesideKeeps ==
    ASSUME AudioInv,
           \/ Sweep \/ Crash \/ UNCHANGED vars
           \/ \E e \in Episodes : Replace(e) \/ HoursPass(e)
    PROVE  AudioInv'
<1>1. CASE Crash
  BY <1>1 DEF AudioInv, WorkShape, Crash, Idle
<1>2. CASE UNCHANGED vars \/ \E e \in Episodes : Replace(e) \/ HoursPass(e)
  BY <1>2 DEF AudioInv, WorkShape, Holders, vars, Replace, HoursPass
<1>3. CASE Sweep
  <2>1. WorkShape'
    BY <1>3 DEF AudioInv, WorkShape, Sweep
  <2>2. \A b \in Actors : work'[b].e = work[b].e /\ work'[b].at = work[b].at
    BY <1>3 DEF AudioInv, WorkShape, Sweep
  <2>3. \A e \in Episodes : audio'[e] # NONE =>
            audio[e] # NONE /\ (e \in left => e \in left')
    BY <1>3 DEF AudioInv, WorkShape, Sweep
  <2>q. QED
    BY <2>1, <2>2, <2>3 DEF AudioInv, Holders
<1>q. QED
  BY <1>1, <1>2, <1>3

LEMMA AudioStep == AudioInv /\ [Next]_vars => AudioInv'
<1> SUFFICES ASSUME AudioInv, [Next]_vars PROVE AudioInv'
  OBVIOUS
<1>1. ASSUME NEW a \in Actors, Refused(a) \/ Transcribed(a) \/ BackendFails(a)
      PROVE  AudioInv'
  BY <1>1, CleanupKeeps DEF Refused, Transcribed, BackendFails
<1>q. QED
  BY <1>1, LookingKeeps, DownloadKeeps, CutShortKeeps, BesideKeeps DEF Next, Step

\* Every file belongs to an acquisition under way or was left by a crash, for any number
\* of acquisitions of one episode, ended in any way and order (acquire.py:348-352).
THEOREM AudioIsCleanedUp == Spec => []NoAudioLeft
<1>1. AudioInv => NoAudioLeft
  BY DEF AudioInv, NoAudioLeft, Holders, Workers
<1>q. QED
  BY <1>1, AudioInit, AudioStep, PTL DEF Spec
-----------------------------------------------------------------------------
(* What is transcribed                                                     *)

\* A file that holds the first n chunks of recordings and no gap.
Whole(f, n) == f # NONE /\ f \in Seq(Recordings) /\ Len(f) = n

\* A file nobody else had a hand in, whichever acquisition left it.
Sound(f) == f = NONE \/ \E n \in 0..Chunks : Whole(f, n)

\* The file an acquisition has, at every point of its download.
FileFits(w, f) ==
    /\ w.at \in {"feed", "scrape", "asr", "queued"} => w.total = 0
    /\ w.at = "request" => w.total = 0 \/ Whole(f, w.total)
    /\ w.at = "stream" => /\ w.attached /\ w.of \in Recordings
                          /\ w.position \in 0..Chunks
                          /\ Whole(f, w.position)
    /\ w.at \in {"downloaded", "transcribe"} => Whole(f, Chunks)

Seated ==
    \A a \in Actors : /\ work[a].e \in Episodes \cup {NONE}
                      /\ work[a].e = NONE <=> work[a].at = "idle"

\* A file nobody else had a hand in has one acquisition, and fits it.
Alone == \A e \in Episodes \ shared : \A a, b \in Workers(e) : a = b

WholeInv ==
    /\ WorkShape
    /\ recording \in [Episodes -> Recordings]
    /\ Seated
    /\ Alone
    /\ \A e \in Episodes \ shared : Sound(audio[e])
    /\ \A a \in Actors : work[a].e \in Episodes \ shared => FileFits(work[a], File(a))

LEMMA EmptyWhole == Whole(<< >>, 0)
<1>1. << >> \in Seq(Recordings) /\ << >> \in Seq(Recordings \cup {GAP})
  BY EmptySeq
<1>q. QED
  BY <1>1, EmptySeq, NoFileAssumption DEF Whole

\* The next chunk, at the end of a whole file, makes it whole and one longer, whatever the
\* mode the file was opened in.
LEMMA WrittenWhole ==
    ASSUME NEW n \in Nat, NEW f, Whole(f, n), NEW r \in Recordings, NEW mode
    PROVE  Whole(Written(f, n, r, mode), n + 1)
<1> DEFINE g == Written(f, n, r, mode)
<1>1. f \in Seq(Recordings) /\ Len(f) = n
  BY DEF Whole
<1>2. g \in Seq(Recordings) /\ Len(g) = n + 1
  <2>1. CASE mode = "ab"
    BY <1>1, <2>1, AppendProperties DEF Written
  <2>2. CASE mode # "ab"
    <3>1. \A i \in 1..n : f[i] \in Recordings
      BY <1>1, ElementOfSeq
    <3>2. g = [i \in 1..(n + 1) |-> IF i = n + 1 THEN r ELSE IF i > n THEN GAP ELSE f[i]]
      BY <1>1, <2>2 DEF Written
    <3>3. g \in [1..(n + 1) -> Recordings]
      BY <3>1, <3>2
    <3>4. g \in Seq(Recordings)
      BY <3>3, SeqDef
    <3>5. DOMAIN g = 1..Len(g) /\ Len(g) \in Nat
      BY <3>4, LenProperties
    <3>q. QED
      BY <3>3, <3>4, <3>5
  <2>q. QED
    BY <2>1, <2>2
<1>3. g # NONE
  BY <1>2, SeqMonotonic, NoFileAssumption
<1>q. QED
  BY <1>2, <1>3 DEF Whole

LEMMA WholeInit == Init => WholeInv
BY AcquireAssumption
   DEF Init, Idle, Recordings, WholeInv, WorkShape, Seated, Alone, Workers, Sound, FileFits

\* One acquisition goes on with its own file, or starts one that had been shared anew.
LEMMA GoesOnWhole ==
    ASSUME WholeInv, NEW a \in Actors, recording' = recording, WorkShape',
           \/ shared' = shared
           \/ shared' = shared \ {work[a].e} /\ Workers(work[a].e) = {a},
           \A b \in Actors \ {a} : work'[b] = work[b],
           \A e \in Episodes : e # work[a].e => audio'[e] = audio[e],
           work'[a].e = work[a].e, work[a].at # "idle", work'[a].at # "idle",
           work[a].e \in Episodes \ shared' =>
              FileFits(work'[a], audio'[work[a].e]) /\ Sound(audio'[work[a].e])
    PROVE  WholeInv'
<1>1. Seated'
  BY DEF WholeInv, Seated
<1>2. Alone'
  <2>1. \A e \in Episodes : Workers(e)' = Workers(e)
    BY DEF Workers
  <2> QED
    BY <2>1 DEF WholeInv, Alone
<1>3. ASSUME NEW b \in Actors, work'[b].e \in Episodes \ shared'
      PROVE  FileFits(work'[b], File(b)')
  <2>1. CASE b = a
    BY <1>3, <2>1 DEF File
  <2>2. CASE b # a
    <3>1. work'[b] = work[b] /\ work[b].e \in Episodes \ shared'
      BY <1>3, <2>2
    <3>2. work[b].e # work[a].e /\ work[b].e \notin shared
      BY <2>2, <3>1 DEF WholeInv, Alone, Workers
    <3>q. QED
      BY <3>1, <3>2 DEF WholeInv, File
  <2>q. QED
    BY <2>1, <2>2
<1>4. ASSUME NEW e \in Episodes \ shared' PROVE Sound(audio'[e])
  BY <1>4 DEF WholeInv
<1>q. QED
  BY <1>1, <1>2, <1>3, <1>4 DEF WholeInv

\* One acquisition ends, and takes its file with it or leaves it.
LEMMA EndsWhole ==
    ASSUME WholeInv, NEW a \in Actors, UNCHANGED <<recording, shared>>, WorkShape',
           work'[a] = Idle,
           \A b \in Actors \ {a} : /\ work'[b].e = work[b].e /\ work'[b].at = work[b].at
                                   /\ work[b].e # work[a].e => work'[b] = work[b],
           \A e \in Episodes : audio'[e] = audio[e] \/ (audio'[e] = NONE /\ e = work[a].e)
    PROVE  WholeInv'
<1>0. NONE \notin Episodes
  BY AcquireAssumption
<1>1. Seated'
  BY <1>0 DEF WholeInv, Seated, Idle
<1>2. Alone'
  BY <1>0 DEF WholeInv, Alone, Workers, Idle
<1>3. ASSUME NEW b \in Actors, work'[b].e \in Episodes \ shared'
      PROVE  FileFits(work'[b], File(b)')
  <2>1. b # a
    BY <1>0, <1>3 DEF Idle
  <2>2. work[b].e \in Episodes \ shared
    BY <1>3, <2>1
  <2>3. CASE work[b].e = work[a].e
    BY <2>1, <2>2, <2>3 DEF WholeInv, Alone, Workers
  <2>4. CASE work[b].e # work[a].e
    BY <2>1, <2>2, <2>4 DEF WholeInv, File
  <2>q. QED
    BY <2>3, <2>4
<1>4. \A e \in Episodes \ shared' : Sound(audio'[e])
  BY DEF WholeInv, Sound
<1>q. QED
  BY <1>1, <1>2, <1>3, <1>4 DEF WholeInv

LEMMA CleanupWhole ==
    ASSUME WholeInv, NEW a \in Actors, Cleanup(a), UNCHANGED <<recording, shared>>
    PROVE  WholeInv'
<1>1. WorkShape'
  BY DEF WholeInv, WorkShape, Cleanup, Unlinked, Idle
<1>2. work'[a] = Idle
  BY DEF WholeInv, WorkShape, Cleanup, Unlinked
<1>3. \A b \in Actors \ {a} : /\ work'[b].e = work[b].e /\ work'[b].at = work[b].at
                              /\ work[b].e # work[a].e => work'[b] = work[b]
  BY DEF WholeInv, WorkShape, Cleanup, Unlinked
<1>4. \A e \in Episodes : audio'[e] = audio[e] \/ (audio'[e] = NONE /\ e = work[a].e)
  BY DEF WholeInv, WorkShape, Cleanup
<1>q. QED
  BY <1>1, <1>2, <1>3, <1>4, EndsWhole

LEMMA DoneWhole ==
    ASSUME WholeInv, NEW a \in Actors, Done(a), UNCHANGED <<recording, shared, audio>>
    PROVE  WholeInv'
<1>1. WorkShape' /\ work'[a] = Idle /\ \A b \in Actors \ {a} : work'[b] = work[b]
  BY DEF WholeInv, WorkShape, Done, Idle
<1>q. QED
  BY <1>1, EndsWhole

\* An acquisition begins: by itself and without a file, it begins anew.
LEMMA BeginWhole ==
    ASSUME WholeInv, NEW a \in Actors, NEW e \in Episodes, Begin(a, e)
    PROVE  WholeInv'
<1>1. /\ UNCHANGED <<recording, audio>> /\ WorkShape'
      /\ work[a].at = "idle" /\ work'[a].at = "feed" /\ work'[a].e = e /\ work'[a].total = 0
      /\ \A b \in Actors \ {a} : work'[b] = work[b]
      /\ shared' = IF Workers(e) # {} THEN shared \cup {e}
                   ELSE IF audio[e] = NONE THEN shared \ {e} ELSE shared
  BY DEF Begin, At, WholeInv, WorkShape, Idle
<1>2. Seated'
  BY <1>1, AcquireAssumption DEF WholeInv, Seated
<1>3. Alone'
  <2> SUFFICES ASSUME NEW f \in Episodes \ shared', NEW b \in Workers(f)', NEW c \in Workers(f)'
               PROVE  b = c
    BY DEF Alone
  <2>1. CASE f = e
    BY <1>1, <2>1 DEF Workers
  <2>2. CASE f # e
    BY <1>1, <2>2 DEF WholeInv, Alone, Workers
  <2>q. QED
    BY <2>1, <2>2
<1>4. ASSUME NEW b \in Actors, work'[b].e \in Episodes \ shared'
      PROVE  FileFits(work'[b], File(b)')
  <2>1. CASE b = a
    BY <1>1, <2>1 DEF FileFits
  <2>2. CASE b # a /\ work[b].e # e
    BY <1>1, <1>4, <2>2 DEF WholeInv, File
  <2>3. CASE b # a /\ work[b].e = e
    BY <1>1, <1>4, <2>3 DEF Workers
  <2>q. QED
    BY <2>1, <2>2, <2>3
<1>5. \A f \in Episodes \ shared' : Sound(audio'[f])
  BY <1>1 DEF WholeInv, Sound
<1>q. QED
  BY <1>1, <1>2, <1>3, <1>4, <1>5 DEF WholeInv

\* Looking for a text, waiting for a slot, handing over: the file stays what it is.
LEMMA PlaceWhole ==
    ASSUME WholeInv, NEW a \in Actors, NEW place, Goes(a, place),
           UNCHANGED <<recording, shared, audio>>,
           work[a].at # "idle", place # "idle",
           \/ place \in {"scrape", "asr", "queued"} /\ work[a].at \in {"feed", "scrape", "asr"}
           \/ place = "request" /\ work[a].at = "queued"
           \/ place = "transcribe" /\ work[a].at = "downloaded"
    PROVE  WholeInv'
<1>1. /\ WorkShape' /\ \A b \in Actors \ {a} : work'[b] = work[b]
      /\ work'[a].e = work[a].e /\ work'[a].at = place /\ work'[a].total = work[a].total
  BY DEF WholeInv, WorkShape, Goes
<1>2. work[a].e \in Episodes \ shared =>
         FileFits(work'[a], audio'[work[a].e]) /\ Sound(audio'[work[a].e])
  BY <1>1 DEF WholeInv, FileFits, File
<1>q. QED
  BY <1>1, <1>2, GoesOnWhole

\* The stream has come to its end, and the file with it.
LEMMA DownloadedWhole ==
    ASSUME WholeInv, NEW a \in Actors, Downloaded(a)
    PROVE  WholeInv'
<1>1. /\ UNCHANGED <<recording, shared, audio>> /\ WorkShape'
      /\ work[a].at = "stream" /\ work[a].position = Chunks
      /\ \A b \in Actors \ {a} : work'[b] = work[b]
      /\ work'[a].e = work[a].e /\ work'[a].at = "downloaded"
  BY DEF Downloaded, At, WholeInv, WorkShape, Idle
<1>2. work[a].e \in Episodes \ shared =>
         FileFits(work'[a], audio'[work[a].e]) /\ Sound(audio'[work[a].e])
  BY <1>1 DEF WholeInv, FileFits, File
<1>q. QED
  BY <1>1, <1>2, GoesOnWhole

LEMMA LookingWhole ==
    ASSUME WholeInv, NEW a \in Actors,
           \/ TryFeed(a) \/ TryScrape(a) \/ NoAsr(a) \/ TryAsr(a)
           \/ StartDownload(a) \/ StartAsr(a)
    PROVE  WholeInv'
<1>1. UNCHANGED <<recording, shared, audio>>
  BY DEF TryFeed, TryScrape, NoAsr, TryAsr, StartDownload, StartAsr
<1>2. CASE Done(a)
  BY <1>1, <1>2, DoneWhole
<1>3. CASE \/ TryFeed(a) /\ Goes(a, "scrape")
           \/ TryScrape(a) /\ Goes(a, "asr")
           \/ TryAsr(a)
  BY <1>1, <1>3, PlaceWhole DEF TryFeed, TryScrape, TryAsr, At
<1>4. CASE StartDownload(a) \/ StartAsr(a)
  BY <1>1, <1>4, PlaceWhole DEF StartDownload, StartAsr, At
<1>q. QED
  BY <1>2, <1>3, <1>4 DEF TryFeed, TryScrape, NoAsr

\* The server continues what the file holds, or starts the recording and the file anew.
LEMMA RequestWhole ==
    ASSUME WholeInv, NEW a \in Actors, Request(a)
    PROVE  WholeInv'
<1>1. PICK status \in {200, 206} :
         /\ status = 206 => work[a].total \in 1..(Chunks - 1)
         /\ Respond(a, status)
         /\ shared' = IF status = 200 /\ Workers(work[a].e) = {a}
                      THEN shared \ {work[a].e} ELSE shared
  BY DEF Request
<1> DEFINE resuming == work[a].total > 0 /\ status = 206
<1>2. /\ recording' = recording /\ work[a].at = "request"
      /\ work[a].e \in Episodes
  BY AcquireAssumption DEF Request, At, WholeInv, Seated
<1>3. /\ WorkShape'
      /\ work'[a].at = "stream" /\ work'[a].e = work[a].e /\ work'[a].attached = TRUE
      /\ work'[a].of = recording[work[a].e]
      /\ work'[a].position = IF resuming THEN work[a].total ELSE 0
      /\ \A b \in Actors \ {a} : work'[b] = work[b]
      /\ audio'[work[a].e] = IF resuming /\ File(a) # NONE THEN File(a) ELSE << >>
      /\ \A e \in Episodes : e # work[a].e => audio'[e] = audio[e]
  BY <1>1, <1>2 DEF Respond, WholeInv, WorkShape, File
<1>4. ASSUME work[a].e \in Episodes \ shared'
      PROVE  FileFits(work'[a], audio'[work[a].e]) /\ Sound(audio'[work[a].e])
  <2>1. work'[a].of \in Recordings
    BY <1>2, <1>3 DEF WholeInv
  <2>2. CASE resuming
    <3>1. work[a].e \notin shared
      BY <1>1, <1>4, <2>2
    <3>2. Whole(File(a), work[a].total)
      BY <1>2, <2>2, <3>1 DEF WholeInv, FileFits
    <3>3. work'[a].position = work[a].total /\ work[a].total \in 0..Chunks
      BY <1>1, <1>3, <2>2, AcquireAssumption
    <3>4. audio'[work[a].e] = File(a)
      BY <1>3, <2>2, <3>2 DEF Whole
    <3>q. QED
      BY <1>3, <2>1, <3>2, <3>3, <3>4 DEF FileFits, Sound
  <2>3. CASE ~resuming
    <3>1. audio'[work[a].e] = << >> /\ work'[a].position = 0 /\ 0 \in 0..Chunks
      BY <1>3, <2>3, AcquireAssumption
    <3>q. QED
      BY <1>3, <2>1, <3>1, EmptyWhole DEF FileFits, Sound
  <2>q. QED
    BY <2>2, <2>3
<1>q. QED
  BY <1>1, <1>2, <1>3, <1>4, GoesOnWhole

LEMMA StreamWhole ==
    ASSUME WholeInv, NEW a \in Actors, Stream(a)
    PROVE  WholeInv'
<1>1. /\ UNCHANGED <<recording, shared>> /\ work[a].at = "stream"
      /\ work[a].position < Chunks
      /\ work' = [work EXCEPT ![a].position = @ + 1]
  BY DEF Stream, At
<1>2. /\ WorkShape'
      /\ work'[a].at = "stream" /\ work'[a].e = work[a].e
      /\ work'[a].attached = work[a].attached /\ work'[a].of = work[a].of
      /\ work'[a].position = work[a].position + 1
      /\ \A b \in Actors \ {a} : work'[b] = work[b]
      /\ \A e \in Episodes : e # work[a].e => audio'[e] = audio[e]
  BY <1>1 DEF Stream, WholeInv, WorkShape
<1>3. ASSUME work[a].e \in Episodes \ shared
      PROVE  FileFits(work'[a], audio'[work[a].e]) /\ Sound(audio'[work[a].e])
  <2>1. /\ work[a].attached /\ work[a].of \in Recordings /\ work[a].position \in 0..Chunks
        /\ Whole(File(a), work[a].position)
    BY <1>1, <1>3 DEF WholeInv, FileFits
  <2>2. audio'[work[a].e] = Written(File(a), work[a].position, work[a].of, work[a].mode)
    BY <1>3, <2>1 DEF Stream, WholeInv, WorkShape, File
  <2>3. work[a].position \in Nat /\ work'[a].position \in 0..Chunks
    BY <1>1, <1>2, <2>1, AcquireAssumption
  <2>4. Whole(audio'[work[a].e], work'[a].position)
    BY <1>2, <2>1, <2>2, <2>3, WrittenWhole
  <2>q. QED
    BY <1>2, <2>1, <2>3, <2>4 DEF FileFits, Sound
<1>q. QED
  BY <1>1, <1>2, <1>3, GoesOnWhole

\* Resumed from what the file holds, whichever acquisition wrote it.
LEMMA CutShortWhole ==
    ASSUME WholeInv, NEW a \in Actors, CutShort(a)
    PROVE  WholeInv'
<1>0. UNCHANGED <<recording, shared>> /\ work[a].at \in {"request", "stream"}
  BY DEF CutShort, At
<1>1. CASE GivesUp(a)
  BY <1>0, <1>1, CleanupWhole DEF CutShort
<1>2. CASE ~GivesUp(a)
  <2> DEFINE again == IF work[a].attempt < max_resume_attempts THEN work[a].attempt + 1
                      ELSE work[a].attempt
             resumed == [Idle EXCEPT !.at = "request", !.e = work[a].e, !.total = Held(a),
                                     !.attempt = again]
  <2>3. /\ audio' = audio /\ work' = [work EXCEPT ![a] = resumed]
        /\ DOMAIN audio = Episodes /\ DOMAIN work = Actors
    BY <1>2 DEF CutShort, WholeInv, WorkShape
  <2>4. /\ DOMAIN resumed = DOMAIN Idle
        /\ resumed.at = "request" /\ resumed.e = work[a].e /\ resumed.total = Held(a)
    BY DEF Idle
  <2> HIDE DEF resumed
  <2>1. /\ audio' = audio /\ WorkShape'
        /\ work'[a].at = "request" /\ work'[a].e = work[a].e /\ work'[a].total = Held(a)
        /\ \A b \in Actors \ {a} : work'[b] = work[b]
    <3>1. DOMAIN Idle = {"at", "e", "allow_asr", "total", "position", "attempt",
                         "of", "mode", "attached"}
      BY DEF Idle
    <3>q. QED
      BY <2>3, <2>4, <3>1 DEF WholeInv, WorkShape
  <2>2. ASSUME work[a].e \in Episodes \ shared
        PROVE  FileFits(work'[a], audio'[work[a].e]) /\ Sound(audio'[work[a].e])
    <3>1. Sound(File(a))
      BY <2>2 DEF WholeInv, File
    <3>2. Held(a) = 0 \/ Whole(File(a), Held(a))
      BY <3>1 DEF Held, Sound, Whole
    <3>q. QED
      BY <2>1, <3>1, <3>2 DEF FileFits, File
  <2>q. QED
    BY <1>0, <2>1, <2>2, GoesOnWhole
<1>q. QED
  BY <1>1, <1>2

LEMMA BesideWhole ==
    ASSUME WholeInv,
           \/ Sweep \/ Crash \/ UNCHANGED vars
           \/ \E e \in Episodes : Replace(e) \/ HoursPass(e)
    PROVE  WholeInv'
<1>1. CASE Crash
  <2>1. /\ \A a \in Actors : work'[a] = Idle
        /\ WorkShape' /\ UNCHANGED <<recording, shared, audio>>
    BY <1>1 DEF Crash, WholeInv, WorkShape, Idle
  <2>q. QED
    BY <2>1, AcquireAssumption DEF WholeInv, Seated, Alone, Workers, Idle
<1>2. CASE UNCHANGED <<work, audio, shared>> /\ recording' \in [Episodes -> Recordings]
  BY <1>2 DEF WholeInv, WorkShape, Seated, Alone, Workers, File
<1>3. ASSUME NEW e \in Episodes, Replace(e)
      PROVE  UNCHANGED <<work, audio, shared>> /\ recording' \in [Episodes -> Recordings]
  BY <1>3, AcquireAssumption DEF Replace, WholeInv, Recordings
<1>4. (UNCHANGED vars \/ \E e \in Episodes : HoursPass(e)) =>
          UNCHANGED <<work, audio, shared>> /\ recording' \in [Episodes -> Recordings]
  BY DEF vars, HoursPass, WholeInv
<1>5. CASE Sweep
  <2>1. /\ recording' = recording /\ WorkShape'
        /\ \A a \in Actors : /\ work'[a].e = work[a].e /\ work'[a].at = work[a].at
                             /\ work[a].e \notin old => work'[a] = work[a]
        /\ \A e \in Episodes : audio'[e] = IF e \in old THEN NONE ELSE audio[e]
        /\ \A e \in Episodes \ shared' : e \notin shared /\ (e \in old => Workers(e) = {})
    BY <1>5 DEF Sweep, Sweepable, WholeInv, WorkShape
  <2>2. Seated' /\ Alone'
    BY <2>1 DEF WholeInv, Seated, Alone, Workers
  <2>3. ASSUME NEW a \in Actors, work'[a].e \in Episodes \ shared'
        PROVE  FileFits(work'[a], File(a)')
    <3>1. work[a].e \in Episodes \ shared /\ work[a].e \notin old
      BY <2>1, <2>3 DEF Workers
    <3>q. QED
      BY <2>1, <3>1 DEF WholeInv, File
  <2>4. \A e \in Episodes \ shared' : Sound(audio'[e])
    BY <2>1 DEF WholeInv, Sound
  <2>q. QED
    BY <2>1, <2>2, <2>3, <2>4 DEF WholeInv
<1>q. QED
  BY <1>1, <1>2, <1>3, <1>4, <1>5

LEMMA WholeStep == WholeInv /\ [Next]_vars => WholeInv'
<1> SUFFICES ASSUME WholeInv, [Next]_vars PROVE WholeInv'
  OBVIOUS
<1>1. ASSUME NEW a \in Actors, Refused(a) \/ Transcribed(a) \/ BackendFails(a)
      PROVE  WholeInv'
  BY <1>1, CleanupWhole DEF Refused, Transcribed, BackendFails
<1>q. QED
  BY <1>1, LookingWhole, DownloadedWhole, BeginWhole, RequestWhole, StreamWhole, CutShortWhole, BesideWhole
     DEF Next, Step

\* However often a download is cut short, before the headers or after, whether the server
\* continues it or starts anew, and whatever a crash left under the same name: what the
\* backend is given has the length of a recording and no gap, unless the file had a second
\* writer or was swept meanwhile and has not been started anew since (net.py:450-478).
THEOREM NothingTruncatedIsHeard == Spec => []WholeUnlessShared
<1>1. WholeInv => WholeUnlessShared
  <2> SUFFICES ASSUME WholeInv, NEW a \in Actors, NEW e \in Episodes,
                      At(a, "transcribe"), work[a].e = e, e \notin shared
               PROVE  /\ audio[e] # NONE /\ Len(audio[e]) = Chunks
                      /\ \A i \in 1..Chunks : audio[e][i] # GAP
    BY DEF WholeUnlessShared
  <2>1. Whole(audio[e], Chunks)
    BY DEF WholeInv, FileFits, At, File
  <2>2. GAP \notin Recordings
    BY AcquireAssumption DEF Recordings
  <2>3. \A i \in 1..Chunks : audio[e][i] \in Recordings
    BY <2>1, ElementOfSeq DEF Whole
  <2>q. QED
    BY <2>1, <2>2, <2>3 DEF Whole
<1>q. QED
  BY WholeInit, WholeStep, <1>1, PTL DEF Spec

=============================================================================
