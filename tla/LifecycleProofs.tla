--------------------------- MODULE LifecycleProofs ----------------------------
(***************************************************************************)
(* Of an episode's life, for any episodes, order of publication, queue     *)
(* sizes and budgets, any weeks, and any number of crashes, refused writes *)
(* and requests.                                                           *)
(*                                                                         *)
(* The first part is about the pipeline job alone.  The promises of        *)
(* PipelineProps are not inductive.  They hold because of what a run knows *)
(* of the document it is at: PipelineInv says that every copy in the queue *)
(* is still the document, except at the head, where it differs by exactly  *)
(* the writes made since.                                                  *)
(*                                                                         *)
(* The second part is about the pipeline, the weekly digest and the        *)
(* owner's requests over the same documents: what a claim, what PUBLISHED  *)
(* and what a stage's status stand for, and, without the owner, that a     *)
(* marking called complete is.  Only the marking loop of a digest claims   *)
(* an episode, and only for a file it has written before; everybody else   *)
(* keeps a claim or clears it.  The two who put an episode at PUBLISHED    *)
(* have its listing in hand, the digest from its file, the on-demand run   *)
(* from the document it met when it started.  The last part maps every     *)
(* step to one of the ledger: a digest's file, its document, its claims.   *)
(***************************************************************************)
EXTENDS Lifecycle, TLAPS

-----------------------------------------------------------------------------
(* The pipeline job alone                                                  *)

\* What holds of every stored document, whatever runs and crashes went before.
Sound(d) ==
    /\ d.status = "TRANSCRIBED" => d.text
    /\ d.status \in {"SUMMARIZED", "READY_FOR_DIGEST", "SCORED_LOW"} => d.tier1 # NONE
    /\ d.status = "READY_FOR_DIGEST" => d.tier1 = "high"
    /\ d.status = "SCORED_LOW" => d.tier1 = "low"
    /\ d.crashes <= CrashBudget
    /\ d.attempts <= MaxRetries \/ d.attempts <= 1
    /\ d.status \in {"NEW", "TRIAGED"} => d.attempts = 0
    /\ d.status = "AWAITING_TRANSCRIPT" => d.attempts = 0 \/ d.attempts < MaxRetries

DocsSound == \A e \in Episodes : Sound(doc[e]) /\ deaths[e] <= doc[e].crashes

\* Every copy in the queue is the document, but for the one being worked on.
CopiesCurrent ==
    \A e \in todo : snap[e] = doc[e] \/ (pc # "next" /\ AtHead(e))

\* The queue of a stage holds episodes in that stage's status.
QueueFits ==
    \A e \in todo :
        /\ stage = "triage" => snap[e].status = "NEW"
        /\ stage = "dispatch" => snap[e].status = "TRIAGED"
        /\ stage = "transcripts" => snap[e].status = "AWAITING_TRANSCRIPT"

\* Only two stages leave an episode half done.
PcFits ==
    /\ pc \in {"acquiring", "saving"} => stage = "transcripts"
    /\ pc = "classify" => stage = "summarize"

\* What the stage knows of the document it is in the middle of.
HeadKnown ==
    \A e \in Episodes :
        AtHead(e) =>
            /\ pc \in {"acquiring", "saving"} =>
                  /\ doc[e].status = "AWAITING_TRANSCRIPT"
                  /\ doc[e].attempts = snap[e].attempts
                  /\ doc[e].crashes = snap[e].crashes + 1
                  /\ deaths[e] <= snap[e].crashes
            /\ pc = "saving" => doc[e].text
            /\ pc = "classify" => /\ doc[e].tier1 = scored
                                  /\ scored \in Score

PipelineInv ==
    /\ PipelineTypeOK
    /\ DocsSound
    /\ CopiesCurrent
    /\ QueueFits
    /\ PcFits
    /\ HeadKnown

-----------------------------------------------------------------------------
\* The stage is at one episode only.
LEMMA OneHead ==
    ASSUME NEW e \in Episodes, NEW f \in Episodes, AtHead(e), AtHead(f)
    PROVE  e = f
BY PipelineAssumption DEF AtHead

\* The routing rule answers with a route, and every route leads to a status.
LEMMA Routes ==
    ASSUME NEW a, NEW c, NEW v, NEW r \in Route
    PROVE  /\ DecideRoute(a, c, v) \in Route
           /\ RouteTarget[r] \in {"DROPPED", "DIGEST_DIRECT", "AWAITING_TRANSCRIPT"}
BY DEF DecideRoute, Route, RouteTarget

\* A transition changes one document, to its payload with the new status.
LEMMA TransitionEffect ==
    ASSUME doc \in [Episodes -> Doc], NEW e \in Episodes,
           NEW s \in EpisodeStatus, NEW d \in Doc, Transition(e, s, d)
    PROVE  /\ doc' \in [Episodes -> Doc]
           /\ doc'[e] = [d EXCEPT !.status = s]
           /\ \A f \in Episodes \ {e} : doc'[f] = doc[f]
<1>1. [d EXCEPT !.status = s] \in Doc
  BY DEF Doc
<1> QED
  BY <1>1 DEF Transition

\* mark_error() changes one document: its status, if at all, to ERROR.
LEMMA ErrorEffect ==
    ASSUME doc \in [Episodes -> Doc], NEW e \in Episodes, MarkError(e)
    PROVE  /\ doc' \in [Episodes -> Doc]
           /\ doc'[e].status \in {"ERROR", doc[e].status}
           /\ doc'[e].attempts = doc[e].attempts /\ doc'[e].crashes = doc[e].crashes
           /\ doc'[e].text = doc[e].text /\ doc'[e].tier1 = doc[e].tier1
           /\ \A f \in Episodes \ {e} : doc'[f] = doc[f]
<1> DEFINE s == IF CanTransition(doc[e].status, "ERROR") THEN "ERROR" ELSE doc[e].status
<1> DEFINE d == [doc[e] EXCEPT !.failedAt = doc[e].status, !.status = s]
<1>1. doc[e] \in Doc
  OBVIOUS
<1>2. s \in EpisodeStatus /\ s \in {"ERROR", doc[e].status}
  BY <1>1 DEF Doc, EpisodeStatus
<1> HIDE DEF s
<1>3. /\ d \in Doc
      /\ d.status = s
      /\ d.attempts = doc[e].attempts /\ d.crashes = doc[e].crashes
      /\ d.text = doc[e].text /\ d.tier1 = doc[e].tier1
  BY <1>1, <1>2 DEF Doc
<1>4. doc' = [doc EXCEPT ![e] = d]
  BY DEF MarkError, s
<1> HIDE DEF d
<1> QED
  BY <1>2, <1>3, <1>4

\* An error leaves a sound document sound.
LEMMA ErrorSound ==
    ASSUME doc \in [Episodes -> Doc], NEW e \in Episodes, MarkError(e), Sound(doc[e])
    PROVE  Sound(doc'[e])
BY ErrorEffect DEF Sound

\* Where the stage is about to begin with an episode, its copy is the document.
LEMMA FreshCopy ==
    ASSUME PipelineInv, NEW e \in Episodes, AtHead(e),
           pc = "next" \/ stage \in {"triage", "dispatch"}
    PROVE  snap[e] = doc[e] /\ pc = "next"
<1>1. pc = "next"
  BY DEF PipelineInv, PcFits, PipelineTypeOK
<1>2. e \in todo
  BY DEF AtHead
<1> QED
  BY <1>1, <1>2 DEF PipelineInv, CopiesCurrent

\* A stage that is done with an episode, and leaves it sound, keeps the invariant.
LEMMA Finished ==
    ASSUME PipelineInv, NEW e \in Episodes, AtHead(e), Done(e),
           deaths' = deaths, mishaps' \in 0..MaxMishaps,
           doc' \in [Episodes -> Doc],
           \A f \in Episodes \ {e} : doc'[f] = doc[f],
           Sound(doc'[e]), deaths[e] <= doc'[e].crashes
    PROVE  PipelineInv'
<1>1. /\ todo' = todo \ {e} /\ pc' = "next" /\ scored' = NONE /\ stage' = stage
      /\ \A f \in Episodes \ {e} : snap'[f] = snap[f]
  BY DEF Done, PipelineInv, PipelineTypeOK
<1>2. PipelineTypeOK'
  <2>1. NewDoc \in Doc
    BY NoneAssumption DEF NewDoc, Doc, EpisodeStatus
  <2>2. snap' \in [Episodes -> Doc]
    BY <2>1 DEF Done, PipelineInv, PipelineTypeOK
  <2> QED
    BY <1>1, <2>2 DEF PipelineInv, PipelineTypeOK
<1>3. DocsSound'
  BY DEF PipelineInv, DocsSound
<1>4. CopiesCurrent'
  <2> SUFFICES ASSUME NEW f \in todo' PROVE snap'[f] = doc'[f]
    BY DEF CopiesCurrent
  <2>1. f \in todo /\ f # e /\ f \in Episodes
    BY <1>1 DEF PipelineInv, PipelineTypeOK
  <2>2. ~AtHead(f)
    BY <2>1, OneHead
  <2> QED
    BY <1>1, <2>1, <2>2 DEF PipelineInv, CopiesCurrent
<1>5. QueueFits'
  BY <1>1 DEF PipelineInv, PipelineTypeOK, QueueFits
<1>6. PcFits' /\ HeadKnown'
  BY <1>1 DEF PcFits, HeadKnown
<1> QED
  BY <1>2, <1>3, <1>4, <1>5, <1>6 DEF PipelineInv

\* A run that is over, or a stage given up, keeps the invariant: no copy is left.
LEMMA Emptied ==
    ASSUME PipelineInv, stage' \in Stage, todo' = {}, pc' = "next", scored' = NONE,
           snap' = [f \in Episodes |-> NewDoc],
           mishaps' \in 0..MaxMishaps, deaths' \in [Episodes -> Nat],
           doc' \in [Episodes -> Doc], DocsSound'
    PROVE  PipelineInv'
<1>1. NewDoc \in Doc
  BY NoneAssumption DEF NewDoc, Doc, EpisodeStatus
<1>2. PipelineTypeOK'
  BY <1>1 DEF PipelineTypeOK
<1>3. CopiesCurrent' /\ QueueFits' /\ PcFits' /\ HeadKnown'
  BY DEF CopiesCurrent, QueueFits, PcFits, HeadKnown
<1> QED
  BY <1>2, <1>3 DEF PipelineInv

-----------------------------------------------------------------------------
\* A queue holds episodes in the status its stage works on.
LEMMA QueueStatus ==
    ASSUME NEW g \in Stage, NEW e \in StageQueue(g)
    PROVE  /\ e \in Episodes
           /\ g = "triage" => doc[e].status = "NEW"
           /\ g = "dispatch" => doc[e].status = "TRIAGED"
           /\ g = "transcripts" => doc[e].status = "AWAITING_TRANSCRIPT"
<1>1. \A S, n : Newest(S, n) \subseteq S
  BY DEF Newest
<1>2. g # "idle"
  BY DEF StageQueue
<1>3. CASE g = "summarize"
  <2>1. e \in WithStatus("TRANSCRIBED") \cup WithStatus("TRANSCRIPT_FAILED")
    BY <1>1, <1>3 DEF StageQueue, SummarizeQueue
  <2> QED
    BY <1>3, <2>1 DEF WithStatus
<1>4. CASE g \in {"triage", "dispatch", "transcripts"}
  <2>1. /\ g = "triage" => e \in WithStatus("NEW")
        /\ g = "dispatch" => e \in WithStatus("TRIAGED")
        /\ g = "transcripts" => e \in WithStatus("AWAITING_TRANSCRIPT")
    BY <1>1, <1>4 DEF StageQueue
  <2> QED
    BY <1>4, <2>1 DEF WithStatus
<1> QED
  BY <1>2, <1>3, <1>4 DEF Stage

\* Entering a stage keeps the invariant: the copies are taken there and then.
LEMMA Entered ==
    ASSUME PipelineInv, NEW g \in Stage, EnterStage(g), UNCHANGED <<doc, deaths, mishaps>>
    PROVE  PipelineInv'
<1>1. \A e \in StageQueue(g) : e \in Episodes
  BY QueueStatus
<1>2. NewDoc \in Doc
  BY NoneAssumption DEF NewDoc, Doc, EpisodeStatus
<1>3. todo' \subseteq Episodes /\ snap' \in [Episodes -> Doc]
  BY <1>1, <1>2 DEF EnterStage, PipelineInv, PipelineTypeOK
<1>4. PipelineTypeOK'
  BY <1>3 DEF EnterStage, PipelineInv, PipelineTypeOK
<1>5. DocsSound'
  BY DEF PipelineInv, DocsSound
<1>6. \A e \in todo' : snap'[e] = doc[e]
  BY <1>1 DEF EnterStage
<1>7. CopiesCurrent'
  BY <1>6 DEF CopiesCurrent
<1>8. QueueFits'
  BY <1>6, QueueStatus DEF EnterStage, QueueFits
<1>9. PcFits' /\ HeadKnown'
  BY DEF EnterStage, PcFits, HeadKnown
<1> QED
  BY <1>4, <1>5, <1>7, <1>8, <1>9 DEF PipelineInv

\* A transition or an error that ends in a sound document ends the episode's turn.
LEMMA TurnEnds ==
    ASSUME PipelineInv, NEW e \in Episodes, AtHead(e), Done(e),
           UNCHANGED <<deaths, mishaps>>,
           NEW s \in EpisodeStatus, NEW d \in Doc, TransitionOrError(e, s, d),
           Sound([d EXCEPT !.status = s]), deaths[e] <= d.crashes
    PROVE  PipelineInv'
<1>1. doc \in [Episodes -> Doc] /\ Sound(doc[e]) /\ deaths[e] <= doc[e].crashes
      /\ mishaps \in 0..MaxMishaps
  BY DEF PipelineInv, PipelineTypeOK, DocsSound
<1>2. CASE Transition(e, s, d)
  <2>1. /\ doc' \in [Episodes -> Doc] /\ doc'[e] = [d EXCEPT !.status = s]
        /\ \A f \in Episodes \ {e} : doc'[f] = doc[f]
    BY <1>1, <1>2, TransitionEffect
  <2>2. doc'[e].crashes = d.crashes
    BY <2>1 DEF Doc
  <2> QED
    BY <1>1, <2>1, <2>2, Finished
<1>3. CASE MarkError(e)
  <2>1. /\ doc' \in [Episodes -> Doc] /\ doc'[e].crashes = doc[e].crashes
        /\ \A f \in Episodes \ {e} : doc'[f] = doc[f]
    BY <1>1, <1>3, ErrorEffect
  <2>2. Sound(doc'[e])
    BY <1>1, <1>3, ErrorSound
  <2> QED
    BY <1>1, <2>1, <2>2, Finished
<1> QED
  BY <1>2, <1>3 DEF TransitionOrError

\* So does an error alone.
LEMMA TurnFails ==
    ASSUME PipelineInv, NEW e \in Episodes, AtHead(e), Done(e),
           UNCHANGED <<deaths, mishaps>>, MarkError(e)
    PROVE  PipelineInv'
<1>1. doc \in [Episodes -> Doc] /\ Sound(doc[e]) /\ deaths[e] <= doc[e].crashes
      /\ mishaps \in 0..MaxMishaps
  BY DEF PipelineInv, PipelineTypeOK, DocsSound
<1>2. /\ doc' \in [Episodes -> Doc] /\ doc'[e].crashes = doc[e].crashes
      /\ \A f \in Episodes \ {e} : doc'[f] = doc[f]
  BY <1>1, ErrorEffect
<1>3. Sound(doc'[e])
  BY <1>1, ErrorSound
<1> QED
  BY <1>1, <1>2, <1>3, Finished

\* What the invariant says of the document at the head of the queue.
LEMMA Current ==
    ASSUME PipelineInv, NEW e \in Episodes
    PROVE  /\ doc \in [Episodes -> Doc] /\ doc[e] \in Doc /\ snap[e] \in Doc
           /\ Sound(doc[e])
           /\ deaths \in [Episodes -> Nat] /\ deaths[e] <= doc[e].crashes
           /\ doc[e].crashes \in Nat /\ doc[e].attempts \in Nat
           /\ mishaps \in 0..MaxMishaps
           /\ AtHead(e) => e \in todo
BY DEF PipelineInv, PipelineTypeOK, DocsSound, Doc, AtHead

-----------------------------------------------------------------------------
(* One lemma per action.                                                   *)

LEMMA TriageStep ==
    ASSUME PipelineInv, NEW e \in Episodes, Triage(e)
    PROVE  PipelineInv'
<1>1. /\ AtHead(e) /\ Done(e) /\ UNCHANGED <<deaths, mishaps>>
      /\ stage = "triage"
  BY DEF Triage
<1>2. PICK r \in Route : TransitionOrError(e, "TRIAGED", [doc[e] EXCEPT !.route = r])
  BY Routes DEF Triage, Route
<1> DEFINE d == [doc[e] EXCEPT !.route = r]
<1>3. doc[e].status = "NEW"
  BY <1>1, FreshCopy, Current DEF PipelineInv, QueueFits
<1>4. d \in Doc /\ d.crashes = doc[e].crashes
  BY Current DEF Doc
<1>5. Sound([d EXCEPT !.status = "TRIAGED"])
  BY <1>3, Current DEF Sound, Doc
<1> HIDE DEF d
<1>6. "TRIAGED" \in EpisodeStatus
  BY DEF EpisodeStatus
<1> QED
  BY <1>1, <1>2, <1>4, <1>5, <1>6, Current, TurnEnds DEF d

LEMMA DispatchStep ==
    ASSUME PipelineInv, NEW e \in Episodes, Dispatch(e)
    PROVE  PipelineInv'
<1>1. /\ AtHead(e) /\ Done(e) /\ UNCHANGED <<deaths, mishaps>>
      /\ stage = "dispatch"
  BY DEF Dispatch
<1>2. CASE snap[e].route = NONE
  BY <1>1, <1>2, TurnFails DEF Dispatch
<1>3. CASE snap[e].route # NONE
  <2>1. snap[e].route \in Route
    BY <1>3, Current DEF Doc
  <2>2. PICK s \in {"DROPPED", "DIGEST_DIRECT", "AWAITING_TRANSCRIPT"} :
            TransitionOrError(e, s, doc[e])
    BY <1>3, <2>1, Routes DEF Dispatch
  <2>3. doc[e].status = "TRIAGED"
    BY <1>1, FreshCopy, Current DEF PipelineInv, QueueFits
  <2>4. Sound([doc[e] EXCEPT !.status = s])
    BY <2>2, <2>3, Current DEF Sound, Doc
  <2>5. s \in EpisodeStatus
    BY <2>2 DEF EpisodeStatus
  <2> QED
    BY <1>1, <2>2, <2>4, <2>5, Current, TurnEnds
<1> QED
  BY <1>2, <1>3

LEMMA GiveUpStep ==
    ASSUME PipelineInv, NEW e \in Episodes, GiveUp(e)
    PROVE  PipelineInv'
<1> DEFINE d == [doc[e] EXCEPT !.failedAt = NONE]
<1>1. /\ AtHead(e) /\ Done(e) /\ UNCHANGED <<deaths, mishaps>>
      /\ TransitionOrError(e, "TRANSCRIPT_FAILED", d)
  BY DEF GiveUp
<1>2. d \in Doc /\ d.crashes = doc[e].crashes
  BY Current DEF Doc
<1>3. Sound([d EXCEPT !.status = "TRANSCRIPT_FAILED"])
  BY Current DEF Sound, Doc
<1>4. "TRANSCRIPT_FAILED" \in EpisodeStatus
  BY DEF EpisodeStatus
<1> HIDE DEF d
<1> QED
  BY <1>1, <1>2, <1>3, <1>4, Current, TurnEnds

\* Going down before the acquisition, the marker leaves room for one more death.
LEMMA ClaimStep ==
    ASSUME PipelineInv, NEW e \in Episodes, ClaimTranscript(e)
    PROVE  PipelineInv'
<1>1. /\ AtHead(e) /\ stage = "transcripts" /\ pc = "next"
      /\ snap[e].crashes < CrashBudget /\ UNCHANGED <<deaths, mishaps>>
  BY DEF ClaimTranscript
<1>2. snap[e] = doc[e]
  BY <1>1, FreshCopy
<1>3. doc[e].status = "AWAITING_TRANSCRIPT"
  BY <1>1, <1>2, Current DEF PipelineInv, QueueFits
<1> DEFINE d == [doc[e] EXCEPT !.crashes = @ + 1]
<1>4. Accepts(e, "AWAITING_TRANSCRIPT")
  BY <1>3 DEF Accepts
<1>5. /\ Transition(e, "AWAITING_TRANSCRIPT", d)
      /\ pc' = "acquiring" /\ UNCHANGED <<stage, todo, snap, scored>>
  BY <1>4 DEF ClaimTranscript
<1>6. d \in Doc
  BY Current DEF Doc
<1>7. "AWAITING_TRANSCRIPT" \in EpisodeStatus
  BY DEF EpisodeStatus
<1>8. /\ doc' \in [Episodes -> Doc]
      /\ doc'[e] = [d EXCEPT !.status = "AWAITING_TRANSCRIPT"]
      /\ \A f \in Episodes \ {e} : doc'[f] = doc[f]
  BY <1>5, <1>6, <1>7, Current, TransitionEffect
<1>9. /\ doc'[e].status = "AWAITING_TRANSCRIPT"
      /\ doc'[e].attempts = doc[e].attempts /\ doc'[e].crashes = doc[e].crashes + 1
      /\ doc'[e].text = doc[e].text /\ doc'[e].tier1 = doc[e].tier1
  BY <1>8, Current DEF Doc
<1>10. Sound(doc'[e]) /\ deaths'[e] <= doc'[e].crashes
  <2>1. doc[e].crashes + 1 <= CrashBudget
    BY <1>1, <1>2, Current, BudgetAssumption
  <2> QED
    BY <1>1, <1>3, <1>9, <2>1, Current DEF Sound
<1>11. PipelineTypeOK'
  BY <1>1, <1>5, <1>8 DEF PipelineInv, PipelineTypeOK
<1>12. DocsSound'
  BY <1>1, <1>8, <1>10 DEF PipelineInv, DocsSound
<1>13. \A f : AtHead(f)' <=> AtHead(f)
  BY <1>5 DEF AtHead
<1>14. CopiesCurrent'
  BY <1>1, <1>5, <1>8, <1>13 DEF PipelineInv, PipelineTypeOK, CopiesCurrent
<1>15. QueueFits' /\ PcFits'
  BY <1>1, <1>5 DEF PipelineInv, QueueFits, PcFits
<1>16. HeadKnown'
  <2> SUFFICES ASSUME NEW f \in Episodes, AtHead(f)'
               PROVE  /\ doc'[f].status = "AWAITING_TRANSCRIPT"
                      /\ doc'[f].attempts = snap'[f].attempts
                      /\ doc'[f].crashes = snap'[f].crashes + 1
                      /\ deaths'[f] <= snap'[f].crashes
    BY <1>5 DEF HeadKnown
  <2>1. f = e
    BY <1>1, <1>13, OneHead
  <2> QED
    BY <1>1, <1>2, <1>5, <1>9, <2>1, Current
<1> QED
  BY <1>11, <1>12, <1>14, <1>15, <1>16 DEF PipelineInv

\* With an acquisition in flight the document differs from the copy by the marker.
LEMMA Acquiring ==
    ASSUME PipelineInv, NEW e \in Episodes, AtHead(e), pc \in {"acquiring", "saving"}
    PROVE  /\ stage = "transcripts"
           /\ doc[e].status = "AWAITING_TRANSCRIPT"
           /\ doc[e].attempts = snap[e].attempts
           /\ deaths[e] <= snap[e].crashes
           /\ snap[e].crashes < doc[e].crashes
           /\ snap[e].crashes <= CrashBudget
           /\ pc = "saving" => doc[e].text
           /\ snap[e].crashes \in Nat
<1>1. doc[e].crashes = snap[e].crashes + 1 /\ doc[e].crashes <= CrashBudget
  BY Current DEF PipelineInv, HeadKnown, Sound
<1>2. snap[e].crashes \in Nat
  BY Current DEF Doc
<1>3. snap[e].crashes < doc[e].crashes /\ snap[e].crashes <= CrashBudget
  BY <1>1, <1>2, BudgetAssumption
<1> QED
  BY <1>2, <1>3 DEF PipelineInv, HeadKnown, PcFits

\* What an acquisition's two payloads change: the marker is taken off, one attempt
\* is counted.
LEMMA Payloads ==
    ASSUME NEW e \in Episodes, doc[e] \in Doc, NEW before \in Doc
    PROVE  /\ Released(e, before) \in Doc
           /\ Released(e, before).crashes = before.crashes
           /\ Released(e, before).attempts = doc[e].attempts
           /\ AcquireFailed(e, before) \in Doc
           /\ AcquireFailed(e, before).crashes = before.crashes
           /\ AcquireFailed(e, before).attempts = doc[e].attempts + 1
           /\ AcquireSucceeded(e, before) \in Doc
           /\ AcquireSucceeded(e, before).crashes = before.crashes
           /\ AcquireSucceeded(e, before).attempts = doc[e].attempts + 1
           /\ AcquireSucceeded(e, before).text = doc[e].text
<1> DEFINE r == Released(e, before)
<1>1. r \in Doc /\ r.crashes = before.crashes /\ r.attempts = doc[e].attempts
  BY DEF Released, Doc
<1>2. r.text = doc[e].text
  BY DEF Released, Doc
<1>3. AcquireSucceeded(e, before) = [r EXCEPT !.attempts = r.attempts + 1]
  BY DEF AcquireSucceeded
<1>4. AcquireFailed(e, before) = [r EXCEPT !.attempts = r.attempts + 1, !.failedAt = NONE]
  BY DEF AcquireFailed
<1> HIDE DEF r
<1>5. r.attempts + 1 \in Nat
  BY <1>1 DEF Doc
<1>6. /\ AcquireSucceeded(e, before) \in Doc
      /\ AcquireSucceeded(e, before).crashes = before.crashes
      /\ AcquireSucceeded(e, before).attempts = doc[e].attempts + 1
  BY <1>1, <1>3, <1>5 DEF Doc
<1>7. AcquireSucceeded(e, before).text = doc[e].text
  BY <1>1, <1>2, <1>3 DEF Doc
<1>8. /\ AcquireFailed(e, before) \in Doc
      /\ AcquireFailed(e, before).crashes = before.crashes
      /\ AcquireFailed(e, before).attempts = doc[e].attempts + 1
  BY <1>1, <1>4, <1>5 DEF Doc
<1> QED
  BY <1>1, <1>6, <1>7, <1>8 DEF r

LEMMA AcquireFailsStep ==
    ASSUME PipelineInv, NEW e \in Episodes, AcquireFails(e)
    PROVE  PipelineInv'
<1>1. /\ AtHead(e) /\ Done(e) /\ UNCHANGED <<deaths, mishaps>>
      /\ pc \in {"acquiring", "saving"}
  BY DEF AcquireFails
<1> DEFINE d == AcquireFailed(e, snap[e])
<1>2. PICK retryable \in BOOLEAN :
          TransitionOrError(e, IF Exhausted(snap[e], retryable)
                               THEN "TRANSCRIPT_FAILED" ELSE "AWAITING_TRANSCRIPT", d)
  BY DEF AcquireFails
<1> DEFINE s == IF Exhausted(snap[e], retryable)
                THEN "TRANSCRIPT_FAILED" ELSE "AWAITING_TRANSCRIPT"
<1>3. /\ d \in Doc
      /\ d.crashes = snap[e].crashes /\ d.attempts = doc[e].attempts + 1
  BY <1>1, Current, Payloads
<1>4. s \in {"TRANSCRIPT_FAILED", "AWAITING_TRANSCRIPT"} /\ s \in EpisodeStatus
  BY DEF EpisodeStatus
<1>5. s = "AWAITING_TRANSCRIPT" => doc[e].attempts + 1 < MaxRetries
  BY <1>1, Acquiring, Current, BudgetAssumption DEF Exhausted
<1> HIDE DEF d, s
<1>6. /\ [d EXCEPT !.status = s].status = s
      /\ [d EXCEPT !.status = s].attempts = doc[e].attempts + 1
      /\ [d EXCEPT !.status = s].crashes = snap[e].crashes
  BY <1>3 DEF Doc
<1>7. doc[e].attempts + 1 <= MaxRetries \/ doc[e].attempts + 1 <= 1
  <2>1. doc[e].attempts = 0 \/ doc[e].attempts < MaxRetries
    BY <1>1, Acquiring, Current DEF Sound
  <2> QED
    BY <2>1, Current, BudgetAssumption
<1>8. Sound([d EXCEPT !.status = s])
  BY <1>1, <1>4, <1>5, <1>6, <1>7, Acquiring DEF Sound
<1> QED
  BY <1>1, <1>2, <1>3, <1>4, <1>8, Acquiring, TurnEnds DEF s, d

\* The backend is down: the marker comes off, the queue is put aside.
LEMMA ASRDownStep ==
    ASSUME PipelineInv, NEW e \in Episodes, ASRDown(e)
    PROVE  PipelineInv'
<1>1. AtHead(e) /\ pc \in {"acquiring", "saving"} /\ UNCHANGED <<deaths, mishaps>>
  BY DEF ASRDown
<1>2. Accepts(e, "AWAITING_TRANSCRIPT")
  BY <1>1, Acquiring DEF Accepts
<1> DEFINE d == Released(e, snap[e])
<1>3. Transition(e, "AWAITING_TRANSCRIPT", d) /\ Defer
  BY <1>2 DEF ASRDown
<1>4. /\ d \in Doc /\ d.crashes = snap[e].crashes /\ d.attempts = doc[e].attempts
  BY <1>1, Current, Payloads
<1>5. "AWAITING_TRANSCRIPT" \in EpisodeStatus
  BY DEF EpisodeStatus
<1> HIDE DEF d
<1>6. /\ doc' \in [Episodes -> Doc]
      /\ doc'[e] = [d EXCEPT !.status = "AWAITING_TRANSCRIPT"]
      /\ \A f \in Episodes \ {e} : doc'[f] = doc[f]
  BY <1>3, <1>4, <1>5, Current, TransitionEffect
<1>7. /\ doc'[e].status = "AWAITING_TRANSCRIPT"
      /\ doc'[e].attempts = doc[e].attempts /\ doc'[e].crashes = snap[e].crashes
  BY <1>4, <1>6 DEF Doc
<1>8. Sound(doc'[e]) /\ deaths'[e] <= doc'[e].crashes
  BY <1>1, <1>7, Acquiring, Current DEF Sound
<1>9. DocsSound'
  BY <1>1, <1>6, <1>8 DEF PipelineInv, DocsSound
<1>10. stage' \in Stage
  BY <1>3 DEF Defer, PipelineInv, PipelineTypeOK
<1>11. deaths' \in [Episodes -> Nat] /\ mishaps' \in 0..MaxMishaps
  BY <1>1 DEF PipelineInv, PipelineTypeOK
<1> QED
  BY <1>3, <1>6, <1>9, <1>10, <1>11, Emptied DEF Defer

\* The attachment is written: the status still waits for it.
LEMMA SaveStep ==
    ASSUME PipelineInv, NEW e \in Episodes, SaveTranscript(e)
    PROVE  PipelineInv'
<1>1. /\ AtHead(e) /\ pc = "acquiring" /\ pc' = "saving"
      /\ doc' = [doc EXCEPT ![e].text = TRUE]
      /\ UNCHANGED <<stage, todo, snap, scored, deaths, mishaps>>
  BY DEF SaveTranscript
<1>2. /\ doc' \in [Episodes -> Doc]
      /\ doc'[e] = [doc[e] EXCEPT !.text = TRUE]
      /\ \A f \in Episodes \ {e} : doc'[f] = doc[f]
  <2>1. [doc[e] EXCEPT !.text = TRUE] \in Doc
    BY Current DEF Doc
  <2> QED
    BY <1>1, <2>1, Current
<1>3. /\ doc'[e].status = doc[e].status /\ doc'[e].tier1 = doc[e].tier1
      /\ doc'[e].attempts = doc[e].attempts /\ doc'[e].crashes = doc[e].crashes
      /\ doc'[e].text
  BY <1>2, Current DEF Doc
<1>4. Sound(doc'[e])
  BY <1>3, Current DEF Sound
<1>5. PipelineTypeOK' /\ DocsSound'
  BY <1>1, <1>2, <1>3, <1>4 DEF PipelineInv, PipelineTypeOK, DocsSound
<1>6. \A f : AtHead(f)' <=> AtHead(f)
  BY <1>1 DEF AtHead
<1>7. CopiesCurrent'
  BY <1>1, <1>2, <1>6 DEF PipelineInv, PipelineTypeOK, CopiesCurrent
<1>8. QueueFits' /\ PcFits'
  BY <1>1 DEF PipelineInv, QueueFits, PcFits
<1>9. HeadKnown'
  <2> SUFFICES ASSUME NEW f \in Episodes, AtHead(f)'
               PROVE  /\ doc'[f].status = "AWAITING_TRANSCRIPT"
                      /\ doc'[f].attempts = snap'[f].attempts
                      /\ doc'[f].crashes = snap'[f].crashes + 1
                      /\ deaths'[f] <= snap'[f].crashes
                      /\ doc'[f].text
    BY <1>1 DEF HeadKnown
  <2>1. f = e
    BY <1>1, <1>6, OneHead
  <2> QED
    BY <1>1, <1>3, <2>1 DEF PipelineInv, HeadKnown
<1> QED
  BY <1>5, <1>7, <1>8, <1>9 DEF PipelineInv

LEMMA StoreTranscribedStep ==
    ASSUME PipelineInv, NEW e \in Episodes, StoreTranscribed(e)
    PROVE  PipelineInv'
<1> DEFINE d == AcquireSucceeded(e, snap[e])
<1>1. /\ AtHead(e) /\ Done(e) /\ UNCHANGED <<deaths, mishaps>>
      /\ pc = "saving" /\ TransitionOrError(e, "TRANSCRIBED", d)
  BY DEF StoreTranscribed
<1>2. /\ d \in Doc
      /\ d.crashes = snap[e].crashes /\ d.attempts = doc[e].attempts + 1
      /\ d.text = doc[e].text
  BY <1>1, Current, Payloads
<1> HIDE DEF d
<1>3. /\ [d EXCEPT !.status = "TRANSCRIBED"].status = "TRANSCRIBED"
      /\ [d EXCEPT !.status = "TRANSCRIBED"].attempts = doc[e].attempts + 1
      /\ [d EXCEPT !.status = "TRANSCRIBED"].crashes = snap[e].crashes
      /\ [d EXCEPT !.status = "TRANSCRIBED"].text = doc[e].text
  BY <1>2 DEF Doc
<1>4. doc[e].attempts + 1 <= MaxRetries \/ doc[e].attempts + 1 <= 1
  <2>1. doc[e].attempts = 0 \/ doc[e].attempts < MaxRetries
    BY <1>1, Acquiring, Current DEF Sound
  <2> QED
    BY <2>1, Current, BudgetAssumption
<1>5. Sound([d EXCEPT !.status = "TRANSCRIBED"])
  BY <1>1, <1>3, <1>4, Acquiring DEF Sound
<1>6. "TRANSCRIBED" \in EpisodeStatus
  BY DEF EpisodeStatus
<1> QED
  BY <1>1, <1>2, <1>5, <1>6, Acquiring, TurnEnds DEF d

\* The score goes down before the verdict on it.
LEMMA StoreSummaryStep ==
    ASSUME PipelineInv, NEW e \in Episodes, StoreSummary(e)
    PROVE  PipelineInv'
<1>1. /\ AtHead(e) /\ stage = "summarize" /\ pc = "next"
      /\ UNCHANGED <<deaths, mishaps>>
  BY DEF StoreSummary
<1>2. CASE ~Accepts(e, "SUMMARIZED")
  BY <1>1, <1>2, TurnFails DEF StoreSummary
<1>3. CASE Accepts(e, "SUMMARIZED")
  <2>1. PICK s \in Score :
            /\ Transition(e, "SUMMARIZED", [doc[e] EXCEPT !.tier1 = s])
            /\ pc' = "classify" /\ scored' = s /\ UNCHANGED <<stage, todo, snap>>
    BY <1>3 DEF StoreSummary
  <2> DEFINE d == [doc[e] EXCEPT !.tier1 = s]
  <2>2. d \in Doc
    BY Current DEF Doc
  <2>3. "SUMMARIZED" \in EpisodeStatus
    BY DEF EpisodeStatus
  <2>4. /\ doc' \in [Episodes -> Doc]
        /\ doc'[e] = [d EXCEPT !.status = "SUMMARIZED"]
        /\ \A f \in Episodes \ {e} : doc'[f] = doc[f]
    BY <2>1, <2>2, <2>3, Current, TransitionEffect
  <2>5. /\ doc'[e].status = "SUMMARIZED" /\ doc'[e].tier1 = s
        /\ doc'[e].attempts = doc[e].attempts /\ doc'[e].crashes = doc[e].crashes
    BY <2>4, Current DEF Doc
  <2>6. s # NONE
    BY NoneAssumption DEF Score
  <2>7. Sound(doc'[e]) /\ deaths'[e] <= doc'[e].crashes
    BY <1>1, <2>5, <2>6, Current DEF Sound
  <2>8. PipelineTypeOK' /\ DocsSound'
    BY <1>1, <2>1, <2>4, <2>7 DEF PipelineInv, PipelineTypeOK, DocsSound
  <2>9. \A f : AtHead(f)' <=> AtHead(f)
    BY <2>1 DEF AtHead
  <2>10. CopiesCurrent'
    BY <1>1, <2>1, <2>4, <2>9 DEF PipelineInv, PipelineTypeOK, CopiesCurrent
  <2>11. QueueFits' /\ PcFits'
    BY <1>1, <2>1 DEF PipelineInv, QueueFits, PcFits
  <2>12. HeadKnown'
    <3> SUFFICES ASSUME NEW f \in Episodes, AtHead(f)'
                 PROVE  doc'[f].tier1 = scored' /\ scored' \in Score
      BY <2>1 DEF HeadKnown
    <3>1. f = e
      BY <1>1, <2>9, OneHead
    <3> QED
      BY <2>1, <2>5, <3>1
  <2> QED
    BY <2>8, <2>10, <2>11, <2>12 DEF PipelineInv
<1> QED
  BY <1>2, <1>3

LEMMA ClassifyStep ==
    ASSUME PipelineInv, NEW e \in Episodes, Classify(e)
    PROVE  PipelineInv'
<1>1. /\ AtHead(e) /\ Done(e) /\ UNCHANGED <<deaths, mishaps>>
      /\ pc = "classify" /\ TransitionOrError(e, Verdict(scored), doc[e])
  BY DEF Classify
<1>2. doc[e].tier1 = scored /\ scored \in Score
  BY <1>1 DEF PipelineInv, HeadKnown
<1>3. \/ Verdict(scored) = "READY_FOR_DIGEST" /\ scored = "high"
      \/ Verdict(scored) = "SCORED_LOW" /\ scored = "low"
  <2>1. CASE scored = "high"
    BY <2>1 DEF Verdict
  <2>2. CASE scored = "low"
    BY <2>2 DEF Verdict
  <2> QED
    BY <1>2, <2>1, <2>2 DEF Score
<1>4. Verdict(scored) \in EpisodeStatus
  BY <1>3 DEF EpisodeStatus
<1> DEFINE v == [doc[e] EXCEPT !.status = Verdict(scored)]
<1>5. /\ v.status = Verdict(scored) /\ v.tier1 = doc[e].tier1
      /\ v.attempts = doc[e].attempts /\ v.crashes = doc[e].crashes
  BY Current DEF Doc
<1>6. Sound(v)
  <2>1. scored # NONE
    BY <1>2, NoneAssumption DEF Score
  <2> HIDE DEF v
  <2> QED
    BY <1>2, <1>3, <1>5, <2>1, Current DEF Sound
<1> QED
  BY <1>1, <1>4, <1>6, Current, TurnEnds

\* A call that fails, and an acquisition that raises, end in an error.
LEMMA FailureStep ==
    ASSUME PipelineInv, NEW e \in Episodes, CallFails(e) \/ AcquireError(e)
    PROVE  PipelineInv'
<1>1. AtHead(e) /\ Done(e) /\ MarkError(e) /\ UNCHANGED <<deaths, mishaps>>
  BY DEF CallFails, AcquireError
<1> QED
  BY <1>1, TurnFails

LEMMA StoreFailsStep ==
    ASSUME PipelineInv, NEW e \in Episodes, StoreFails(e)
    PROVE  PipelineInv'
<1>1. AtHead(e) /\ Done(e) /\ doc' = doc /\ deaths' = deaths
  BY DEF StoreFails
<1>2. mishaps' \in 0..MaxMishaps
  BY Current, PipelineAssumption DEF StoreFails
<1> QED
  BY <1>1, <1>2, Current, Finished

LEMMA LLMDownStep ==
    ASSUME PipelineInv, LLMDown
    PROVE  PipelineInv'
<1>1. Defer /\ UNCHANGED <<doc, deaths, mishaps>>
  BY DEF LLMDown
<1>2. DocsSound' /\ stage' \in Stage /\ mishaps' \in 0..MaxMishaps
  BY <1>1 DEF PipelineInv, PipelineTypeOK, DocsSound, Defer
<1>3. deaths' \in [Episodes -> Nat] /\ doc' \in [Episodes -> Doc]
  BY <1>1 DEF PipelineInv, PipelineTypeOK
<1> QED
  BY <1>1, <1>2, <1>3, Emptied DEF Defer

\* A death is counted only while the marker is up, so the marker covers it.
LEMMA CrashStep ==
    ASSUME PipelineInv, CrashAcquiring \/ CrashElsewhere
    PROVE  PipelineInv'
<1>1. RunDies /\ doc' = doc
  BY DEF CrashAcquiring, CrashElsewhere
<1>2. mishaps' \in 0..MaxMishaps
  BY PipelineAssumption DEF CrashAcquiring, CrashElsewhere, PipelineInv, PipelineTypeOK
<1>3. \A e \in Episodes : deaths'[e] = IF InFlight(e) THEN deaths[e] + 1 ELSE deaths[e]
  BY <1>1 DEF RunDies
<1>4. deaths' \in [Episodes -> Nat]
  BY <1>1 DEF RunDies, PipelineInv, PipelineTypeOK
<1>5. ASSUME NEW e \in Episodes PROVE deaths'[e] <= doc[e].crashes
  <2>1. CASE InFlight(e)
    <3>1. AtHead(e) /\ pc \in {"acquiring", "saving"}
      BY <2>1 DEF InFlight
    <3>2. deaths[e] < doc[e].crashes
      BY <3>1, Acquiring, Current
    <3> QED
      BY <1>3, <2>1, <3>2, Current
  <2>2. CASE ~InFlight(e)
    BY <1>3, <2>2, Current
  <2> QED
    BY <2>1, <2>2
<1>6. DocsSound'
  BY <1>1, <1>5 DEF PipelineInv, DocsSound
<1>7. stage' \in Stage
  BY <1>1 DEF RunDies, Stage
<1> QED
  BY <1>1, <1>2, <1>4, <1>6, <1>7, Current, Emptied DEF RunDies, PipelineInv, PipelineTypeOK

LEMMA StageStep ==
    ASSUME PipelineInv, StartRun \/ NextStage
    PROVE  PipelineInv'
<1>1. CASE StartRun
  <2>1. "triage" \in Stage
    BY DEF Stage
  <2> QED
    BY <1>1, <2>1, Entered DEF StartRun
<1>2. CASE NextStage
  <2>1. NextStageOf[stage] \in Stage
    BY <1>2 DEF NextStage, NextStageOf, Stage, PipelineInv, PipelineTypeOK
  <2> QED
    BY <1>2, <2>1, Entered DEF NextStage
<1> QED
  BY <1>1, <1>2

-----------------------------------------------------------------------------
LEMMA PipelineInvInit == PipelineInit => PipelineInv
<1> SUFFICES ASSUME PipelineInit PROVE PipelineInv
  OBVIOUS
<1>1. NewDoc \in Doc
  BY NoneAssumption DEF NewDoc, Doc, EpisodeStatus
<1>2. PipelineTypeOK
  BY <1>1, PipelineAssumption DEF PipelineInit, PipelineTypeOK, Stage
<1>3. Sound(NewDoc) /\ NewDoc.crashes = 0
  BY BudgetAssumption DEF NewDoc, Sound
<1>4. DocsSound
  BY <1>3 DEF PipelineInit, DocsSound
<1>5. CopiesCurrent /\ QueueFits /\ PcFits /\ HeadKnown
  BY DEF PipelineInit, CopiesCurrent, QueueFits, PcFits, HeadKnown
<1> QED
  BY <1>2, <1>4, <1>5 DEF PipelineInv

LEMMA PipelineInvStep == PipelineInv /\ [PipelineNext]_pipelineVars => PipelineInv'
<1> SUFFICES ASSUME PipelineInv, [PipelineNext]_pipelineVars PROVE PipelineInv'
  OBVIOUS
<1>1. CASE StartRun \/ NextStage
  BY <1>1, StageStep
<1>2. ASSUME NEW e \in Episodes, Triage(e) PROVE PipelineInv'
  BY <1>2, TriageStep
<1>3. ASSUME NEW e \in Episodes, Dispatch(e) PROVE PipelineInv'
  BY <1>3, DispatchStep
<1>4. ASSUME NEW e \in Episodes, GiveUp(e) PROVE PipelineInv'
  BY <1>4, GiveUpStep
<1>5. ASSUME NEW e \in Episodes, ClaimTranscript(e) PROVE PipelineInv'
  BY <1>5, ClaimStep
<1>6. ASSUME NEW e \in Episodes, AcquireFails(e) PROVE PipelineInv'
  BY <1>6, AcquireFailsStep
<1>7. ASSUME NEW e \in Episodes, ASRDown(e) PROVE PipelineInv'
  BY <1>7, ASRDownStep
<1>8. ASSUME NEW e \in Episodes, SaveTranscript(e) PROVE PipelineInv'
  BY <1>8, SaveStep
<1>9. ASSUME NEW e \in Episodes, StoreTranscribed(e) PROVE PipelineInv'
  BY <1>9, StoreTranscribedStep
<1>10. ASSUME NEW e \in Episodes, StoreSummary(e) PROVE PipelineInv'
  BY <1>10, StoreSummaryStep
<1>11. ASSUME NEW e \in Episodes, Classify(e) PROVE PipelineInv'
  BY <1>11, ClassifyStep
<1>12. ASSUME NEW e \in Episodes, CallFails(e) \/ AcquireError(e) PROVE PipelineInv'
  BY <1>12, FailureStep
<1>13. ASSUME NEW e \in Episodes, StoreFails(e) PROVE PipelineInv'
  BY <1>13, StoreFailsStep
<1>14. CASE LLMDown
  BY <1>14, LLMDownStep
<1>15. CASE CrashAcquiring \/ CrashElsewhere
  BY <1>15, CrashStep
<1>16. CASE UNCHANGED pipelineVars
  BY <1>16 DEF pipelineVars, workVars, PipelineInv, PipelineTypeOK, DocsSound,
               CopiesCurrent, QueueFits, PcFits, HeadKnown, AtHead
<1> QED
  BY <1>1, <1>2, <1>3, <1>4, <1>5, <1>6, <1>7, <1>8, <1>9, <1>10, <1>11, <1>12,
     <1>13, <1>14, <1>15, <1>16
     DEF PipelineNext, PipelineStep, Advance, Acquired, Outage

LEMMA PipelineInvariant == PipelineSpec => []PipelineInv
BY PipelineInvInit, PipelineInvStep, PTL DEF PipelineSpec

-----------------------------------------------------------------------------
\* Every variable keeps its type, the budget of mishaps included.
THEOREM PipelineTypes == PipelineSpec => []PipelineTypeOK
<1>1. PipelineInv => PipelineTypeOK
  BY DEF PipelineInv
<1> QED
  BY <1>1, PipelineInvariant, PTL

\* No episode takes the process down more often than CrashBudget times
\* (TranscriptStage.process counts the attempt before it starts it).
THEOREM CrashesAreBounded == PipelineSpec => []CrashBudgetHolds
<1>1. ASSUME PipelineInv, NEW e \in Episodes PROVE deaths[e] <= CrashBudget
  <2>1. doc[e].crashes <= CrashBudget
    BY <1>1, Current DEF Sound
  <2> QED
    BY <1>1, <2>1, Current, BudgetAssumption
<1>2. PipelineInv => CrashBudgetHolds
  BY <1>1 DEF CrashBudgetHolds
<1> QED
  BY <1>2, PipelineInvariant, PTL

\* Acquisition is attempted max_retries times at most, and once in any case
\* (TranscriptStage._handle_failure).
THEOREM RetriesAreBounded == PipelineSpec => []RetryBudgetHolds
<1>1. PipelineInv => RetryBudgetHolds
  BY Current DEF RetryBudgetHolds, Sound
<1> QED
  BY <1>1, PipelineInvariant, PTL

\* Whatever was interrupted, a status is backed by the data it stands for: the
\* pipeline writes the transcript before TRANSCRIBED and the score before the verdict.
THEOREM StatusesHaveSubstance == PipelineSpec => []StatusHasSubstance
<1>1. PipelineInv => StatusHasSubstance
  BY Current DEF StatusHasSubstance, Sound
<1> QED
  BY <1>1, PipelineInvariant, PTL

\* The verdict is on the score stored in the document (Tier1Stage.summarize).
THEOREM VerdictsMatchScores == PipelineSpec => []VerdictMatchesScore
<1>1. PipelineInv => VerdictMatchesScore
  BY Current DEF VerdictMatchesScore, Sound
<1> QED
  BY <1>1, PipelineInvariant, PTL

-----------------------------------------------------------------------------
(* The pipeline, the digest and the owner together                         *)

Fields == {"status", "route", "attempts", "crashes", "failedAt", "text", "tier1", "claim",
           "relisted"}

Documented(d) == DOMAIN d = Fields /\ d.route \in Route \cup {NONE}

DocsShape ==
    /\ DOMAIN doc = Episodes /\ DOMAIN snap = Episodes
    /\ \A e \in Episodes : Documented(doc[e]) /\ Documented(snap[e])

OwnerShape ==
    /\ DOMAIN demand = Episodes /\ DOMAIN reset = Episodes
    /\ \A e \in Episodes : DOMAIN demand[e] = {"at", "before", "listed", "scored"}

DigestShape ==
    /\ DOMAIN run = {"at", "week", "ids", "todo", "ep", "saw"}
    /\ run.week \in Digests /\ run.ids \subseteq Episodes
    /\ week \in Digests
    /\ ddoc \in [Digests -> DigestDoc \cup {NONE}]
    /\ DOMAIN listed = Episodes

\* What a digest document names is in the week's file, and so is what a run has left to
\* put, to mark or to write; the run's document comes before its claims.
FileFirst ==
    /\ \A w \in Digests : ddoc[w] # NONE => \A e \in ddoc[w].ids : w \in listed[e]
    /\ run.at \in {"put", "marking", "write"} => \A e \in run.ids : run.week \in listed[e]
    /\ run.at \in {"marking", "write"} => ddoc[run.week] # NONE /\ run.todo \subseteq run.ids
    /\ run.at = "write" => run.ep \in run.ids /\ doc[run.ep].claim = NONE

\* A request that will put an episode at PUBLISHED found it there; a retry never does.
PromisesKept ==
    \A e \in Episodes :
        /\ demand[e].listed => listed[e] # {}
        /\ demand[e].at = "relist" => demand[e].listed
        /\ reset[e] # "PUBLISHED"

\* An episode claimed by a digest is named in that digest's file, and the digest
\* has a document: the file is on disk before any episode is marked
\* (generate.py:287-288).
ClaimsBacked ==
    \A e \in Episodes :
        doc[e].claim # NONE => /\ doc[e].claim \in listed[e]
                               /\ ddoc[doc[e].claim] # NONE

LifeInv ==
    /\ DocsShape /\ OwnerShape /\ DigestShape
    /\ FileFirst
    /\ PromisesKept
    /\ ClaimsBacked
    /\ PublishedWasListed

-----------------------------------------------------------------------------
(* Everybody but the digest                                                *)

\* A write that hands out no claim and publishes nothing that was not listed.
Harmless ==
    /\ DocsShape'
    /\ \A e \in Episodes :
          /\ doc'[e].claim \in {doc[e].claim, NONE}
          /\ doc'[e].status = "PUBLISHED" => doc[e].status = "PUBLISHED" \/ listed[e] # {}

SnapShape == DOMAIN snap = Episodes /\ \A e \in Episodes : Documented(snap[e])

\* A transition to s with the payload d on the present document.
LEMMA TransitionHarmless ==
    ASSUME DocsShape, SnapShape', NEW e \in Episodes, NEW s, NEW d, Documented(d),
           d.claim \in {doc[e].claim, NONE},
           s = "PUBLISHED" => listed[e] # {},
           Transition(e, s, d)
    PROVE  Harmless
BY DEF Transition, DocsShape, SnapShape, Documented, Fields, Harmless

LEMMA MarkErrorHarmless ==
    ASSUME DocsShape, SnapShape', NEW e \in Episodes, MarkError(e)
    PROVE  Harmless
BY DEF MarkError, DocsShape, SnapShape, Documented, Fields, Harmless

LEMMA EitherHarmless ==
    ASSUME DocsShape, SnapShape', NEW e \in Episodes, NEW s, NEW d, Documented(d),
           d.claim \in {doc[e].claim, NONE},
           s = "PUBLISHED" => listed[e] # {},
           TransitionOrError(e, s, d)
    PROVE  Harmless
BY TransitionHarmless, MarkErrorHarmless DEF TransitionOrError

LEMMA NoWriteHarmless ==
    ASSUME DocsShape, SnapShape', doc' = doc
    PROVE  Harmless
BY DEF DocsShape, SnapShape, Harmless

\* The payloads of the transcript stage.
LEMMA PayloadsKeepClaims ==
    ASSUME DocsShape, NEW e \in Episodes, NEW before
    PROVE  /\ Documented(doc[e])
           /\ Documented(Released(e, before)) /\ Released(e, before).claim = doc[e].claim
           /\ Documented(AcquireFailed(e, before))
           /\ AcquireFailed(e, before).claim = doc[e].claim
           /\ Documented(AcquireSucceeded(e, before))
           /\ AcquireSucceeded(e, before).claim = doc[e].claim
BY DEF DocsShape, Documented, Fields, Released, AcquireFailed, AcquireSucceeded

LEMMA RouteLeads ==
    ASSUME NEW r \in Route
    PROVE  RouteTarget[r] # "PUBLISHED"
BY DEF Route, RouteTarget

-----------------------------------------------------------------------------
(* The pipeline                                                            *)

\* The queue's copies stay documents.
LEMMA CopiesShape ==
    ASSUME DocsShape, PipelineStep
    PROVE  SnapShape'
<1>1. Documented(NewDoc)
  BY DEF Documented, NewDoc, Fields
<1>2. ASSUME NEW e \in Episodes, Done(e) PROVE SnapShape'
  BY <1>1, <1>2 DEF Done, DocsShape, SnapShape
<1>3. ASSUME Defer PROVE SnapShape'
  BY <1>1, <1>3 DEF Defer, DocsShape, SnapShape
<1>4. ASSUME NEW s, EnterStage(s) PROVE SnapShape'
  BY <1>1, <1>4 DEF EnterStage, DocsShape, SnapShape
<1>5. ASSUME snap' = snap PROVE SnapShape'
  BY <1>5 DEF DocsShape, SnapShape
<1>6. CASE StartRun \/ NextStage
  BY <1>4, <1>6 DEF StartRun, NextStage
<1>7. CASE LLMDown
  BY <1>3, <1>7 DEF LLMDown
<1>8. ASSUME NEW e \in Episodes,
             \/ Dispatch(e) \/ GiveUp(e) \/ StoreTranscribed(e) \/ Classify(e)
             \/ Triage(e) \/ AcquireFails(e) \/ CallFails(e) \/ AcquireError(e)
             \/ StoreFails(e)
      PROVE  SnapShape'
  BY <1>2, <1>8 DEF Dispatch, GiveUp, StoreTranscribed, Classify, Triage, AcquireFails,
                    CallFails, AcquireError, StoreFails
<1>9. ASSUME NEW e \in Episodes, ClaimTranscript(e) \/ StoreSummary(e) \/ SaveTranscript(e)
      PROVE  SnapShape'
  BY <1>2, <1>5, <1>9 DEF ClaimTranscript, StoreSummary, SaveTranscript
<1>10. ASSUME NEW e \in Episodes, ASRDown(e) PROVE SnapShape'
  BY <1>2, <1>3, <1>10 DEF ASRDown
<1>q. QED
  BY <1>6, <1>7, <1>8, <1>9, <1>10 DEF PipelineStep, Advance, Acquired, Outage

LEMMA PipelineHarmless ==
    ASSUME DocsShape, PipelineStep
    PROVE  Harmless
<1>0. SnapShape'
  BY CopiesShape
<1>1. CASE doc' = doc
  BY <1>0, <1>1, NoWriteHarmless
<1>2. ASSUME NEW e \in Episodes, Triage(e) PROVE Harmless
  <2>1. PICK always \in BOOLEAN, confident \in BOOLEAN, relevance \in Relevance :
           TransitionOrError(e, "TRIAGED",
              [doc[e] EXCEPT !.route = DecideRoute(always, confident, relevance)])
    BY <1>2 DEF Triage
  <2>2. DecideRoute(always, confident, relevance) \in Route
    BY DEF DecideRoute, Route
  <2>3. /\ Documented([doc[e] EXCEPT !.route = DecideRoute(always, confident, relevance)])
        /\ [doc[e] EXCEPT !.route = DecideRoute(always, confident, relevance)].claim
              = doc[e].claim
    BY <2>2 DEF DocsShape, Documented, Fields
  <2>4. \E d : Documented(d) /\ d.claim = doc[e].claim /\ TransitionOrError(e, "TRIAGED", d)
    BY <2>1, <2>3
  <2>q. QED
    BY <1>0, <2>4, EitherHarmless
<1>3. ASSUME NEW e \in Episodes, Dispatch(e) PROVE Harmless
  <2>1. snap[e].route # NONE => snap[e].route \in Route
    BY DEF DocsShape, Documented
  <2>q. QED
    BY <1>0, <1>3, <2>1, RouteLeads, PayloadsKeepClaims, EitherHarmless, MarkErrorHarmless
    DEF Dispatch
<1>4. ASSUME NEW e \in Episodes, GiveUp(e) PROVE Harmless
  <2>1. Documented([doc[e] EXCEPT !.failedAt = NONE])
        /\ [doc[e] EXCEPT !.failedAt = NONE].claim = doc[e].claim
    BY DEF DocsShape, Documented, Fields
  <2>q. QED
    BY <1>0, <1>4, <2>1, EitherHarmless DEF GiveUp
<1>5. ASSUME NEW e \in Episodes, ClaimTranscript(e) PROVE Harmless
  <2>1. Documented([doc[e] EXCEPT !.crashes = @ + 1])
        /\ [doc[e] EXCEPT !.crashes = @ + 1].claim = doc[e].claim
    BY DEF DocsShape, Documented, Fields
  <2>2. \/ MarkError(e)
        \/ \E d : /\ Documented(d) /\ d.claim = doc[e].claim
                  /\ Transition(e, "AWAITING_TRANSCRIPT", d)
    BY <1>5, <2>1 DEF ClaimTranscript
  <2>q. QED
    BY <1>0, <2>2, TransitionHarmless, MarkErrorHarmless
<1>6. ASSUME NEW e \in Episodes, AcquireFails(e) \/ StoreTranscribed(e) PROVE Harmless
  BY <1>0, <1>6, PayloadsKeepClaims, EitherHarmless DEF AcquireFails, StoreTranscribed
<1>7. ASSUME NEW e \in Episodes, ASRDown(e) PROVE Harmless
  BY <1>0, <1>7, PayloadsKeepClaims, TransitionHarmless, MarkErrorHarmless DEF ASRDown
<1>8. ASSUME NEW e \in Episodes, CallFails(e) \/ AcquireError(e) PROVE Harmless
  BY <1>0, <1>8, MarkErrorHarmless DEF CallFails, AcquireError
<1>9. ASSUME NEW e \in Episodes, SaveTranscript(e) PROVE Harmless
  BY <1>0, <1>9 DEF SaveTranscript, DocsShape, SnapShape, Documented, Fields, Harmless
<1>10. ASSUME NEW e \in Episodes, StoreSummary(e) PROVE Harmless
  <2>1. ASSUME NEW s \in Score
        PROVE  /\ Documented([doc[e] EXCEPT !.tier1 = s])
               /\ [doc[e] EXCEPT !.tier1 = s].claim = doc[e].claim
    BY DEF DocsShape, Documented, Fields
  <2>q. QED
    BY <1>0, <1>10, <2>1, TransitionHarmless, MarkErrorHarmless DEF StoreSummary
<1>11. ASSUME NEW e \in Episodes, Classify(e) PROVE Harmless
  BY <1>0, <1>11, PayloadsKeepClaims, EitherHarmless DEF Classify, Verdict
<1>12. CASE StartRun \/ NextStage \/ LLMDown \/ \E e \in Episodes : StoreFails(e)
  BY <1>1, <1>12 DEF StartRun, NextStage, LLMDown, StoreFails
<1>q. QED
  BY <1>2, <1>3, <1>4, <1>5, <1>6, <1>7, <1>8, <1>9, <1>10, <1>11, <1>12
     DEF PipelineStep, Advance, Acquired, Outage

-----------------------------------------------------------------------------
(* The owner                                                               *)

\* Writes of the on-demand run: those of the pipeline, and the put-back of an episode
\* that was listed.
LEMMA DemandHarmless ==
    ASSUME DocsShape, OwnerShape, PromisesKept, snap' = snap,
           NEW e \in Episodes, DemandStep(e)
    PROVE  Harmless
<1>0. SnapShape'
  BY DEF DocsShape, SnapShape
<1>1. CASE doc' = doc
  BY <1>0, <1>1, NoWriteHarmless
<1>2. ASSUME NEW s, NEW d, NEW at, DemandWrites(e, s, d, at), Documented(d),
             d.claim \in {doc[e].claim, NONE}, s # "PUBLISHED"
      PROVE  Harmless
  BY <1>0, <1>2, <1>1, TransitionHarmless DEF DemandWrites
<1>3. CASE DemandQueue(e) \/ DemandSettle(e)
  BY <1>3, <1>2, PayloadsKeepClaims DEF DemandQueue, DemandSettle
<1>4. CASE DemandRead(e) \/ DemandFails(e)
  BY <1>4, <1>1 DEF DemandRead, DemandFails
<1>5. CASE DemandClaim(e)
  <2>1. \E d, s : /\ Documented(d) /\ d.claim = doc[e].claim /\ s # "PUBLISHED"
                  /\ \E at : DemandWrites(e, s, d, at)
    <3>1. /\ Documented([doc[e] EXCEPT !.failedAt = NONE])
          /\ [doc[e] EXCEPT !.failedAt = NONE].claim = doc[e].claim
          /\ Documented([doc[e] EXCEPT !.crashes = @ + 1])
          /\ [doc[e] EXCEPT !.crashes = @ + 1].claim = doc[e].claim
      BY DEF DocsShape, Documented, Fields
    <3>q. QED
      BY <1>5, <3>1 DEF DemandClaim
  <2>q. QED
    BY <2>1, <1>2
<1>6. CASE DemandAcquireFails(e)
  BY <1>6, <1>2, PayloadsKeepClaims DEF DemandAcquireFails
<1>7. CASE DemandASRDown(e)
  BY <1>0, <1>1, <1>7, PayloadsKeepClaims, TransitionHarmless DEF DemandASRDown
<1>8. CASE DemandSave(e)
  BY <1>0, <1>8 DEF DemandSave, DocsShape, SnapShape, Documented, Fields, Harmless
<1>9. CASE DemandTranscribed(e)
  BY <1>9, <1>2, PayloadsKeepClaims DEF DemandTranscribed
<1>10. CASE DemandSummarize(e)
  <2>1. \/ doc' = doc
        \/ \E d : /\ Documented(d) /\ d.claim = doc[e].claim
                  /\ Transition(e, "SUMMARIZED", d)
    <3>1. ASSUME NEW s \in Score
          PROVE  /\ Documented([doc[e] EXCEPT !.tier1 = s])
                 /\ [doc[e] EXCEPT !.tier1 = s].claim = doc[e].claim
      BY DEF DocsShape, Documented, Fields
    <3>q. QED
      BY <1>10, <3>1 DEF DemandSummarize
  <2>q. QED
    BY <1>0, <1>1, <2>1, TransitionHarmless
<1>11. CASE DemandClassify(e)
  BY <1>0, <1>1, <1>2, <1>11, PayloadsKeepClaims, TransitionHarmless DEF DemandClassify, Verdict
<1>12. CASE DemandRelist(e)
  <2>1. listed[e] # {}
    BY <1>12 DEF DemandRelist, PromisesKept
  <2>2. /\ Documented([doc[e] EXCEPT !.relisted = TRUE])
        /\ [doc[e] EXCEPT !.relisted = TRUE].claim = doc[e].claim
    BY DEF DocsShape, Documented, Fields
  <2>3. \/ doc' = doc
        \/ \E d : /\ Documented(d) /\ d.claim = doc[e].claim
                  /\ Transition(e, "PUBLISHED", d)
    BY <1>12, <2>2 DEF DemandRelist
  <2>q. QED
    BY <1>0, <1>1, <2>1, <2>3, TransitionHarmless
<1>q. QED
  BY <1>3, <1>4, <1>5, <1>6, <1>7, <1>8, <1>9, <1>10, <1>11, <1>12 DEF DemandStep

LEMMA ButtonsHarmless ==
    ASSUME DocsShape, OwnerShape, PromisesKept, snap' = snap, NEW e \in Episodes,
           RetryWrite(e) \/ Escalate(e) \/ Rescore(e) \/ RescoreFails(e)
    PROVE  Harmless
<1>0. SnapShape'
  BY DEF DocsShape, SnapShape
<1>1. CASE RetryWrite(e)
  <2>1. /\ Documented([doc[e] EXCEPT !.attempts = 0, !.crashes = 0, !.failedAt = NONE])
        /\ [doc[e] EXCEPT !.attempts = 0, !.crashes = 0, !.failedAt = NONE].claim
              = doc[e].claim
    BY DEF DocsShape, Documented, Fields
  <2>2. \/ doc' = doc
        \/ \E d : /\ Documented(d) /\ d.claim = doc[e].claim /\ Transition(e, reset[e], d)
    BY <1>1, <2>1 DEF RetryWrite
  <2>q. QED
    BY <1>0, <2>2, TransitionHarmless, NoWriteHarmless DEF PromisesKept
<1>2. CASE Escalate(e)
  <2>1. \E d : /\ Documented(d) /\ d.claim = NONE
               /\ Transition(e, "AWAITING_TRANSCRIPT", d)
    <3>1. /\ Documented([doc[e] EXCEPT !.attempts = 0, !.crashes = 0, !.failedAt = NONE,
                                       !.claim = NONE])
          /\ [doc[e] EXCEPT !.attempts = 0, !.crashes = 0, !.failedAt = NONE,
                            !.claim = NONE].claim = NONE
      BY DEF DocsShape, Documented, Fields
    <3>q. QED
      BY <1>2, <3>1 DEF Escalate
  <2>q. QED
    BY <1>0, <2>1, TransitionHarmless
<1>3. CASE Rescore(e)
  <2>1. \E d : \E s \in {"READY_FOR_DIGEST", "SCORED_LOW"} :
            /\ Documented(d) /\ d.claim = doc[e].claim /\ TransitionOrError(e, s, d)
    <3>1. ASSUME NEW s \in Score
          PROVE  /\ Documented([doc[e] EXCEPT !.tier1 = s])
                 /\ [doc[e] EXCEPT !.tier1 = s].claim = doc[e].claim
                 /\ Verdict(s) \in {"READY_FOR_DIGEST", "SCORED_LOW"}
      BY DEF DocsShape, Documented, Fields, Verdict
    <3>q. QED
      BY <1>3, <3>1 DEF Rescore
  <2>q. QED
    BY <1>0, <2>1, EitherHarmless
<1>4. CASE RescoreFails(e)
  BY <1>0, <1>4, MarkErrorHarmless DEF RescoreFails
<1>q. QED
  BY <1>1, <1>2, <1>3, <1>4

\* A harmless write beside an unchanged digest keeps what claims, files and PUBLISHED have
\* to do with each other.
LEMMA HarmlessKeeps ==
    ASSUME DigestShape, FileFirst, ClaimsBacked, PublishedWasListed,
           DigestShape', Harmless, listed' = listed, ddoc' = ddoc,
           run' = run \/ run'.at \in {"idle", "file"}
    PROVE  FileFirst' /\ ClaimsBacked' /\ PublishedWasListed'
<1>1. ClaimsBacked' /\ PublishedWasListed'
  BY DEF Harmless, ClaimsBacked, PublishedWasListed
<1>2. CASE run'.at \in {"idle", "file"}
  BY <1>1, <1>2 DEF FileFirst
<1>3. CASE run' = run
  <2>1. run.at = "write" => run.ep \in Episodes
    BY DEF FileFirst, DigestShape
  <2>q. QED
    BY <1>1, <1>3, <2>1 DEF FileFirst, Harmless
<1>q. QED
  BY <1>2, <1>3

-----------------------------------------------------------------------------
(* What the owner's requests have in hand                                  *)

LEMMA StartPromises ==
    ASSUME DocsShape, OwnerShape, PromisesKept, PublishedWasListed, listed' = listed,
           NEW e \in Episodes, DemandStart(e) \/ RetryRead(e)
    PROVE  OwnerShape' /\ PromisesKept'
<1>1. CASE DemandStart(e)
  BY <1>1 DEF DemandStart, NoDemand, OwnerShape, PromisesKept, PublishedWasListed
<1>2. CASE RetryRead(e)
  <2>1. RetryStatus(doc[e]) # "PUBLISHED"
    BY <1>2 DEF RetryRead, RetryStatus, ResumePoint, RetryTarget
  <2>q. QED
    BY <1>2, <2>1 DEF RetryRead, OwnerShape, PromisesKept
<1>q. QED
  BY <1>1, <1>2

LEMMA StepPromises ==
    ASSUME OwnerShape, PromisesKept, listed' = listed, NEW e \in Episodes,
           DemandStep(e) \/ RetryWrite(e)
    PROVE  OwnerShape' /\ PromisesKept'
<1>1. ASSUME Finish(e), reset' = reset PROVE OwnerShape' /\ PromisesKept'
  BY <1>1 DEF Finish, NoDemand, OwnerShape, PromisesKept
<1>2. ASSUME NEW at, Goto(e, at), at # "relist" \/ demand[e].listed, reset' = reset
      PROVE  OwnerShape' /\ PromisesKept'
  BY <1>2 DEF Goto, OwnerShape, PromisesKept
<1>7. ASSUME NEW r, DOMAIN r = {"at", "before", "listed", "scored"},
             r.listed = demand[e].listed, r.at # "relist",
             demand' = [demand EXCEPT ![e] = r], reset' = reset
      PROVE  OwnerShape' /\ PromisesKept'
  BY <1>7 DEF OwnerShape, PromisesKept
<1>8. CASE DemandRead(e)
  <2>1. DOMAIN demand[e] = {"at", "before", "listed", "scored"} /\ DOMAIN demand = Episodes
    BY DEF OwnerShape
  <2>2. demand' = [demand EXCEPT ![e] =
                     [demand[e] EXCEPT !.at = "claim", !.before = Counters(doc[e])]]
    BY <1>8, <2>1 DEF DemandRead
  <2>3. /\ DOMAIN [demand[e] EXCEPT !.at = "claim", !.before = Counters(doc[e])]
             = {"at", "before", "listed", "scored"}
        /\ [demand[e] EXCEPT !.at = "claim", !.before = Counters(doc[e])].listed
             = demand[e].listed
        /\ [demand[e] EXCEPT !.at = "claim", !.before = Counters(doc[e])].at = "claim"
    BY <2>1
  <2>q. QED
    BY <1>7, <1>8, <2>2, <2>3 DEF DemandRead
<1>3. CASE DemandSummarize(e)
  <2>1. DOMAIN demand[e] = {"at", "before", "listed", "scored"} /\ DOMAIN demand = Episodes
    BY DEF OwnerShape
  <2>2. reset' = reset /\ \/ Finish(e)
                          \/ \E s \in Score : demand' = [demand EXCEPT ![e].at = "classify",
                                                                       ![e].scored = s]
    BY <1>3 DEF DemandSummarize
  <2>3. ASSUME NEW s \in Score,
               demand' = [demand EXCEPT ![e].at = "classify", ![e].scored = s]
        PROVE  OwnerShape' /\ PromisesKept'
    <3>1. demand' = [demand EXCEPT ![e] =
                       [demand[e] EXCEPT !.at = "classify", !.scored = s]]
      BY <2>1, <2>3
    <3>2. /\ DOMAIN [demand[e] EXCEPT !.at = "classify", !.scored = s]
               = {"at", "before", "listed", "scored"}
          /\ [demand[e] EXCEPT !.at = "classify", !.scored = s].listed = demand[e].listed
          /\ [demand[e] EXCEPT !.at = "classify", !.scored = s].at = "classify"
      BY <2>1
    <3>q. QED
      BY <1>7, <2>2, <3>1, <3>2
  <2>q. QED
    BY <1>1, <2>2, <2>3
<1>4. CASE \/ DemandQueue(e) \/ DemandClaim(e) \/ DemandAcquireFails(e) \/ DemandSave(e)
           \/ DemandTranscribed(e) \/ DemandSettle(e) \/ DemandClassify(e)
  BY <1>1, <1>2, <1>4 DEF DemandQueue, DemandClaim, DemandAcquireFails, DemandSave,
        DemandTranscribed, DemandSettle, DemandClassify, DemandWrites
<1>5. CASE DemandASRDown(e) \/ DemandRelist(e) \/ DemandFails(e)
  BY <1>1, <1>5 DEF DemandASRDown, DemandRelist, DemandFails
<1>6. CASE RetryWrite(e)
  BY <1>6, NoneAssumption DEF RetryWrite, OwnerShape, PromisesKept, EpisodeStatus
<1>q. QED
  BY <1>3, <1>4, <1>5, <1>6, <1>8 DEF DemandStep

-----------------------------------------------------------------------------
(* The digest                                                              *)

DigestInv == DocsShape /\ DigestShape /\ FileFirst /\ ClaimsBacked /\ PublishedWasListed

\* What is said of a digest document survives setting its flag.
LEMMA DocumentShape ==
    ASSUME NEW ids \in SUBSET Episodes, NEW b \in BOOLEAN
    PROVE  /\ [ids |-> ids, complete |-> b] \in DigestDoc
           /\ [ids |-> ids, complete |-> b] # NONE
BY NoDigestAssumption DEF DigestDoc

LEMMA FlagSet ==
    ASSUME NEW d \in DigestDoc
    PROVE  [d EXCEPT !.complete = TRUE] = [ids |-> d.ids, complete |-> TRUE]
<1>2. [d EXCEPT !.complete = TRUE].ids = d.ids
  BY DEF DigestDoc
<1>3. [d EXCEPT !.complete = TRUE] \in DigestDoc
  BY DEF DigestDoc
<1>4. ASSUME NEW f \in DigestDoc, NEW g \in DigestDoc, f.ids = g.ids, f.complete = g.complete
      PROVE  f = g
  BY <1>4 DEF DigestDoc
<1>5. [ids |-> d.ids, complete |-> TRUE] \in DigestDoc
  BY DEF DigestDoc
<1>6. [d EXCEPT !.complete = TRUE].complete = TRUE
  BY DEF DigestDoc
<1>q. QED
  BY <1>2, <1>3, <1>4, <1>5, <1>6

\* A run begins with what is to be collected, or with what a document names already.
LEMMA GenerateKeeps ==
    ASSUME DigestInv, SnapShape', NEW from, NEW w \in Digests, Generate(from, w)
    PROVE  DigestInv'
<1>1. DocsShape'
  BY DEF DigestInv, DocsShape, SnapShape, Generate
<1>2. CASE Begun(w)
  <2>1. ddoc[w] \in DigestDoc /\ ddoc[w] # NONE
    BY <1>2 DEF DigestInv, DigestShape, Begun
  <2>2. ddoc[w].ids \subseteq Episodes /\ \A e \in ddoc[w].ids : w \in listed[e]
    BY <2>1 DEF DigestInv, FileFirst, DigestDoc
  <2>3. run' = [at |-> "marking", week |-> w, ids |-> ddoc[w].ids, todo |-> ddoc[w].ids,
                ep |-> NONE, saw |-> NONE]
    BY <1>2 DEF Generate, Idle
  <2>4. UNCHANGED <<doc, week, ddoc, listed>>
    BY DEF Generate
  <2>5. DigestShape'
    BY <2>2, <2>3, <2>4 DEF DigestInv, DigestShape
  <2>6. FileFirst'
    BY <2>1, <2>2, <2>3, <2>4 DEF DigestInv, FileFirst
  <2>q. QED
    BY <1>1, <2>4, <2>5, <2>6 DEF DigestInv, ClaimsBacked, PublishedWasListed
<1>3. CASE ~Begun(w)
  <2>1. run' = [at |-> "file", week |-> w, ids |-> Candidates(from, w), todo |-> {},
                ep |-> NONE, saw |-> NONE]
    BY <1>3 DEF Generate, Idle
  <2>2. Candidates(from, w) \subseteq Episodes
    BY DEF Candidates
  <2>4. UNCHANGED <<doc, week, ddoc, listed>>
    BY DEF Generate
  <2>5. DigestShape'
    BY <2>1, <2>2, <2>4 DEF DigestInv, DigestShape
  <2>6. FileFirst'
    BY <2>1, <2>4 DEF DigestInv, FileFirst
  <2>q. QED
    BY <1>1, <2>4, <2>5, <2>6 DEF DigestInv, ClaimsBacked, PublishedWasListed
<1>q. QED
  BY <1>2, <1>3

\* The steps that leave the documents of the episodes alone.
LEMMA RunKeeps ==
    ASSUME DigestInv, SnapShape',
           \/ WriteFile \/ PutDigest \/ CompleteMarking \/ MarkFails \/ DigestFails
           \/ NextWeek \/ \E e \in Episodes : MarkRead(e)
    PROVE  DigestInv'
<1>1. DocsShape'
  BY DEF DigestInv, DocsShape, SnapShape, WriteFile, PutDigest, CompleteMarking, MarkFails,
         DigestFails, NextWeek, MarkRead
<1>2. CASE WriteFile
  <2>1. \A e \in Episodes : /\ listed[e] \subseteq listed'[e]
                            /\ e \in run.ids => run.week \in listed'[e]
    BY <1>2 DEF WriteFile
  <2>2. DigestShape' /\ run'.at = "put" /\ run'.ids = run.ids /\ run'.week = run.week
    BY <1>2 DEF DigestInv, DigestShape, WriteFile
  <2>3. doc' = doc /\ ddoc' = ddoc
    BY <1>2 DEF WriteFile
  <2>4. FileFirst'
    BY <2>1, <2>2, <2>3 DEF DigestInv, DigestShape, FileFirst, DigestDoc
  <2>5. ClaimsBacked'
    BY <2>1, <2>3 DEF DigestInv, ClaimsBacked
  <2>6. PublishedWasListed'
    BY <2>1, <2>3 DEF DigestInv, PublishedWasListed
  <2>q. QED
    BY <1>1, <2>2, <2>4, <2>5, <2>6 DEF DigestInv
<1>3. CASE PutDigest
  <2>1. /\ [ids |-> run.ids, complete |-> FALSE] \in DigestDoc
        /\ [ids |-> run.ids, complete |-> FALSE] # NONE
    BY DocumentShape DEF DigestInv, DigestShape
  <2>2. /\ ddoc' = [ddoc EXCEPT ![run.week] = [ids |-> run.ids, complete |-> FALSE]]
        /\ doc' = doc /\ listed' = listed /\ week' = week
        /\ run' = [run EXCEPT !.at = "marking", !.todo = run.ids]
        /\ run.at = "put"
    BY <1>3 DEF PutDigest
  <2>3. DigestShape'
    BY <2>1, <2>2 DEF DigestInv, DigestShape
  <2>4. \A w \in Digests : IF w = run.week THEN ddoc'[w] # NONE /\ ddoc'[w].ids = run.ids
                                          ELSE ddoc'[w] = ddoc[w]
    BY <2>1, <2>2 DEF DigestInv, DigestShape
  <2>5. FileFirst'
    BY <2>2, <2>4 DEF DigestInv, DigestShape, FileFirst
  <2>6. ClaimsBacked'
    <3>1. ASSUME NEW w, w = run.week \/ ddoc[w] # NONE, w \in Digests PROVE ddoc'[w] # NONE
      BY <2>4, <3>1
    <3>2. ASSUME NEW w, ddoc[w] # NONE, w \notin Digests PROVE ddoc'[w] = ddoc[w]
      BY <2>2, <3>2 DEF DigestInv, DigestShape
    <3>q. QED
      BY <2>2, <3>1, <3>2 DEF DigestInv, ClaimsBacked
  <2>7. PublishedWasListed'
    BY <2>2 DEF DigestInv, PublishedWasListed
  <2>q. QED
    BY <1>1, <2>3, <2>5, <2>6, <2>7 DEF DigestInv
<1>4. CASE CompleteMarking
  <2>1. run.at = "marking" /\ ddoc[run.week] \in DigestDoc
    BY <1>4 DEF CompleteMarking, DigestInv, DigestShape, FileFirst
  <2>2. PICK ids \in SUBSET Episodes, b \in BOOLEAN :
            ddoc[run.week] = [ids |-> ids, complete |-> b]
    BY <2>1 DEF DigestDoc
  <2>3. /\ ddoc' = [ddoc EXCEPT ![run.week] = [ids |-> ids, complete |-> TRUE]]
        /\ doc' = doc /\ listed' = listed /\ week' = week
        /\ run' = [at |-> "idle", week |-> run.week, ids |-> {}, todo |-> {},
                   ep |-> NONE, saw |-> NONE]
    <3>1. [ddoc[run.week] EXCEPT !.complete = TRUE] = [ids |-> ids, complete |-> TRUE]
      <4>1. ddoc[run.week].ids = ids
        BY <2>2
      <4>q. QED
        BY <2>1, <4>1, FlagSet, Zenon
    <3>2. ddoc' = [ddoc EXCEPT ![run.week] = [ddoc[run.week] EXCEPT !.complete = TRUE]]
      BY <1>4 DEF CompleteMarking
    <3>q. QED
      BY <1>4, <3>1, <3>2, Zenon DEF CompleteMarking, Idle
  <2>4. /\ [ids |-> ids, complete |-> TRUE] \in DigestDoc
        /\ [ids |-> ids, complete |-> TRUE] # NONE
    BY DocumentShape
  <2>5. DigestShape'
    BY <2>3, <2>4 DEF DigestInv, DigestShape
  <2>6. \A w \in Digests : IF w = run.week THEN ddoc'[w] # NONE /\ ddoc'[w].ids = ids
                                          ELSE ddoc'[w] = ddoc[w]
    BY <2>3, <2>4 DEF DigestInv, DigestShape
  <2>7. FileFirst'
    <3>1. \A e \in ids : run.week \in listed[e]
      BY <2>1, <2>2 DEF DigestInv, DigestShape, FileFirst
    <3>q. QED
      BY <2>3, <2>6, <3>1 DEF DigestInv, DigestShape, FileFirst
  <2>8. ClaimsBacked'
    <3>1. ASSUME NEW w, ddoc[w] # NONE PROVE ddoc'[w] # NONE
      BY <2>3, <2>4, <3>1 DEF DigestInv, DigestShape
    <3>q. QED
      BY <2>3, <3>1 DEF DigestInv, ClaimsBacked
  <2>9. PublishedWasListed'
    BY <2>3 DEF DigestInv, PublishedWasListed
  <2>q. QED
    BY <1>1, <2>5, <2>7, <2>8, <2>9 DEF DigestInv
<1>5. ASSUME doc' = doc, ddoc' = ddoc, listed' = listed, week' \in Digests,
             \/ run' = run
             \/ run' = Idle(run.week)
             \/ \E r : /\ DOMAIN r = DOMAIN run /\ r.week = run.week /\ r.ids = run.ids
                       /\ r.todo \subseteq run.todo /\ run.at \in {"marking", "write"}
                       /\ \/ r.at = "marking"
                          \/ r.at = "write" /\ r.ep \in run.ids /\ doc[r.ep].claim = NONE
                       /\ run' = r
      PROVE  DigestInv'
  <2>1. DigestShape'
    BY <1>5 DEF DigestInv, DigestShape, Idle
  <2>2. FileFirst'
    <3>1. CASE run' = run
      BY <1>5, <3>1 DEF DigestInv, FileFirst
    <3>2. CASE run'.at = "idle"
      BY <1>5, <3>2 DEF DigestInv, FileFirst
    <3>3. ASSUME NEW r, r.week = run.week, r.ids = run.ids,
                 r.todo \subseteq run.todo, run.at \in {"marking", "write"},
                 \/ r.at = "marking"
                 \/ r.at = "write" /\ r.ep \in run.ids /\ doc[r.ep].claim = NONE,
                 run' = r
          PROVE  FileFirst'
      BY <1>5, <3>3 DEF DigestInv, FileFirst
    <3>q. QED
      BY <1>5, <3>1, <3>2, <3>3 DEF Idle
  <2>3. ClaimsBacked' /\ PublishedWasListed'
    BY <1>5 DEF DigestInv, ClaimsBacked, PublishedWasListed
  <2>q. QED
    BY <1>1, <2>1, <2>2, <2>3 DEF DigestInv
<1>6. CASE MarkFails
  <2>1. DOMAIN run = {"at", "week", "ids", "todo", "ep", "saw"}
    BY DEF DigestInv, DigestShape
  <2>2. \E r : /\ DOMAIN r = DOMAIN run /\ r.week = run.week /\ r.ids = run.ids
               /\ r.todo \subseteq run.todo /\ run.at \in {"marking", "write"}
               /\ r.at = "marking"
               /\ run' = r
    <3>1. /\ run.at = "write"
          /\ run' = [run EXCEPT !.at = "marking", !.ep = NONE, !.saw = NONE]
      BY <1>6 DEF MarkFails
    <3>q. QED
      BY <2>1, <3>1
  <2>q. QED
    BY <1>5, <1>6, <2>2 DEF MarkFails, DigestInv, DigestShape
<1>7. CASE DigestFails \/ NextWeek
  BY <1>5, <1>7 DEF DigestFails, NextWeek, DigestInv, DigestShape
<1>8. ASSUME NEW e \in Episodes, MarkRead(e) PROVE DigestInv'
  <2>1. /\ DOMAIN run = {"at", "week", "ids", "todo", "ep", "saw"}
        /\ run.at = "marking" /\ e \in run.todo /\ e \in run.ids
    BY <1>8 DEF MarkRead, DigestInv, DigestShape, FileFirst
  <2>2. \/ run' = [run EXCEPT !.todo = @ \ {e}]
        \/ /\ doc[e].claim = NONE
           /\ run' = [run EXCEPT !.at = "write", !.todo = @ \ {e}, !.ep = e,
                                 !.saw = doc[e].status]
    BY <1>8 DEF MarkRead
  <2>3. \E r : /\ DOMAIN r = DOMAIN run /\ r.week = run.week /\ r.ids = run.ids
               /\ r.todo \subseteq run.todo
               /\ \/ r.at = "marking"
                  \/ r.at = "write" /\ r.ep \in run.ids /\ doc[r.ep].claim = NONE
               /\ run' = r
    BY <2>1, <2>2
  <2>q. QED
    BY <1>5, <1>8, <2>1, <2>3 DEF MarkRead, DigestInv, DigestShape
<1>q. QED
  BY <1>2, <1>3, <1>4, <1>6, <1>7, <1>8

\* The one step that claims, an episode that is not claimed and that the file lists.
LEMMA MarkWriteKeeps ==
    ASSUME DigestInv, snap' = snap, MarkWrite
    PROVE  /\ DigestInv'
           /\ \A e \in Episodes : doc[e].claim # NONE => doc'[e].claim = doc[e].claim
           /\ \A e \in Episodes :
                 doc'[e].claim = doc[e].claim \/ (e = run.ep /\ doc'[e].claim = run.week)
<1>1. /\ run.ep \in Episodes /\ run.week \in listed[run.ep] /\ doc[run.ep].claim = NONE
      /\ run.week \in Digests /\ ddoc[run.week] # NONE
  BY DEF MarkWrite, DigestInv, FileFirst, DigestShape
<1>2. UNCHANGED <<week, ddoc, listed, snap>>
  BY DEF MarkWrite
<1>3. \/ doc' = doc
      \/ \E d : /\ Documented(d) /\ d.claim = run.week
                /\ d.status = "PUBLISHED" \/ d.status = doc[run.ep].status
                /\ doc' = [doc EXCEPT ![run.ep] = d]
  <2>1. Documented(doc[run.ep])
    BY <1>1 DEF DigestInv, DocsShape
  <2>2. \E d : /\ Documented(d) /\ d.claim = run.week /\ d.status = doc[run.ep].status
               /\ d = [doc[run.ep] EXCEPT !.claim = run.week]
    BY <2>1 DEF Documented, Fields
  <2>3. \E d : /\ Documented(d) /\ d.claim = run.week /\ d.status = "PUBLISHED"
               /\ d = [[doc[run.ep] EXCEPT !.claim = run.week] EXCEPT !.status = "PUBLISHED"]
    BY <2>1 DEF Documented, Fields
  <2>4. \/ doc' = doc
        \/ doc' = [doc EXCEPT ![run.ep] = [doc[run.ep] EXCEPT !.claim = run.week]]
        \/ doc' = [doc EXCEPT ![run.ep] =
                     [[doc[run.ep] EXCEPT !.claim = run.week] EXCEPT !.status = "PUBLISHED"]]
    BY Zenon DEF MarkWrite, Transition
  <2>q. QED
    BY <2>2, <2>3, <2>4, Zenon
<1>4. DocsShape'
  <2>1. ASSUME NEW d, Documented(d), doc' = [doc EXCEPT ![run.ep] = d]
        PROVE  DocsShape'
    BY <1>1, <1>2, <2>1 DEF DigestInv, DocsShape, Documented, Fields
  <2>2. ASSUME doc' = doc PROVE DocsShape'
    BY <1>2, <2>2 DEF DigestInv, DocsShape, Documented
  <2>q. QED
    BY <1>3, <2>1, <2>2
<1>5. DOMAIN doc = Episodes
  BY DEF DigestInv, DocsShape
<1>6. \A e \in Episodes :
          /\ doc'[e].claim = doc[e].claim \/ (e = run.ep /\ doc'[e].claim = run.week)
          /\ doc'[e].status = doc[e].status \/ e = run.ep
  <2>1. ASSUME NEW d, d.claim = run.week, doc' = [doc EXCEPT ![run.ep] = d],
               NEW e \in Episodes
        PROVE  /\ doc'[e].claim = doc[e].claim \/ (e = run.ep /\ doc'[e].claim = run.week)
               /\ doc'[e].status = doc[e].status \/ e = run.ep
    BY <1>5, <2>1
  <2>2. ASSUME NEW d, d.claim = run.week, doc' = [doc EXCEPT ![run.ep] = d]
        PROVE  \A e \in Episodes :
                   /\ doc'[e].claim = doc[e].claim \/ (e = run.ep /\ doc'[e].claim = run.week)
                   /\ doc'[e].status = doc[e].status \/ e = run.ep
    BY <2>1, <2>2
  <2>3. CASE doc' = doc
    BY <2>3
  <2>q. QED
    BY <1>3, <2>2, <2>3
<1>7. ClaimsBacked' /\ PublishedWasListed'
  <2>1. ClaimsBacked'
    BY <1>1, <1>2, <1>6 DEF DigestInv, ClaimsBacked
  <2>2. PublishedWasListed'
    BY <1>1, <1>2, <1>6 DEF DigestInv, PublishedWasListed
  <2>q. QED
    BY <2>1, <2>2
<1>8. run' = [run EXCEPT !.at = "marking", !.ep = NONE, !.saw = NONE] /\ run.at = "write"
  BY DEF MarkWrite
<1>9. DigestShape'
  BY <1>2, <1>8 DEF DigestInv, DigestShape
<1>10. run'.at = "marking" /\ run'.week = run.week /\ run'.ids = run.ids /\ run'.todo = run.todo
  BY <1>8 DEF DigestInv, DigestShape
<1>11. FileFirst'
  BY <1>2, <1>8, <1>10 DEF DigestInv, FileFirst
<1>12. \A e \in Episodes : doc[e].claim # NONE => doc'[e].claim = doc[e].claim
  BY <1>1, <1>6
<1>q. QED
  BY <1>4, <1>6, <1>7, <1>9, <1>11, <1>12 DEF DigestInv

-----------------------------------------------------------------------------
(* The specification                                                       *)

\* A step of the pipeline, of the owner or of nobody, or a crash: no file, no digest document.
OutsideStep ==
    /\ Harmless /\ OwnerShape' /\ PromisesKept'
    /\ UNCHANGED <<week, ddoc, listed>>
    /\ run' = run \/ run' = Idle(run.week)

\* A step of the digest job.
DigestActs ==
    /\ UNCHANGED <<snap, ownerWork>>
    /\ \/ \E w \in Digests : \E from : Generate(from, w)
       \/ DigestStep \/ NextWeek \/ DigestMishap

\* A write to the documents beside an unchanged digest, and what it does to a claim.
LEMMA OutsideKeeps ==
    ASSUME LifeInv, OutsideStep
    PROVE  /\ LifeInv'
           /\ \A e \in Episodes : doc[e].claim # NONE => doc'[e].claim \in {doc[e].claim, NONE}
<1>1. DigestShape'
  BY DEF LifeInv, OutsideStep, DigestShape, Idle
<1>2. run' = run \/ run'.at = "idle"
  BY DEF OutsideStep, Idle
<1>3. FileFirst' /\ ClaimsBacked' /\ PublishedWasListed'
  BY <1>1, <1>2, HarmlessKeeps DEF LifeInv, OutsideStep
<1>q. QED
  BY <1>1, <1>3 DEF LifeInv, OutsideStep, Harmless

\* A step of the digest beside unchanged requests.
LEMMA DigestKeeps ==
    ASSUME LifeInv, DigestInv', UNCHANGED ownerWork,
           \A e \in Episodes : listed[e] \subseteq listed'[e]
    PROVE  LifeInv'
<1>1. OwnerShape' /\ PromisesKept'
  BY DEF LifeInv, OwnerShape, PromisesKept, ownerWork
<1>q. QED
  BY <1>1 DEF LifeInv, DigestInv

LEMMA DigestActions ==
    ASSUME LifeInv, DigestActs
    PROVE  /\ LifeInv'
           /\ \A e \in Episodes : doc[e].claim # NONE => doc'[e].claim \in {doc[e].claim, NONE}
<1>0. DigestInv /\ SnapShape' /\ snap' = snap /\ UNCHANGED ownerWork
  BY DEF LifeInv, DigestInv, DocsShape, SnapShape, DigestActs
<1>1. ASSUME NEW w \in Digests, NEW from, Generate(from, w)
      PROVE  DigestInv' /\ doc' = doc /\ listed' = listed
  BY <1>0, <1>1, GenerateKeeps DEF Generate
<1>2. CASE \/ PutDigest \/ CompleteMarking \/ MarkFails \/ DigestFails
           \/ NextWeek \/ \E e \in Episodes : MarkRead(e)
  <2>1. DigestInv'
    BY <1>0, <1>2, RunKeeps
  <2>2. doc' = doc /\ listed' = listed
    BY <1>2 DEF PutDigest, CompleteMarking, MarkFails, DigestFails, NextWeek, MarkRead
  <2>q. QED
    BY <1>0, <2>1, <2>2, DigestKeeps
<1>3. CASE WriteFile
  <2>1. DigestInv'
    BY <1>0, <1>3, RunKeeps
  <2>2. doc' = doc /\ \A e \in Episodes : listed[e] \subseteq listed'[e]
    BY <1>3 DEF WriteFile
  <2>q. QED
    BY <1>0, <2>1, <2>2, DigestKeeps
<1>4. CASE MarkWrite
  <2>1. DigestInv' /\ \A e \in Episodes : doc[e].claim # NONE => doc'[e].claim = doc[e].claim
    BY <1>0, <1>4, MarkWriteKeeps
  <2>2. listed' = listed
    BY <1>4 DEF MarkWrite
  <2>q. QED
    BY <1>0, <2>1, <2>2, DigestKeeps
<1>q. QED
  BY <1>0, <1>1, <1>2, <1>3, <1>4, DigestKeeps DEF DigestActs, DigestStep, DigestMishap

LEMMA LifeStart == Init => LifeInv
<1> SUFFICES ASSUME Init PROVE LifeInv
  OBVIOUS
<1>1. Documented(NewDoc) /\ NewDoc.claim = NONE /\ NewDoc.status = "NEW"
  BY DEF Documented, NewDoc, Fields
<1>2. doc = [e \in Episodes |-> NewDoc] /\ snap = [e \in Episodes |-> NewDoc]
  BY DEF Init, PipelineInit
<1>3. DocsShape /\ ClaimsBacked /\ PublishedWasListed
  BY <1>1, <1>2 DEF DocsShape, ClaimsBacked, PublishedWasListed
<1>4. OwnerShape /\ PromisesKept
  BY NoneAssumption DEF Init, OwnerInit, NoDemand, OwnerShape, PromisesKept, EpisodeStatus
<1>5. DigestShape /\ FileFirst
  BY DEF Init, DigestInit, Idle, DigestShape, FileFirst
<1>q. QED
  BY <1>3, <1>4, <1>5 DEF LifeInv

\* Every step is one or the other.
LEMMA WhoActs ==
    ASSUME LifeInv, [Next]_vars
    PROVE  OutsideStep \/ DigestActs
<1>0. DocsShape /\ OwnerShape /\ PromisesKept /\ PublishedWasListed
  BY DEF LifeInv
<1>1. CASE Pipeline
  <2>1. Harmless
    BY <1>0, <1>1, PipelineHarmless DEF Pipeline
  <2>2. OwnerShape' /\ PromisesKept'
    BY <1>0, <1>1 DEF Pipeline, OwnerShape, PromisesKept, ownerWork, digestWork
  <2>q. QED
    BY <1>1, <2>1, <2>2 DEF Pipeline, OutsideStep, digestWork
<1>2. CASE Request
  <2>0. snap' = snap /\ SnapShape'
    BY <1>0, <1>2 DEF Request, workVars, DocsShape, SnapShape
  <2>1. ASSUME NEW e \in Episodes, DemandStart(e) \/ RetryRead(e), UNCHANGED digestWork
        PROVE  OutsideStep
    <3>1. doc' = doc /\ UNCHANGED <<week, ddoc, listed, run>>
      BY <2>1 DEF DemandStart, RetryRead, digestWork
    <3>2. OwnerShape' /\ PromisesKept'
      BY <1>0, <2>1, <3>1, StartPromises
    <3>q. QED
      BY <1>0, <2>0, <3>1, <3>2, NoWriteHarmless DEF OutsideStep
  <2>2. ASSUME NEW e \in Episodes, Escalate(e), UNCHANGED digestWork
        PROVE  OutsideStep
    <3>1. Harmless
      BY <1>0, <2>0, <2>2, ButtonsHarmless
    <3>2. OwnerShape' /\ PromisesKept'
      BY <1>0, <2>2 DEF Escalate, ownerWork, digestWork, OwnerShape, PromisesKept
    <3>q. QED
      BY <2>2, <3>1, <3>2 DEF OutsideStep, digestWork
  <2>3. ASSUME RescoreStart, UNCHANGED digestWork PROVE OutsideStep
    <3>1. doc' = doc /\ OwnerShape' /\ PromisesKept' /\ UNCHANGED <<week, ddoc, listed, run>>
      BY <1>0, <2>3 DEF RescoreStart, digestWork, OwnerShape, PromisesKept
    <3>q. QED
      BY <1>0, <2>0, <3>1, NoWriteHarmless DEF OutsideStep
  <2>4. ASSUME ManualDigest, UNCHANGED ownerWork PROVE DigestActs
    BY <2>0, <2>4 DEF ManualDigest, DigestActs
  <2>q. QED
    BY <1>2, <2>1, <2>2, <2>3, <2>4 DEF Request
<1>3. CASE Owner
  <2>0. snap' = snap /\ SnapShape' /\ UNCHANGED <<week, ddoc, listed, run>>
    BY <1>0, <1>3 DEF Owner, workVars, digestWork, DocsShape, SnapShape
  <2>1. ASSUME NEW e \in Episodes, DemandStep(e) \/ RetryWrite(e)
        PROVE  Harmless /\ OwnerShape' /\ PromisesKept'
    BY <1>0, <2>0, <2>1, DemandHarmless, ButtonsHarmless, StepPromises
  <2>2. ASSUME NEW e \in Episodes, Rescore(e) \/ RescoreFails(e)
        PROVE  Harmless /\ OwnerShape' /\ PromisesKept'
    <3>1. Harmless
      BY <1>0, <2>0, <2>2, ButtonsHarmless
    <3>q. QED
      BY <1>0, <2>0, <2>2, <3>1 DEF Rescore, RescoreFails, OwnerShape, PromisesKept
  <2>3. ASSUME RescoreDeferred PROVE Harmless /\ OwnerShape' /\ PromisesKept'
    <3>1. doc' = doc /\ OwnerShape' /\ PromisesKept'
      BY <1>0, <2>0, <2>3 DEF RescoreDeferred, OwnerShape, PromisesKept
    <3>q. QED
      BY <1>0, <2>0, <3>1, NoWriteHarmless
  <2>q. QED
    BY <1>3, <2>0, <2>1, <2>2, <2>3 DEF Owner, OutsideStep
<1>4. CASE WeeklyDigest
  <2>1. \/ \E w \in Digests : \E from : Generate(from, w)
        \/ DigestStep \/ NextWeek
    BY <1>4 DEF WeeklyDigest, ScheduledDigest, LifeInv, DigestShape
  <2>q. QED
    BY <1>4, <2>1 DEF WeeklyDigest, workVars, DigestActs
<1>5. CASE DigestGoesWrong
  BY <1>5 DEF DigestGoesWrong, workVars, DigestActs
<1>6. CASE Crash
  <2>1. UNCHANGED <<doc, week, ddoc, listed>> /\ run' = Idle(run.week)
    BY <1>6 DEF Crash, DigestDies
  <2>2. SnapShape'
    <3>1. Documented(NewDoc)
      BY DEF Documented, NewDoc, Fields
    <3>q. QED
      BY <1>6, <3>1 DEF Crash, RunDies, SnapShape
  <2>3. OwnerShape' /\ PromisesKept'
    BY <1>6, NoneAssumption DEF Crash, OwnerDies, NoDemand, OwnerShape, PromisesKept,
       EpisodeStatus
  <2>q. QED
    BY <1>0, <2>1, <2>2, <2>3, NoWriteHarmless DEF OutsideStep
<1>7. CASE UNCHANGED vars
  <2>1. /\ UNCHANGED <<doc, week, ddoc, listed, run>> /\ SnapShape'
        /\ OwnerShape' /\ PromisesKept'
    BY <1>0, <1>7 DEF vars, workVars, ownerWork, digestWork, DocsShape, SnapShape,
       OwnerShape, PromisesKept
  <2>q. QED
    BY <1>0, <2>1, NoWriteHarmless DEF OutsideStep
<1>q. QED
  BY <1>1, <1>2, <1>3, <1>4, <1>5, <1>6, <1>7 DEF Next

\* No step of anybody, a crash included, breaks the invariant or hands a claim on.
LEMMA LifeStep ==
    ASSUME LifeInv, [Next]_vars
    PROVE  /\ LifeInv'
           /\ \A e \in Episodes : doc[e].claim # NONE => doc'[e].claim \in {doc[e].claim, NONE}
BY WhoActs, OutsideKeeps, DigestActions

LEMMA LifeInvariant == Spec => []LifeInv
<1>1. LifeInv /\ [Next]_vars => LifeInv'
  BY LifeStep
<1>q. QED
  BY LifeStart, <1>1, PTL DEF Spec

\* Whatever runs at the same time, fails or dies: an episode that carries the claim of a
\* digest is named in a file of that digest's week, and the digest has its document
\* (generate.py:287-288).
THEOREM ClaimsHaveFiles == Spec => []ClaimsBacked
<1>1. LifeInv => ClaimsBacked
  BY DEF LifeInv
<1>q. QED
  BY LifeInvariant, <1>1, PTL

\* Nothing reads PUBLISHED that the owner has not been shown in a file, on-demand runs and
\* retries of listed episodes included (runner.py:620-626).
THEOREM PublishedHasAFile == Spec => []PublishedWasListed
<1>1. LifeInv => PublishedWasListed
  BY DEF LifeInv
<1>q. QED
  BY LifeInvariant, <1>1, PTL

-----------------------------------------------------------------------------
(* The ledger of the digests                                               *)

\* While a run marks, what it has in hand is what the document of its week names.
InHandIsNamed == run.at \in {"marking", "write"} => ddoc[run.week].ids = run.ids

\* The mapping, as in the instance.
Named == [w \in Digests |-> IF ddoc[w] = NONE THEN {} ELSE ddoc[w].ids]

Claims == [e \in Episodes |-> doc[e].claim]

LedgerVars == <<listed, Named, Claims>>

\* Claims kept or cleared beside unchanged files and documents.
LEMMA ClaimsCleared ==
    ASSUME UNCHANGED <<listed, ddoc>>,
           \A e \in Episodes : doc'[e].claim \in {doc[e].claim, NONE}
    PROVE  [Ledger!Next]_LedgerVars
<1> DEFINE S == {e \in Episodes : doc'[e].claim = NONE}
<1>1. UNCHANGED <<listed, Named>>
  BY DEF Named
<1>2. Claims' = [e \in Episodes |-> IF e \in S THEN NONE ELSE Claims[e]]
  BY DEF Claims
<1>3. S \in SUBSET Episodes
  OBVIOUS
<1> HIDE DEF S
<1>4. Ledger!Next
  BY <1>1, <1>2, <1>3, Zenon DEF Ledger!Next, Ledger!Clear, Named, Claims
<1> QED
  BY <1>4, Zenon

\* The steps of the digest job, each a step of the ledger or none.
LEMMA DigestStepsLedger ==
    ASSUME DigestInv, InHandIsNamed, DigestActs
    PROVE  InHandIsNamed' /\ [Ledger!Next]_LedgerVars
<1>0. /\ DOMAIN run = {"at", "week", "ids", "todo", "ep", "saw"}
      /\ run.week \in Digests /\ run.ids \in SUBSET Episodes
      /\ ddoc \in [Digests -> DigestDoc \cup {NONE}]
  BY DEF DigestInv, DigestShape
<1>1. ASSUME UNCHANGED <<doc, listed, ddoc>> PROVE [Ledger!Next]_LedgerVars
  BY <1>1, ClaimsCleared
<1>2. ASSUME NEW w \in Digests, NEW from, Generate(from, w)
      PROVE  InHandIsNamed' /\ [Ledger!Next]_LedgerVars
  <2>1. UNCHANGED <<doc, listed, ddoc>>
    BY <1>2 DEF Generate
  <2>2. run'.at = "file" \/ (run'.ids = ddoc[w].ids /\ run'.week = w)
    BY <1>2 DEF Generate, Idle
  <2> QED
    BY <1>1, <2>1, <2>2 DEF InHandIsNamed
<1>3. CASE WriteFile
  <2>1. UNCHANGED <<doc, ddoc>> /\ run'.at = "put"
    BY <1>0, <1>3 DEF WriteFile
  <2>2. UNCHANGED <<Named, Claims>>
    BY <2>1 DEF Named, Claims
  <2>3. listed' = [e \in Episodes |-> IF e \in run.ids THEN listed[e] \cup {run.week}
                                                      ELSE listed[e]]
    BY <1>3 DEF WriteFile
  <2>4. Ledger!Next
    BY <1>0, <2>2, <2>3, Zenon DEF Ledger!Next, Ledger!File, Named, Claims
  <2>5. InHandIsNamed'
    BY <2>1 DEF InHandIsNamed
  <2> QED
    BY <2>4, <2>5, Zenon
<1>4. CASE PutDigest
  <2>1. [ids |-> run.ids, complete |-> FALSE] # NONE
    BY <1>0, DocumentShape
  <2>2. /\ UNCHANGED <<doc, listed>>
        /\ ddoc' = [ddoc EXCEPT ![run.week] = [ids |-> run.ids, complete |-> FALSE]]
        /\ run'.ids = run.ids /\ run'.week = run.week /\ run.at = "put"
    BY <1>0, <1>4 DEF PutDigest
  <2>3. Named' = [Named EXCEPT ![run.week] = run.ids]
    BY <1>0, <2>1, <2>2 DEF Named
  <2>4. UNCHANGED <<listed, Claims>> /\ \A e \in run.ids : run.week \in listed[e]
    BY <2>2 DEF Claims, DigestInv, FileFirst
  <2>5. Ledger!Next
    BY <1>0, <2>3, <2>4, Zenon DEF Ledger!Next, Ledger!Document, Named, Claims
  <2>6. ddoc'[run.week].ids = run.ids
    BY <1>0, <2>2
  <2>7. InHandIsNamed'
    BY <2>2, <2>6 DEF InHandIsNamed
  <2> QED
    BY <2>5, <2>7, Zenon
<1>5. CASE \E e \in Episodes : MarkRead(e)
  <2>1. UNCHANGED <<doc, listed, ddoc>> /\ run.at = "marking"
    BY <1>5 DEF MarkRead
  <2>2. run'.ids = run.ids /\ run'.week = run.week
    BY <1>0, <1>5 DEF MarkRead
  <2> QED
    BY <1>1, <2>1, <2>2 DEF InHandIsNamed
<1>6. CASE MarkWrite
  <2>1. /\ run.at = "write" /\ UNCHANGED <<listed, ddoc>>
        /\ run'.ids = run.ids /\ run'.week = run.week
    BY <1>0, <1>6 DEF MarkWrite
  <2>2. run.ep \in run.ids /\ doc[run.ep].claim = NONE /\ ddoc[run.week] # NONE
    BY <2>1 DEF DigestInv, FileFirst
  <2>3. \A e \in Episodes :
            doc'[e].claim = doc[e].claim \/ (e = run.ep /\ doc'[e].claim = run.week)
    BY <1>6, MarkWriteKeeps DEF DigestActs
  <2>4. UNCHANGED <<listed, Named>> /\ Named[run.week] = run.ids
    BY <1>0, <2>1, <2>2 DEF Named, InHandIsNamed
  <2>5. ASSUME doc'[run.ep].claim = run.week PROVE [Ledger!Next]_LedgerVars
    <3>1. run.ep \in Episodes /\ run.ep \in Named[run.week]
      BY <1>0, <2>2, <2>4
    <3>2. Claims' = [Claims EXCEPT ![run.ep] = run.week] /\ Claims[run.ep] = NONE
      BY <1>0, <2>2, <2>3, <2>5 DEF Claims
    <3>3. Ledger!Next
      BY <1>0, <2>4, <3>1, <3>2, Zenon DEF Ledger!Next, Ledger!Claim, Named, Claims
    <3> QED
      BY <3>3, Zenon
  <2>6. ASSUME doc'[run.ep].claim # run.week PROVE [Ledger!Next]_LedgerVars
    <3>1. \A e \in Episodes : doc'[e].claim \in {doc[e].claim, NONE}
      BY <2>3, <2>6
    <3> QED
      BY <2>1, <3>1, ClaimsCleared, Zenon
  <2>7. InHandIsNamed'
    BY <2>1 DEF InHandIsNamed
  <2> QED
    BY <2>5, <2>6, <2>7, Zenon
<1>7. CASE CompleteMarking
  <2>1. /\ run.at = "marking" /\ run'.at = "idle" /\ UNCHANGED <<doc, listed>>
        /\ ddoc' = [ddoc EXCEPT ![run.week] = [ddoc[run.week] EXCEPT !.complete = TRUE]]
    BY <1>7 DEF CompleteMarking, Idle
  <2>2. ddoc[run.week] \in DigestDoc /\ ddoc[run.week] # NONE
    BY <1>0, <2>1 DEF DigestInv, FileFirst
  <2>3. /\ [ddoc[run.week] EXCEPT !.complete = TRUE] # NONE
        /\ [ddoc[run.week] EXCEPT !.complete = TRUE].ids = ddoc[run.week].ids
    BY <2>2, NoDigestAssumption DEF DigestDoc
  <2>4. Named' = Named /\ Claims' = Claims
    BY <1>0, <2>1, <2>2, <2>3 DEF Named, Claims
  <2> QED
    BY <2>1, <2>4 DEF InHandIsNamed, LedgerVars
<1>8. CASE MarkFails
  <2>1. UNCHANGED <<doc, listed, ddoc>> /\ run.at = "write"
    BY <1>8 DEF MarkFails
  <2>2. run'.ids = run.ids /\ run'.week = run.week
    BY <1>0, <1>8 DEF MarkFails
  <2> QED
    BY <1>1, <2>1, <2>2 DEF InHandIsNamed
<1>9. CASE DigestFails \/ NextWeek
  <2>1. UNCHANGED <<doc, listed, ddoc>> /\ (run'.at = "idle" \/ run' = run)
    BY <1>9 DEF DigestFails, NextWeek, Idle
  <2> QED
    BY <1>1, <2>1 DEF InHandIsNamed
<1> QED
  BY <1>2, <1>3, <1>4, <1>5, <1>6, <1>7, <1>8, <1>9 DEF DigestActs, DigestStep, DigestMishap

\* The life of the episodes, seen by who reads the digests, is the ledger's: whatever
\* crashes, is refused or asked for, a file comes before the document that names its
\* episodes, and that before the claims.
THEOREM DigestsKeepALedger == Spec => ImplementsLedger
<1>1. Init => InHandIsNamed /\ Ledger!Init
  <2> SUFFICES ASSUME Init PROVE InHandIsNamed /\ Ledger!Init
    OBVIOUS
  <2>1. doc = [e \in Episodes |-> NewDoc] /\ NewDoc.claim = NONE
    BY DEF Init, PipelineInit, NewDoc
  <2>2. /\ listed = [e \in Episodes |-> {}] /\ run.at = "idle"
        /\ ddoc = [w \in Digests |-> NONE]
    BY DEF Init, DigestInit, Idle
  <2> QED
    BY <2>1, <2>2 DEF InHandIsNamed, Ledger!Init
<1>2. LifeInv /\ InHandIsNamed /\ [Next]_vars => InHandIsNamed' /\ [Ledger!Next]_LedgerVars
  <2> SUFFICES ASSUME LifeInv, InHandIsNamed, [Next]_vars
               PROVE  InHandIsNamed' /\ [Ledger!Next]_LedgerVars
    OBVIOUS
  <2>1. CASE OutsideStep
    <3>1. /\ UNCHANGED <<listed, ddoc>> /\ (run' = run \/ run'.at = "idle")
          /\ \A e \in Episodes : doc'[e].claim \in {doc[e].claim, NONE}
      BY <2>1 DEF OutsideStep, Harmless, Idle
    <3>2. InHandIsNamed'
      BY <3>1 DEF InHandIsNamed
    <3> QED
      BY <3>1, <3>2, ClaimsCleared, Zenon
  <2>2. CASE DigestActs
    <3>1. DigestInv
      BY DEF LifeInv, DigestInv
    <3> QED
      BY <2>2, <3>1, DigestStepsLedger, Zenon
  <2> QED
    BY <2>1, <2>2, WhoActs, Zenon
<1> QED
  BY <1>1, <1>2, LifeInvariant, PTL
  DEF Spec, ImplementsLedger, Ledger!Spec, LedgerVars, Named, Claims
-----------------------------------------------------------------------------
(* Without the owner: the pipeline and the digest by themselves            *)

\* The actors that run by the clock, and a digest asked for, which is the same job.
Automatic == {"pipeline", "digest", "manual"}

OwnerSilent ==
    /\ \A e \in Episodes : demand[e].at = "off" /\ reset[e] = NONE
    /\ stale = {}

\* What is in the pipeline's queue still needs work.  A finished episode is in no queue,
\* so that no stage moves it between the digest's reading it and claiming it.
QueueIsActive ==
    /\ todo \subseteq Episodes
    /\ \A e \in todo : doc[e].status \in ACTIVE_STATUSES

\* A write of a stage: the document of one episode of its queue, which leaves the queue
\* or still needs work.
Works(e) ==
    /\ e \in todo
    /\ \E d : /\ Documented(d) /\ d.claim = doc[e].claim
              /\ doc' = [doc EXCEPT ![e] = d]
              /\ d.status \in ACTIVE_STATUSES \/ e \notin todo'
    /\ todo' \subseteq todo

LEMMA TransitionWorks ==
    ASSUME DocsShape, NEW e \in todo, NEW s, NEW d, Documented(d), d.claim = doc[e].claim,
           s \in ACTIVE_STATUSES \/ e \notin todo', todo' \subseteq todo,
           Transition(e, s, d)
    PROVE  Works(e)
<1>1. /\ Documented([d EXCEPT !.status = s])
      /\ [d EXCEPT !.status = s].claim = d.claim /\ [d EXCEPT !.status = s].status = s
  BY DEF Documented, Fields
<1>q. QED
  BY <1>1 DEF Transition, Works

LEMMA MarkErrorWorks ==
    ASSUME DocsShape, NEW e \in todo, e \in Episodes, e \notin todo', todo' \subseteq todo,
           MarkError(e)
    PROVE  Works(e)
<1> DEFINE d == [doc[e] EXCEPT !.failedAt = doc[e].status,
                               !.status = IF CanTransition(doc[e].status, "ERROR")
                                          THEN "ERROR" ELSE doc[e].status]
<1>1. Documented(d) /\ d.claim = doc[e].claim
  BY DEF DocsShape, Documented, Fields
<1>2. doc' = [doc EXCEPT ![e] = d]
  BY DEF MarkError
<1>q. QED
  BY <1>1, <1>2 DEF Works

LEMMA EitherWorks ==
    ASSUME DocsShape, NEW e \in todo, e \in Episodes, NEW s, NEW d, Documented(d),
           d.claim = doc[e].claim, e \notin todo', todo' \subseteq todo,
           TransitionOrError(e, s, d)
    PROVE  Works(e)
BY TransitionWorks, MarkErrorWorks DEF TransitionOrError

\* What a pipeline step does, of the documents and of its queue.
LEMMA PipelineWorks ==
    ASSUME DocsShape, QueueIsActive, PipelineStep
    PROVE  /\ \/ \E e \in todo : Works(e)
              \/ doc' = doc
           /\ QueueIsActive'
<1>0. todo \subseteq Episodes
  BY DEF QueueIsActive
<1>1. ASSUME NEW e \in todo, Works(e) PROVE QueueIsActive'
  BY <1>0, <1>1 DEF Works, QueueIsActive, DocsShape
<1>2. ASSUME doc' = doc, todo' \subseteq todo PROVE QueueIsActive'
  BY <1>2 DEF QueueIsActive
<1>3. ASSUME NEW e \in Episodes, Done(e), AtHead(e)
      PROVE  e \in todo /\ e \notin todo' /\ todo' \subseteq todo
  BY <1>3 DEF Done, AtHead
<1>4. ASSUME NEW e \in Episodes, Triage(e) PROVE \E f \in todo : Works(f)
  <2>1. \E d \in {[doc[e] EXCEPT !.route = r] : r \in Route} :
            TransitionOrError(e, "TRIAGED", d)
    <3>1. ASSUME NEW a \in BOOLEAN, NEW c \in BOOLEAN, NEW r \in Relevance
          PROVE  DecideRoute(a, c, r) \in Route
      BY DEF DecideRoute, Route
    <3>q. QED
      BY <1>4, <3>1 DEF Triage
  <2>2. ASSUME NEW r \in Route
        PROVE  /\ Documented([doc[e] EXCEPT !.route = r])
               /\ [doc[e] EXCEPT !.route = r].claim = doc[e].claim
    BY DEF DocsShape, Documented, Fields
  <2>3. \E d : Documented(d) /\ d.claim = doc[e].claim /\ TransitionOrError(e, "TRIAGED", d)
    BY <2>1, <2>2
  <2>q. QED
    BY <1>3, <1>4, <2>3, EitherWorks DEF Triage
<1>5. ASSUME NEW e \in Episodes, Dispatch(e) PROVE \E f \in todo : Works(f)
  BY <1>3, <1>5, PayloadsKeepClaims, EitherWorks, MarkErrorWorks DEF Dispatch
<1>6. ASSUME NEW e \in Episodes, GiveUp(e) PROVE \E f \in todo : Works(f)
  <2>1. Documented([doc[e] EXCEPT !.failedAt = NONE])
        /\ [doc[e] EXCEPT !.failedAt = NONE].claim = doc[e].claim
    BY DEF DocsShape, Documented, Fields
  <2>q. QED
    BY <1>3, <1>6, <2>1, EitherWorks DEF GiveUp
<1>7. ASSUME NEW e \in Episodes, ClaimTranscript(e) PROVE \E f \in todo : Works(f)
  <2>1. Documented([doc[e] EXCEPT !.crashes = @ + 1])
        /\ [doc[e] EXCEPT !.crashes = @ + 1].claim = doc[e].claim
    BY DEF DocsShape, Documented, Fields
  <2>2. e \in todo
    BY <1>7 DEF ClaimTranscript, AtHead
  <2>3. \/ MarkError(e) /\ Done(e) /\ AtHead(e)
        \/ /\ todo' = todo
           /\ \E d : /\ Documented(d) /\ d.claim = doc[e].claim
                     /\ Transition(e, "AWAITING_TRANSCRIPT", d)
    BY <1>7, <2>1 DEF ClaimTranscript
  <2>q. QED
    BY <1>3, <2>2, <2>3, TransitionWorks, MarkErrorWorks DEF ACTIVE_STATUSES
<1>8. ASSUME NEW e \in Episodes, AcquireFails(e) \/ StoreTranscribed(e)
      PROVE  \E f \in todo : Works(f)
  BY <1>3, <1>8, PayloadsKeepClaims, EitherWorks DEF AcquireFails, StoreTranscribed
<1>9. ASSUME NEW e \in Episodes, ASRDown(e) PROVE \E f \in todo : Works(f)
  <2>1. \/ MarkError(e) /\ Done(e) /\ AtHead(e)
        \/ /\ todo' = {} /\ e \in todo
           /\ Transition(e, "AWAITING_TRANSCRIPT", Released(e, snap[e]))
    BY <1>9 DEF ASRDown, Defer, AtHead
  <2>q. QED
    BY <1>3, <2>1, PayloadsKeepClaims, TransitionWorks, MarkErrorWorks
<1>10. ASSUME NEW e \in Episodes, CallFails(e) \/ AcquireError(e)
       PROVE  \E f \in todo : Works(f)
  BY <1>3, <1>10, MarkErrorWorks DEF CallFails, AcquireError
<1>11. ASSUME NEW e \in Episodes, SaveTranscript(e) PROVE \E f \in todo : Works(f)
  <2>1. /\ Documented([doc[e] EXCEPT !.text = TRUE])
        /\ [doc[e] EXCEPT !.text = TRUE].claim = doc[e].claim
        /\ [doc[e] EXCEPT !.text = TRUE].status = doc[e].status
    BY DEF DocsShape, Documented, Fields
  <2>2. /\ e \in todo /\ todo' = todo
        /\ doc' = [doc EXCEPT ![e] = [doc[e] EXCEPT !.text = TRUE]]
    BY <1>11 DEF SaveTranscript, AtHead, DocsShape
  <2>q. QED
    BY <2>1, <2>2 DEF Works, QueueIsActive
<1>12. ASSUME NEW e \in Episodes, StoreSummary(e) PROVE \E f \in todo : Works(f)
  <2>1. ASSUME NEW s \in Score
        PROVE  /\ Documented([doc[e] EXCEPT !.tier1 = s])
               /\ [doc[e] EXCEPT !.tier1 = s].claim = doc[e].claim
    BY DEF DocsShape, Documented, Fields
  <2>2. e \in todo
    BY <1>12 DEF StoreSummary, AtHead
  <2>3. \/ MarkError(e) /\ Done(e) /\ AtHead(e)
        \/ /\ todo' = todo
           /\ \E d : /\ Documented(d) /\ d.claim = doc[e].claim
                     /\ Transition(e, "SUMMARIZED", d)
    BY <1>12, <2>1 DEF StoreSummary
  <2>q. QED
    BY <1>3, <2>2, <2>3, TransitionWorks, MarkErrorWorks DEF ACTIVE_STATUSES
<1>13. ASSUME NEW e \in Episodes, Classify(e) PROVE \E f \in todo : Works(f)
  BY <1>3, <1>13, PayloadsKeepClaims, EitherWorks DEF Classify
<1>14. ASSUME NEW s, EnterStage(s), doc' = doc PROVE QueueIsActive'
  BY <1>14 DEF EnterStage, StageQueue, SummarizeQueue, Newest, WithStatus, QueueIsActive,
     ACTIVE_STATUSES
<1>15. CASE StartRun \/ NextStage
  BY <1>14, <1>15 DEF StartRun, NextStage
<1>16. CASE LLMDown \/ \E e \in Episodes : StoreFails(e)
  BY <1>2, <1>16 DEF LLMDown, StoreFails, Defer, Done
<1>17. CASE \E e \in todo : Works(e)
  BY <1>1, <1>17
<1>18. \/ StartRun \/ NextStage \/ LLMDown \/ \E e \in Episodes : StoreFails(e)
       \/ \E e \in todo : Works(e)
  BY <1>4, <1>5, <1>6, <1>7, <1>8, <1>9, <1>10, <1>11, <1>12, <1>13
     DEF PipelineStep, Advance, Acquired, Outage
<1>19. StartRun \/ NextStage \/ LLMDown \/ (\E e \in Episodes : StoreFails(e)) => doc' = doc
  BY DEF StartRun, NextStage, LLMDown, StoreFails
<1>q. QED
  BY <1>15, <1>16, <1>17, <1>18, <1>19

\* The marking loop: the document of the run lists what the run does, what it has gone
\* past is claimed unless a write was refused, and an episode it found finished still is.
Marking ==
    /\ run.at \in {"marking", "write"} => ddoc[run.week].ids = run.ids
    /\ refused = 0 /\ run.at \in {"marking", "write"} =>
          \A e \in run.ids \ run.todo :
              doc[e].claim # NONE \/ (run.at = "write" /\ e = run.ep)
    /\ run.at = "write" /\ run.saw \in DIGESTABLE_STATUSES =>
          doc[run.ep].status \in DIGESTABLE_STATUSES

\* Without failures, an unclaimed episode is in a file only while the run that wrote it
\* is on its way to claim it, and what a run is about to write is in no file yet.
UnclaimedIsUnderWay ==
    mishaps = 0 /\ refused = 0 =>
        /\ \A e \in Episodes :
              doc[e].claim = NONE /\ listed[e] # {} =>
                  /\ run.at \in {"put", "marking", "write"}
                  /\ e \in run.ids
                  /\ listed[e] = {run.week}
        /\ run.at = "file" => \A e \in run.ids : doc[e].claim = NONE

AutomaticInv ==
    /\ mishaps \in Nat /\ refused \in Nat
    /\ OwnerSilent
    /\ QueueIsActive
    /\ Marking
    /\ UnclaimedIsUnderWay
    /\ CompleteMeansClaimed
    /\ ListedOnceWithoutFailure

\* Beside a digest that does nothing: claims stay, and what is finished stays finished.
LEMMA DigestUntouched ==
    ASSUME LifeInv, AutomaticInv, UNCHANGED <<run, ddoc, listed, refused>>,
           mishaps' \in {mishaps, mishaps + 1}, OwnerSilent', QueueIsActive',
           \A e \in Episodes :
               /\ doc'[e].claim = doc[e].claim
               /\ doc[e].status \in DIGESTABLE_STATUSES => doc'[e].status = doc[e].status
    PROVE  AutomaticInv'
<1>0. /\ mishaps \in Nat /\ mishaps' \in Nat /\ mishaps' = 0 => mishaps = 0
      /\ refused \in Nat
  BY DEF AutomaticInv
<1>1. Marking'
  <2>1. run.ids \subseteq Episodes /\ (run.at = "write" => run.ep \in Episodes)
    BY DEF LifeInv, DigestShape, FileFirst
  <2>q. QED
    BY <2>1 DEF AutomaticInv, Marking
<1>2. UnclaimedIsUnderWay'
  <2>1. run.ids \subseteq Episodes
    BY DEF LifeInv, DigestShape
  <2>q. QED
    BY <1>0, <2>1 DEF AutomaticInv, UnclaimedIsUnderWay
<1>3. CompleteMeansClaimed'
  <2>1. \A w \in Digests : ddoc[w] # NONE => ddoc[w].ids \subseteq Episodes
    BY DEF LifeInv, DigestShape, DigestDoc
  <2>q. QED
    BY <2>1 DEF AutomaticInv, CompleteMeansClaimed
<1>4. ListedOnceWithoutFailure'
  BY <1>0 DEF AutomaticInv, ListedOnceWithoutFailure, ListedOnce
<1>q. QED
  BY <1>0, <1>1, <1>2, <1>3, <1>4 DEF AutomaticInv

\* What a digest step that leaves the documents of the episodes and the counters alone
\* does not disturb.
LEMMA DocsUntouched ==
    ASSUME AutomaticInv, UNCHANGED <<doc, todo, ownerWork, mishaps, refused>>
    PROVE  /\ mishaps' \in Nat /\ refused' \in Nat
           /\ OwnerSilent' /\ QueueIsActive'
BY DEF AutomaticInv, OwnerSilent, QueueIsActive, ownerWork

LEMMA GenerateAutomatic ==
    ASSUME LifeInv, AutomaticInv, NEW w \in Digests, NEW from, Generate(from, w),
           UNCHANGED <<todo, ownerWork, mishaps, refused>>
    PROVE  AutomaticInv'
<1>0. UNCHANGED <<doc, ddoc, listed>> /\ run.at = "idle"
  BY DEF Generate
<1>1. CompleteMeansClaimed' /\ ListedOnceWithoutFailure'
  BY <1>0 DEF AutomaticInv, CompleteMeansClaimed, ListedOnceWithoutFailure, ListedOnce
<1>2. CASE Begun(w)
  <2>1. run' = [at |-> "marking", week |-> w, ids |-> ddoc[w].ids, todo |-> ddoc[w].ids,
                ep |-> NONE, saw |-> NONE]
    BY <1>2 DEF Generate, Idle
  <2>q. QED
    BY <1>0, <1>1, <2>1, DocsUntouched DEF AutomaticInv, Marking, UnclaimedIsUnderWay
<1>3. CASE ~Begun(w)
  <2>1. run' = [at |-> "file", week |-> w, ids |-> Candidates(from, w), todo |-> {},
                ep |-> NONE, saw |-> NONE]
    BY <1>3 DEF Generate, Idle
  <2>2. \A e \in Candidates(from, w) : e \in Episodes /\ doc[e].claim = NONE
    BY DEF Candidates
  <2>q. QED
    BY <1>0, <1>1, <2>1, <2>2, DocsUntouched DEF AutomaticInv, Marking, UnclaimedIsUnderWay
<1>q. QED
  BY <1>2, <1>3

LEMMA FileAutomatic ==
    ASSUME LifeInv, AutomaticInv, WriteFile, UNCHANGED <<todo, ownerWork, mishaps, refused>>
    PROVE  AutomaticInv'
<1>0. /\ UNCHANGED <<doc, ddoc>> /\ run.at = "file"
      /\ DOMAIN run = {"at", "week", "ids", "todo", "ep", "saw"}
      /\ run.ids \subseteq Episodes /\ DOMAIN listed = Episodes
  BY DEF WriteFile, LifeInv, DigestShape
<1>1. /\ run' = [run EXCEPT !.at = "put"]
      /\ listed' = [e \in Episodes |-> IF e \in run.ids
                                       THEN listed[e] \cup {run.week} ELSE listed[e]]
  BY DEF WriteFile
<1>2. run'.at = "put" /\ run'.ids = run.ids /\ run'.week = run.week
  BY <1>0, <1>1
<1>3. ASSUME mishaps' = 0, refused' = 0
      PROVE  /\ \A e \in Episodes \ run.ids : listed'[e] = listed[e]
             /\ \A e \in run.ids : doc[e].claim = NONE /\ listed'[e] = {run.week}
             /\ \A e \in Episodes \ run.ids : doc[e].claim = NONE => listed[e] = {}
  BY <1>0, <1>1, <1>3 DEF AutomaticInv, UnclaimedIsUnderWay
<1>4. UnclaimedIsUnderWay'
  BY <1>0, <1>2, <1>3 DEF UnclaimedIsUnderWay
<1>5. ListedOnceWithoutFailure'
  BY <1>0, <1>3 DEF AutomaticInv, ListedOnceWithoutFailure, ListedOnce
<1>6. Marking' /\ CompleteMeansClaimed'
  BY <1>0, <1>2 DEF Marking, AutomaticInv, CompleteMeansClaimed
<1>q. QED
  BY <1>0, <1>4, <1>5, <1>6, DocsUntouched DEF AutomaticInv

LEMMA PutAutomatic ==
    ASSUME LifeInv, AutomaticInv, PutDigest, UNCHANGED <<todo, ownerWork, mishaps, refused>>
    PROVE  AutomaticInv'
<1>0. /\ UNCHANGED <<doc, listed>> /\ run.at = "put" /\ run.week \in Digests
      /\ DOMAIN run = {"at", "week", "ids", "todo", "ep", "saw"}
      /\ DOMAIN ddoc = Digests
  BY DEF PutDigest, LifeInv, DigestShape
<1>1. /\ run'.at = "marking" /\ run'.ids = run.ids /\ run'.todo = run.ids
      /\ run'.week = run.week
  BY <1>0 DEF PutDigest
<1>2. /\ ddoc'[run.week].ids = run.ids /\ ~ddoc'[run.week].complete
      /\ \A w \in Digests \ {run.week} : ddoc'[w] = ddoc[w]
  BY <1>0 DEF PutDigest
<1>3. Marking' /\ CompleteMeansClaimed'
  BY <1>0, <1>1, <1>2 DEF Marking, AutomaticInv, CompleteMeansClaimed
<1>4. UnclaimedIsUnderWay' /\ ListedOnceWithoutFailure'
  BY <1>0, <1>1 DEF AutomaticInv, UnclaimedIsUnderWay, ListedOnceWithoutFailure, ListedOnce
<1>q. QED
  BY <1>0, <1>3, <1>4, DocsUntouched DEF AutomaticInv

\* A claimed episode is passed over, another one is read: finished, it will be published.
LEMMA ReadAutomatic ==
    ASSUME LifeInv, AutomaticInv, NEW e \in Episodes, MarkRead(e),
           UNCHANGED <<todo, ownerWork, mishaps, refused>>
    PROVE  AutomaticInv'
<1>0. /\ UNCHANGED <<doc, ddoc, listed>> /\ run.at = "marking"
      /\ DOMAIN run = {"at", "week", "ids", "todo", "ep", "saw"}
  BY DEF MarkRead, LifeInv, DigestShape
<1>1. /\ run'.ids = run.ids /\ run'.week = run.week /\ run'.todo = run.todo \ {e}
      /\ \/ run'.at = "marking" /\ doc[e].claim # NONE
         \/ run'.at = "write" /\ run'.ep = e /\ run'.saw = doc[e].status
  BY <1>0 DEF MarkRead
<1>2. Marking' /\ CompleteMeansClaimed'
  BY <1>0, <1>1 DEF Marking, AutomaticInv, CompleteMeansClaimed
<1>3. UnclaimedIsUnderWay' /\ ListedOnceWithoutFailure'
  BY <1>0, <1>1 DEF AutomaticInv, UnclaimedIsUnderWay, ListedOnceWithoutFailure, ListedOnce
<1>q. QED
  BY <1>0, <1>2, <1>3, DocsUntouched DEF AutomaticInv

\* The write claims: a finished episode is still finished and accepts PUBLISHED.
LEMMA WriteAutomatic ==
    ASSUME LifeInv, AutomaticInv, MarkWrite,
           UNCHANGED <<todo, ownerWork, mishaps, refused>>
    PROVE  AutomaticInv'
<1>0. /\ UNCHANGED <<ddoc, listed>> /\ run.at = "write"
      /\ DOMAIN run = {"at", "week", "ids", "todo", "ep", "saw"}
      /\ run.ep \in Episodes /\ run.ids \subseteq Episodes /\ run.week \in Digests
      /\ run.ep \in run.ids
      /\ DOMAIN doc = Episodes /\ Documented(doc[run.ep]) /\ run.week # NONE
      /\ doc[run.ep].claim = NONE
  BY NoneAssumption DEF MarkWrite, LifeInv, DigestShape, FileFirst, DocsShape
<1>1. /\ run'.at = "marking" /\ run'.ids = run.ids /\ run'.week = run.week
      /\ run'.todo = run.todo
  BY <1>0 DEF MarkWrite
<1>2. \E d : /\ doc' = [doc EXCEPT ![run.ep] = d] /\ d.claim = run.week
             /\ \/ d.status = doc[run.ep].status
                \/ doc[run.ep].status \in DIGESTABLE_STATUSES
  <2>1. CASE run.saw \notin DIGESTABLE_STATUSES
    <3>1. /\ [doc[run.ep] EXCEPT !.claim = run.week].claim = run.week
          /\ [doc[run.ep] EXCEPT !.claim = run.week].status = doc[run.ep].status
      BY <1>0 DEF Documented, Fields
    <3>2. doc' = [doc EXCEPT ![run.ep] = [doc[run.ep] EXCEPT !.claim = run.week]]
      BY <2>1 DEF MarkWrite
    <3>q. QED
      BY <3>1, <3>2
  <2>2. CASE run.saw \in DIGESTABLE_STATUSES
    <3>1. doc[run.ep].status \in DIGESTABLE_STATUSES
      BY <1>0, <2>2 DEF AutomaticInv, Marking
    <3>2. Accepts(run.ep, "PUBLISHED")
      BY <3>1 DEF Accepts, CanTransition, ALLOWED_TRANSITIONS, DIGESTABLE_STATUSES
    <3>3. doc' = [doc EXCEPT ![run.ep] =
                    [[doc[run.ep] EXCEPT !.claim = run.week] EXCEPT !.status = "PUBLISHED"]]
      BY <2>2, <3>2 DEF MarkWrite, Transition
    <3>4. [[doc[run.ep] EXCEPT !.claim = run.week] EXCEPT !.status = "PUBLISHED"].claim
             = run.week
      BY <1>0 DEF Documented, Fields
    <3>q. QED
      BY <3>1, <3>3, <3>4
  <2>q. QED
    BY <2>1, <2>2
<1>3. /\ doc'[run.ep].claim # NONE
      /\ \A e \in Episodes \ {run.ep} : doc'[e] = doc[e]
      /\ \/ doc'[run.ep].status = doc[run.ep].status
         \/ doc[run.ep].status \in DIGESTABLE_STATUSES
  BY <1>0, <1>2
<1>4. \A e \in Episodes : doc[e].claim # NONE => doc'[e].claim # NONE
  BY <1>0, <1>3
<1>5. QueueIsActive'
  BY <1>0, <1>3 DEF AutomaticInv, QueueIsActive, ACTIVE_STATUSES, DIGESTABLE_STATUSES
<1>6. Marking' /\ CompleteMeansClaimed'
  <2>1. \A w \in Digests : ddoc[w] # NONE => ddoc[w].ids \subseteq Episodes
    BY DEF LifeInv, DigestShape, DigestDoc
  <2>q. QED
    BY <1>0, <1>1, <1>3, <1>4, <2>1 DEF Marking, AutomaticInv, CompleteMeansClaimed
<1>7. UnclaimedIsUnderWay' /\ ListedOnceWithoutFailure'
  BY <1>0, <1>1, <1>4 DEF AutomaticInv, UnclaimedIsUnderWay, ListedOnceWithoutFailure,
     ListedOnce
<1>q. QED
  BY <1>5, <1>6, <1>7 DEF AutomaticInv, OwnerSilent, ownerWork

\* The flag goes up when the loop has gone past everything.
LEMMA CompleteAutomatic ==
    ASSUME LifeInv, AutomaticInv, CompleteMarking,
           UNCHANGED <<todo, ownerWork, mishaps, refused>>
    PROVE  AutomaticInv'
<1>0. /\ UNCHANGED <<doc, listed>> /\ run.at = "marking" /\ run.todo = {}
      /\ run.week \in Digests /\ DOMAIN ddoc = Digests
      /\ ddoc[run.week] \in DigestDoc /\ run.ids \subseteq Episodes
  BY DEF CompleteMarking, LifeInv, DigestShape, FileFirst
<1>1. run'.at = "idle"
  BY DEF CompleteMarking, Idle
<1>2. ddoc' = [ddoc EXCEPT ![run.week] = [ids |-> ddoc[run.week].ids, complete |-> TRUE]]
  BY <1>0, FlagSet DEF CompleteMarking
<1>3. /\ ddoc'[run.week].ids = run.ids
      /\ \A w \in Digests \ {run.week} : ddoc'[w] = ddoc[w]
  BY <1>0, <1>2 DEF AutomaticInv, Marking
<1>4. refused = 0 => \A e \in run.ids : doc[e].claim # NONE
  BY <1>0 DEF AutomaticInv, Marking
<1>5. CompleteMeansClaimed'
  BY <1>0, <1>3, <1>4 DEF AutomaticInv, CompleteMeansClaimed
<1>6. UnclaimedIsUnderWay' /\ ListedOnceWithoutFailure' /\ Marking'
  BY <1>0, <1>1, <1>4 DEF AutomaticInv, UnclaimedIsUnderWay, ListedOnceWithoutFailure,
     ListedOnce, Marking
<1>q. QED
  BY <1>0, <1>5, <1>6, DocsUntouched DEF AutomaticInv

\* A write refused, a run cut short, a crash: no promise of a run without failures is left,
\* and a document not complete promises nothing.
LEMMA FailureAutomatic ==
    ASSUME LifeInv, AutomaticInv, UNCHANGED <<doc, ddoc, listed>>, OwnerSilent',
           QueueIsActive',
           \/ mishaps' = mishaps + 1 /\ refused' = refused /\ run'.at = "idle"
           \/ /\ mishaps' = mishaps /\ refused' = refused + 1
              /\ \/ run'.at = "idle"
                 \/ /\ run'.at = "marking" /\ run.at = "write"
                    /\ run'.ids = run.ids /\ run'.week = run.week
    PROVE  AutomaticInv'
<1>1. /\ mishaps' \in Nat /\ refused' \in Nat /\ ~(mishaps' = 0 /\ refused' = 0)
      /\ refused' = 0 => refused = 0
      /\ run'.at = "marking" => refused' # 0
  BY DEF AutomaticInv
<1>2. UnclaimedIsUnderWay' /\ ListedOnceWithoutFailure'
  BY <1>1 DEF UnclaimedIsUnderWay, ListedOnceWithoutFailure
<1>3. Marking' /\ CompleteMeansClaimed'
  BY <1>1 DEF AutomaticInv, Marking, CompleteMeansClaimed
<1>q. QED
  BY <1>1, <1>2, <1>3 DEF AutomaticInv

LEMMA AutomaticStart == Init => AutomaticInv
<1> SUFFICES ASSUME Init PROVE AutomaticInv
  OBVIOUS
<1>1. OwnerSilent /\ QueueIsActive /\ mishaps = 0 /\ refused = 0
  BY DEF Init, OwnerInit, PipelineInit, NoDemand, OwnerSilent, QueueIsActive
<1>2. /\ ddoc = [w \in Digests |-> NONE] /\ listed = [e \in Episodes |-> {}]
      /\ run = Idle(week)
  BY DEF Init, DigestInit
<1>3. run.at = "idle"
  BY <1>2 DEF Idle
<1>q. QED
  BY <1>1, <1>2, <1>3 DEF AutomaticInv, Marking, UnclaimedIsUnderWay, CompleteMeansClaimed,
     ListedOnceWithoutFailure, ListedOnce

LEMMA AutomaticDigest ==
    ASSUME LifeInv, AutomaticInv, UNCHANGED <<todo, ownerWork, mishaps, refused>>,
           \/ \E w \in Digests : \E from : Generate(from, w)
           \/ DigestStep
    PROVE  AutomaticInv'
BY GenerateAutomatic, FileAutomatic, PutAutomatic, ReadAutomatic, WriteAutomatic,
   CompleteAutomatic DEF DigestStep

LEMMA AutomaticStep ==
    ASSUME Actors \subseteq Automatic, LifeInv, LifeInv', AutomaticInv, [Next]_vars
    PROVE  AutomaticInv'
<1>0. /\ OwnerSilent /\ QueueIsActive /\ DocsShape
      /\ {"demand", "retry", "escalate", "rescore"} \cap Actors = {}
  BY DEF AutomaticInv, LifeInv, Automatic
<1>1. CASE Pipeline
  <2>1. /\ QueueIsActive'
        /\ (\E e \in todo : Works(e)) \/ doc' = doc
    BY <1>0, <1>1, PipelineWorks DEF Pipeline
  <2>2. \A e \in Episodes :
            /\ doc'[e].claim = doc[e].claim
            /\ doc[e].status \in DIGESTABLE_STATUSES => doc'[e].status = doc[e].status
    <3>1. ASSUME NEW f \in todo, Works(f), NEW e \in Episodes
          PROVE  /\ doc'[e].claim = doc[e].claim
                 /\ doc[e].status \in DIGESTABLE_STATUSES => doc'[e].status = doc[e].status
      BY <1>0, <3>1 DEF Works, DocsShape, QueueIsActive, ACTIVE_STATUSES,
         DIGESTABLE_STATUSES
    <3>q. QED
      BY <2>1, <3>1
  <2>3. /\ UNCHANGED <<run, ddoc, listed, refused>> /\ OwnerSilent'
    BY <1>0, <1>1 DEF Pipeline, digestWork, ownerWork, OwnerSilent
  <2>4. mishaps' \in {mishaps, mishaps + 1}
    BY <1>1 DEF Pipeline, PipelineStep, Advance, Acquired, Outage, StartRun, NextStage, Dispatch,
       GiveUp, ClaimTranscript, StoreTranscribed, Classify, Triage, AcquireFails, SaveTranscript,
       StoreSummary, LLMDown, CallFails, ASRDown, AcquireError, StoreFails
  <2>q. QED
    BY <2>1, <2>2, <2>3, <2>4, DigestUntouched
<1>2. CASE Request
  <2>1. ManualDigest /\ UNCHANGED <<todo, ownerWork, mishaps, refused>>
    BY <1>0, <1>2 DEF Request, workVars
  <2>q. QED
    BY <2>1, GenerateAutomatic DEF ManualDigest
<1>3. CASE Owner
  <2>1. FALSE
    BY <1>0, <1>3, NoneAssumption DEF Owner, OwnerSilent, DemandStep, DemandQueue, DemandRead,
       DemandClaim, DemandAcquireFails, DemandASRDown, DemandSave, DemandTranscribed,
       DemandSettle, DemandSummarize, DemandClassify, DemandRelist, DemandFails, RetryWrite,
       Rescore, RescoreFails, RescoreDeferred
  <2>q. QED
    BY <2>1
<1>4. CASE WeeklyDigest
  <2>1. UNCHANGED <<todo, ownerWork, mishaps, refused>>
    BY <1>4 DEF WeeklyDigest, workVars
  <2>2. CASE NextWeek
    BY <1>0, <2>1, <2>2, DigestUntouched DEF NextWeek, AutomaticInv, OwnerSilent, QueueIsActive,
       ownerWork
  <2>3. CASE ScheduledDigest
    BY <2>1, <2>3, GenerateAutomatic DEF ScheduledDigest, LifeInv, DigestShape
  <2>4. CASE DigestStep
    BY <2>1, <2>4, AutomaticDigest
  <2>q. QED
    BY <1>4, <2>2, <2>3, <2>4 DEF WeeklyDigest
<1>5. CASE DigestGoesWrong
  <2>1. /\ UNCHANGED <<doc, todo, ownerWork, ddoc, listed, mishaps>> /\ refused' = refused + 1
    BY <1>5 DEF DigestGoesWrong, DigestMishap, MarkFails, DigestFails, workVars
  <2>2. OwnerSilent' /\ QueueIsActive'
    BY <1>0, <2>1 DEF OwnerSilent, QueueIsActive, ownerWork
  <2>3. DOMAIN run = {"at", "week", "ids", "todo", "ep", "saw"}
    BY DEF LifeInv, DigestShape
  <2>4. \/ run'.at = "idle"
        \/ /\ run'.at = "marking" /\ run.at = "write"
           /\ run'.ids = run.ids /\ run'.week = run.week
    <3>1. CASE MarkFails
      BY <2>3, <3>1 DEF MarkFails
    <3>2. CASE DigestFails
      BY <3>2 DEF DigestFails, Idle
    <3>q. QED
      BY <1>5, <3>1, <3>2 DEF DigestGoesWrong, DigestMishap
  <2>q. QED
    BY <2>1, <2>2, <2>4, FailureAutomatic
<1>6. CASE Crash
  <2>1. /\ UNCHANGED <<doc, ddoc, listed>> /\ mishaps' = mishaps + 1 /\ refused' = refused
        /\ todo' = {} /\ run'.at = "idle"
    BY <1>6 DEF Crash, RunDies, DigestDies, Idle
  <2>2. OwnerSilent' /\ QueueIsActive'
    BY <1>6, <2>1 DEF Crash, OwnerDies, NoDemand, OwnerSilent, QueueIsActive
  <2>q. QED
    BY <2>1, <2>2, FailureAutomatic
<1>7. CASE UNCHANGED vars
  <2>1. UNCHANGED <<doc, todo, ownerWork, run, ddoc, listed, mishaps, refused>>
    BY <1>7 DEF vars, workVars, digestWork
  <2>q. QED
    BY <1>0, <2>1, DigestUntouched DEF OwnerSilent, QueueIsActive, ownerWork
<1>q. QED
  BY <1>1, <1>2, <1>3, <1>4, <1>5, <1>6, <1>7 DEF Next

LEMMA AutomaticInvariant ==
    ASSUME Actors \subseteq Automatic
    PROVE  Spec => []AutomaticInv
<1>1. LifeInv /\ LifeInv' /\ AutomaticInv /\ [Next]_vars => AutomaticInv'
  BY AutomaticStep
<1>q. QED
  BY AutomaticStart, LifeInvariant, <1>1, PTL DEF Spec

\* As long as the owner keeps out of it, a digest document that says its marking is complete
\* tells the truth: all it lists is claimed, through crashes at any point and any number of
\* digests finished by a later run, unless the store refused a write on the way
\* (generate.py:4-8, 287-300).
THEOREM CompleteIsClaimed ==
    ASSUME Actors \subseteq Automatic
    PROVE  Spec => []CompleteMeansClaimed
<1>1. AutomaticInv => CompleteMeansClaimed
  BY DEF AutomaticInv
<1>q. QED
  BY AutomaticInvariant, <1>1, PTL

\* Without crashes and refused writes, no episode is in the files of two weeks, whatever
\* the periods asked for overlap (generate.py:4-8).
THEOREM NoneIsListedTwice ==
    ASSUME Actors \subseteq Automatic
    PROVE  Spec => []ListedOnceWithoutFailure
<1>1. AutomaticInv => ListedOnceWithoutFailure
  BY DEF AutomaticInv
<1>q. QED
  BY AutomaticInvariant, <1>1, PTL

-----------------------------------------------------------------------------
(* A status and what it stands for                                         *)

\* What a document has to hold to be in the status s, now or when it is put back there.
Stands(s, d) ==
    /\ s = "TRANSCRIBED" => d.text
    /\ s \in {"SUMMARIZED", "READY_FOR_DIGEST", "SCORED_LOW"} => d.tier1 # NONE

\* The status, the one a failure was recorded in, and the one a retry is about to restore.
DocsStand ==
    \A e \in Episodes :
        /\ Stands(doc[e].status, doc[e])
        /\ Stands(doc[e].failedAt, doc[e])

ResetStands == \A e \in Episodes : Stands(reset[e], doc[e])

\* Between the two writes of a stage the first one is there.
HeadStands ==
    \A e \in Episodes :
        AtHead(e) => /\ pc = "saving" => doc[e].text
                     /\ pc = "classify" => doc[e].tier1 # NONE

DemandStands ==
    \A e \in Episodes :
        /\ demand[e].at = "saving" => doc[e].text
        /\ demand[e].at = "classify" => doc[e].tier1 # NONE

SubstanceInv == DocsStand /\ ResetStands /\ HeadStands /\ DemandStands

\* A write that takes away nothing a status stands for, and leaves every status standing.
SubstanceKept ==
    /\ \A e \in Episodes : /\ doc[e].text => doc'[e].text
                           /\ doc[e].tier1 # NONE => doc'[e].tier1 # NONE
    /\ DocsStand'

\* The current document of e with a payload on it.
Payload(e, d) ==
    /\ DOMAIN d = Fields
    /\ d.text = doc[e].text
    /\ d.tier1 = doc[e].tier1 \/ d.tier1 \in Score
    /\ d.failedAt \in {doc[e].failedAt, NONE}

LEMMA ScoreIsOne == NONE \notin Score
BY NoneAssumption DEF Score

LEMMA NoneStands ==
    ASSUME NEW d
    PROVE  Stands(NONE, d)
BY NoneAssumption DEF Stands, EpisodeStatus

LEMMA TransitionSound ==
    ASSUME DocsShape, DocsStand, NEW e \in Episodes, NEW s, NEW d, Payload(e, d), Stands(s, d),
           Transition(e, s, d)
    PROVE  SubstanceKept
<1>1. DOMAIN doc = Episodes /\ doc' = [doc EXCEPT ![e] = [d EXCEPT !.status = s]]
  BY DEF DocsShape, Transition
<1>2. /\ doc'[e].text = doc[e].text
      /\ doc'[e].tier1 = d.tier1
      /\ doc'[e].failedAt = d.failedAt
      /\ doc'[e].status = s
  BY <1>1 DEF Payload, Fields
<1>3. doc[e].tier1 # NONE => doc'[e].tier1 # NONE
  BY <1>2, ScoreIsOne DEF Payload
<1>4. Stands(doc'[e].status, doc'[e])
  BY <1>2 DEF Payload, Stands
<1>5. Stands(doc'[e].failedAt, doc'[e])
  <2>1. Stands(doc[e].failedAt, doc'[e])
    BY <1>2, <1>3 DEF DocsStand, Stands
  <2>q. QED
    BY <1>2, <2>1, NoneStands DEF Payload
<1>6. \A f \in Episodes \ {e} : doc'[f] = doc[f]
  BY <1>1
<1>q. QED
  BY <1>2, <1>3, <1>4, <1>5, <1>6 DEF SubstanceKept, DocsStand

LEMMA MarkErrorSound ==
    ASSUME DocsShape, DocsStand, NEW e \in Episodes, MarkError(e)
    PROVE  SubstanceKept
<1>1. DOMAIN doc = Episodes /\ DOMAIN doc[e] = Fields
  BY DEF DocsShape, Documented
<1>2. /\ doc'[e].text = doc[e].text
      /\ doc'[e].tier1 = doc[e].tier1
      /\ doc'[e].failedAt = doc[e].status
      /\ doc'[e].status \in {"ERROR", doc[e].status}
  BY <1>1 DEF MarkError, Fields
<1>3. Stands(doc'[e].status, doc'[e]) /\ Stands(doc'[e].failedAt, doc'[e])
  BY <1>2 DEF DocsStand, Stands
<1>4. \A f \in Episodes \ {e} : doc'[f] = doc[f]
  BY <1>1 DEF MarkError
<1>q. QED
  BY <1>2, <1>3, <1>4 DEF SubstanceKept, DocsStand

LEMMA EitherSound ==
    ASSUME DocsShape, DocsStand, NEW e \in Episodes, NEW s, NEW d, Payload(e, d), Stands(s, d),
           TransitionOrError(e, s, d)
    PROVE  SubstanceKept
BY TransitionSound, MarkErrorSound DEF TransitionOrError

LEMMA NoWriteSound ==
    ASSUME DocsStand, doc' = doc
    PROVE  SubstanceKept
BY DEF DocsStand, SubstanceKept

\* The payloads of the stages.
LEMMA StagePayloads ==
    ASSUME DocsShape, NEW e \in Episodes, NEW before
    PROVE  /\ Payload(e, doc[e])
           /\ Payload(e, Released(e, before))
           /\ Payload(e, AcquireFailed(e, before))
           /\ Payload(e, AcquireSucceeded(e, before))
           /\ Payload(e, [doc[e] EXCEPT !.failedAt = NONE])
           /\ Payload(e, [doc[e] EXCEPT !.crashes = @ + 1])
           /\ Payload(e, [doc[e] EXCEPT !.relisted = TRUE])
           /\ Payload(e, [doc[e] EXCEPT !.attempts = 0, !.crashes = 0, !.failedAt = NONE])
           /\ Payload(e, [doc[e] EXCEPT !.attempts = 0, !.crashes = 0, !.failedAt = NONE,
                                        !.claim = NONE])
           /\ \A r : Payload(e, [doc[e] EXCEPT !.route = r])
           /\ \A s \in Score : /\ Payload(e, [doc[e] EXCEPT !.tier1 = s])
                               /\ [doc[e] EXCEPT !.tier1 = s].tier1 = s
           /\ AcquireSucceeded(e, before).text = doc[e].text
<1>1. DOMAIN doc[e] = Fields
  BY DEF DocsShape, Documented
<1>q. QED
  BY <1>1 DEF Payload, Fields, Released, AcquireFailed, AcquireSucceeded

\* Statuses that stand for nothing stored.
LEMMA BareStands ==
    ASSUME NEW d,
           NEW s \in EpisodeStatus \ {"TRANSCRIBED", "SUMMARIZED", "READY_FOR_DIGEST",
                                      "SCORED_LOW"}
    PROVE  Stands(s, d)
BY DEF Stands

\* The attachment, a write of its own.
LEMMA SaveSound ==
    ASSUME DocsShape, DocsStand, NEW e \in Episodes, doc' = [doc EXCEPT ![e].text = TRUE]
    PROVE  SubstanceKept /\ doc'[e].text
<1>1. DOMAIN doc = Episodes /\ DOMAIN doc[e] = Fields
  BY DEF DocsShape, Documented
<1>2. /\ doc'[e].text = TRUE
      /\ doc'[e].tier1 = doc[e].tier1
      /\ doc'[e].failedAt = doc[e].failedAt
      /\ doc'[e].status = doc[e].status
  BY <1>1 DEF Fields
<1>3. Stands(doc'[e].status, doc'[e]) /\ Stands(doc'[e].failedAt, doc'[e])
  BY <1>2 DEF DocsStand, Stands
<1>4. \A f \in Episodes \ {e} : doc'[f] = doc[f]
  BY <1>1
<1>q. QED
  BY <1>2, <1>3, <1>4 DEF SubstanceKept, DocsStand

LEMMA VerdictStands ==
    ASSUME NEW s, NEW d, d.tier1 # NONE
    PROVE  Stands(Verdict(s), d)
BY DEF Stands, Verdict

LEMMA PipelineSubstance ==
    ASSUME DocsShape, SubstanceInv, PipelineStep
    PROVE  SubstanceKept /\ HeadStands'
<1>0. DocsStand /\ HeadStands
  BY DEF SubstanceInv
<1>1. ASSUME pc' \in {"next", "acquiring"} PROVE HeadStands'
  BY <1>1 DEF HeadStands
<1>2. ASSUME NEW e \in Episodes, Done(e) PROVE HeadStands'
  BY <1>1, <1>2 DEF Done
<1>3. ASSUME NEW e \in Episodes, Triage(e) PROVE SubstanceKept /\ HeadStands'
  <2>1. PICK r : TransitionOrError(e, "TRIAGED", [doc[e] EXCEPT !.route = r])
    BY <1>3 DEF Triage
  <2>2. Payload(e, [doc[e] EXCEPT !.route = r])
    BY StagePayloads
  <2>3. Stands("TRIAGED", [doc[e] EXCEPT !.route = r])
    BY DEF Stands
  <2>q. QED
    BY <1>0, <1>2, <1>3, <2>1, <2>2, <2>3, EitherSound DEF Triage
<1>4. ASSUME NEW e \in Episodes, Dispatch(e) PROVE SubstanceKept /\ HeadStands'
  <2>1. snap[e].route # NONE => snap[e].route \in Route
    BY DEF DocsShape, Documented
  <2>2. \A r \in Route : Stands(RouteTarget[r], doc[e])
    BY DEF Route, RouteTarget, Stands
  <2>3. MarkError(e) \/ \E r \in Route : TransitionOrError(e, RouteTarget[r], doc[e])
    BY <1>4, <2>1 DEF Dispatch
  <2>q. QED
    BY <1>0, <1>2, <1>4, <2>2, <2>3, StagePayloads, EitherSound, MarkErrorSound DEF Dispatch
<1>5. ASSUME NEW e \in Episodes, GiveUp(e) PROVE SubstanceKept /\ HeadStands'
  <2>1. Stands("TRANSCRIPT_FAILED", [doc[e] EXCEPT !.failedAt = NONE])
    BY DEF Stands
  <2>q. QED
    BY <1>0, <1>2, <1>5, <2>1, StagePayloads, EitherSound DEF GiveUp
<1>6. ASSUME NEW e \in Episodes, ClaimTranscript(e) PROVE SubstanceKept /\ HeadStands'
  <2>1. Stands("AWAITING_TRANSCRIPT", [doc[e] EXCEPT !.crashes = @ + 1])
    BY DEF Stands
  <2>2. HeadStands'
    BY <1>1, <1>2, <1>6 DEF ClaimTranscript
  <2>q. QED
    BY <1>0, <1>6, <2>1, <2>2, StagePayloads, TransitionSound, MarkErrorSound
       DEF ClaimTranscript
<1>7. ASSUME NEW e \in Episodes, AcquireFails(e) PROVE SubstanceKept /\ HeadStands'
  <2>1. PICK s \in {"TRANSCRIPT_FAILED", "AWAITING_TRANSCRIPT"} :
           TransitionOrError(e, s, AcquireFailed(e, snap[e]))
    BY <1>7 DEF AcquireFails
  <2>2. Stands(s, AcquireFailed(e, snap[e]))
    BY DEF Stands
  <2>q. QED
    BY <1>0, <1>2, <1>7, <2>1, <2>2, StagePayloads, EitherSound DEF AcquireFails
<1>8. ASSUME NEW e \in Episodes, ASRDown(e) PROVE SubstanceKept /\ HeadStands'
  <2>1. HeadStands'
    BY <1>1, <1>8 DEF ASRDown, Defer, Done
  <2>2. Stands("AWAITING_TRANSCRIPT", Released(e, snap[e]))
    BY DEF Stands
  <2>q. QED
    BY <1>0, <1>8, <2>1, <2>2, StagePayloads, TransitionSound, MarkErrorSound DEF ASRDown
<1>9. ASSUME NEW e \in Episodes, CallFails(e) \/ AcquireError(e) PROVE SubstanceKept /\ HeadStands'
  BY <1>0, <1>2, <1>9, MarkErrorSound DEF CallFails, AcquireError
<1>10. ASSUME NEW e \in Episodes, SaveTranscript(e) PROVE SubstanceKept /\ HeadStands'
  <2>1. SubstanceKept /\ doc'[e].text
    BY <1>0, <1>10, SaveSound DEF SaveTranscript
  <2>2. AtHead(e) /\ \A f \in Episodes : AtHead(f)' => AtHead(f)
    BY <1>10 DEF SaveTranscript, AtHead
  <2>3. \A f \in Episodes : AtHead(f)' => f = e
    BY <2>2, OneHead
  <2>4. pc' = "saving"
    BY <1>10 DEF SaveTranscript
  <2>q. QED
    BY <2>1, <2>3, <2>4 DEF HeadStands
<1>11. ASSUME NEW e \in Episodes, StoreTranscribed(e) PROVE SubstanceKept /\ HeadStands'
  <2>1. doc[e].text
    BY <1>0, <1>11 DEF StoreTranscribed, HeadStands
  <2>2. Stands("TRANSCRIBED", AcquireSucceeded(e, snap[e]))
    BY <2>1, StagePayloads DEF Stands
  <2>q. QED
    BY <1>0, <1>2, <1>11, <2>2, StagePayloads, EitherSound DEF StoreTranscribed
<1>12. ASSUME NEW e \in Episodes, StoreSummary(e) PROVE SubstanceKept /\ HeadStands'
  <2>1. CASE MarkError(e) /\ Done(e)
    BY <1>0, <1>2, <2>1, MarkErrorSound
  <2>2. ASSUME NEW s \in Score, Transition(e, "SUMMARIZED", [doc[e] EXCEPT !.tier1 = s]),
               pc' = "classify", UNCHANGED <<stage, todo, snap>>, AtHead(e)
        PROVE  SubstanceKept /\ HeadStands'
    <3>1. Stands("SUMMARIZED", [doc[e] EXCEPT !.tier1 = s])
      BY StagePayloads, ScoreIsOne DEF Stands
    <3>2. SubstanceKept
      BY <1>0, <2>2, <3>1, StagePayloads, TransitionSound
    <3>3. DocsStand' /\ doc'[e].status = "SUMMARIZED"
      BY <2>2, <3>2, StagePayloads DEF SubstanceKept, Transition, DocsShape, Payload, Fields
    <3>4. doc'[e].tier1 # NONE
      BY <3>3 DEF DocsStand, Stands
    <3>5. \A f \in Episodes : AtHead(f)' => AtHead(f)
      BY <2>2 DEF AtHead
    <3>6. \A f \in Episodes : AtHead(f)' => f = e
      BY <2>2, <3>5, OneHead
    <3>q. QED
      BY <2>2, <3>2, <3>4, <3>6 DEF HeadStands
  <2>q. QED
    BY <1>12, <2>1, <2>2 DEF StoreSummary
<1>13. ASSUME NEW e \in Episodes, Classify(e) PROVE SubstanceKept /\ HeadStands'
  <2>1. doc[e].tier1 # NONE
    BY <1>0, <1>13 DEF Classify, HeadStands
  <2>q. QED
    BY <1>0, <1>2, <1>13, <2>1, VerdictStands, StagePayloads, EitherSound DEF Classify
<1>14. CASE StartRun \/ NextStage \/ LLMDown \/ \E e \in Episodes : StoreFails(e)
  <2>1. doc' = doc /\ pc' = "next"
    BY <1>14 DEF StartRun, NextStage, LLMDown, StoreFails, EnterStage, Defer, Done
  <2>q. QED
    BY <1>0, <1>1, <2>1, NoWriteSound
<1>q. QED
  BY <1>3, <1>4, <1>5, <1>6, <1>7, <1>8, <1>9, <1>10, <1>11, <1>12, <1>13, <1>14
     DEF PipelineStep, Advance, Acquired, Outage

\* A sound write beside whatever the owner's requests are up to.
LEMMA RequestsStand ==
    ASSUME SubstanceInv, SubstanceKept, UNCHANGED ownerWork
    PROVE  ResetStands' /\ DemandStands'
BY DEF SubstanceInv, SubstanceKept, ResetStands, DemandStands, Stands, ownerWork

\* ... and beside the pipeline.
LEMMA StagesStand ==
    ASSUME SubstanceInv, SubstanceKept, UNCHANGED workVars
    PROVE  HeadStands'
BY DEF SubstanceInv, SubstanceKept, HeadStands, AtHead, workVars

\* A request moves on, or ends.
LEMMA MovedStands ==
    ASSUME OwnerShape, SubstanceInv, SubstanceKept, NEW e \in Episodes, NEW at,
           Goto(e, at) \/ Finish(e), reset' = reset,
           at = "saving" => doc'[e].text,
           at = "classify" => doc'[e].tier1 # NONE
    PROVE  ResetStands' /\ DemandStands'
<1>1. ResetStands'
  BY DEF SubstanceInv, SubstanceKept, ResetStands, Stands
<1>2. \A f \in Episodes \ {e} : demand'[f] = demand[f]
  BY DEF OwnerShape, Goto, Finish
<1>3. demand'[e].at \in {at, "off"}
  BY DEF OwnerShape, Goto, Finish, NoDemand
<1>q. QED
  BY <1>1, <1>2, <1>3 DEF SubstanceInv, SubstanceKept, DemandStands

LEMMA DemandSubstance ==
    ASSUME DocsShape, OwnerShape, SubstanceInv, NEW e \in Episodes, DemandStep(e)
    PROVE  SubstanceKept /\ ResetStands' /\ DemandStands'
<1>0. DocsStand
  BY DEF SubstanceInv
<1>1. ASSUME NEW s, NEW d, NEW at, DemandWrites(e, s, d, at), Payload(e, d), Stands(s, d),
             at \notin {"saving", "classify"}, reset' = reset
      PROVE  SubstanceKept /\ ResetStands' /\ DemandStands'
  <2>1. SubstanceKept
    BY <1>0, <1>1, TransitionSound, NoWriteSound DEF DemandWrites
  <2>2. Goto(e, at) \/ Finish(e)
    BY <1>1 DEF DemandWrites
  <2>q. QED
    BY <1>1, <2>1, <2>2, MovedStands
<1>2. ASSUME Finish(e), SubstanceKept, reset' = reset
      PROVE  SubstanceKept /\ ResetStands' /\ DemandStands'
  <2>1. "off" = "saving" => doc'[e].text
    OBVIOUS
  <2>q. QED
    BY <1>2, <2>1, MovedStands
<1>3. CASE DemandQueue(e) \/ DemandSettle(e)
  <2>1. Stands("AWAITING_TRANSCRIPT", doc[e]) /\ Stands("TRANSCRIPT_FAILED", doc[e])
    BY DEF Stands
  <2>q. QED
    <3>1. Payload(e, doc[e])
      BY StagePayloads
    <3>2. /\ \/ DemandWrites(e, "AWAITING_TRANSCRIPT", doc[e], "read")
             \/ DemandWrites(e, "TRANSCRIPT_FAILED", doc[e], "summarize")
          /\ reset' = reset
      BY <1>3 DEF DemandQueue, DemandSettle
    <3>q. QED
      BY <1>1, <2>1, <3>1, <3>2
<1>4. CASE DemandRead(e)
  <2>1. /\ doc' = doc /\ reset' = reset
        /\ demand' = [demand EXCEPT ![e].at = "claim", ![e].before = Counters(doc[e])]
    BY <1>4 DEF DemandRead
  <2>2. \A f \in Episodes : demand'[f].at \in {demand[f].at, "claim"}
    <3>1. demand' = [demand EXCEPT ![e] =
                       [demand[e] EXCEPT !.at = "claim", !.before = Counters(doc[e])]]
      BY <2>1 DEF OwnerShape
    <3>2. [demand[e] EXCEPT !.at = "claim", !.before = Counters(doc[e])].at = "claim"
      BY DEF OwnerShape
    <3>q. QED
      BY <3>1, <3>2 DEF OwnerShape
  <2>q. QED
    BY <1>0, <2>1, <2>2, NoWriteSound DEF SubstanceInv, DemandStands, ResetStands
<1>5. CASE DemandClaim(e)
  <2>1. /\ Stands("TRANSCRIPT_FAILED", [doc[e] EXCEPT !.failedAt = NONE])
        /\ Stands("AWAITING_TRANSCRIPT", [doc[e] EXCEPT !.crashes = @ + 1])
    BY DEF Stands
  <2>2. Payload(e, [doc[e] EXCEPT !.failedAt = NONE])
        /\ Payload(e, [doc[e] EXCEPT !.crashes = @ + 1])
    BY StagePayloads
  <2>3. \E s, d, at : /\ DemandWrites(e, s, d, at) /\ Payload(e, d) /\ Stands(s, d)
                      /\ at \notin {"saving", "classify"}
    BY <1>5, <2>1, <2>2 DEF DemandClaim
  <2>q. QED
    BY <1>1, <1>5, <2>3 DEF DemandClaim
<1>6. CASE DemandAcquireFails(e)
  <2>1. PICK s \in {"TRANSCRIPT_FAILED", "AWAITING_TRANSCRIPT"} :
           DemandWrites(e, s, AcquireFailed(e, demand[e].before), "settle")
    BY <1>6 DEF DemandAcquireFails
  <2>2. Stands(s, AcquireFailed(e, demand[e].before))
    BY DEF Stands
  <2>q. QED
    <3>1. Payload(e, AcquireFailed(e, demand[e].before))
      BY StagePayloads
    <3>2. reset' = reset
      BY <1>6 DEF DemandAcquireFails
    <3>q. QED
      BY <1>1, <2>1, <2>2, <3>1, <3>2
<1>7. CASE DemandASRDown(e)
  <2>1. Stands("AWAITING_TRANSCRIPT", Released(e, demand[e].before))
    BY DEF Stands
  <2>2. SubstanceKept
    BY <1>0, <1>7, <2>1, StagePayloads, TransitionSound, NoWriteSound DEF DemandASRDown
  <2>q. QED
    BY <1>2, <1>7, <2>2 DEF DemandASRDown
<1>8. CASE DemandSave(e)
  <2>1. SubstanceKept /\ doc'[e].text
    BY <1>0, <1>8, SaveSound DEF DemandSave
  <2>2. "saving" = "classify" => doc'[e].tier1 # NONE
    OBVIOUS
  <2>q. QED
    BY <1>8, <2>1, <2>2, MovedStands DEF DemandSave
<1>9. CASE DemandTranscribed(e)
  <2>1. doc[e].text
    BY <1>9 DEF DemandTranscribed, SubstanceInv, DemandStands
  <2>2. Stands("TRANSCRIBED", AcquireSucceeded(e, demand[e].before))
    BY <2>1, StagePayloads DEF Stands
  <2>q. QED
    <3>1. Payload(e, AcquireSucceeded(e, demand[e].before))
      BY StagePayloads
    <3>2. /\ DemandWrites(e, "TRANSCRIBED", AcquireSucceeded(e, demand[e].before), "summarize")
          /\ reset' = reset
      BY <1>9 DEF DemandTranscribed
    <3>q. QED
      BY <1>1, <2>2, <3>1, <3>2
<1>10. CASE DemandSummarize(e)
  <2>1. CASE Finish(e) /\ doc' = doc
    BY <1>0, <1>2, <1>10, <2>1, NoWriteSound DEF DemandSummarize
  <2>2. ASSUME NEW s \in Score, Transition(e, "SUMMARIZED", [doc[e] EXCEPT !.tier1 = s]),
               demand' = [demand EXCEPT ![e].at = "classify", ![e].scored = s]
        PROVE  SubstanceKept /\ ResetStands' /\ DemandStands'
    <3>1. Stands("SUMMARIZED", [doc[e] EXCEPT !.tier1 = s])
      BY StagePayloads, ScoreIsOne DEF Stands
    <3>2. SubstanceKept
      BY <1>0, <2>2, <3>1, StagePayloads, TransitionSound
    <3>3. DocsStand' /\ doc'[e].status = "SUMMARIZED"
      BY <2>2, <3>2, StagePayloads DEF SubstanceKept, Transition, DocsShape, Payload, Fields
    <3>4. doc'[e].tier1 # NONE
      BY <3>3 DEF DocsStand, Stands
    <3>5. /\ \A f \in Episodes \ {e} : demand'[f] = demand[f]
          /\ demand'[e].at = "classify"
      <4>1. demand' = [demand EXCEPT ![e] =
                         [demand[e] EXCEPT !.at = "classify", !.scored = s]]
        BY <2>2 DEF OwnerShape
      <4>2. [demand[e] EXCEPT !.at = "classify", !.scored = s].at = "classify"
        BY DEF OwnerShape
      <4>q. QED
        BY <4>1, <4>2 DEF OwnerShape
    <3>6. reset' = reset
      BY <1>10 DEF DemandSummarize
    <3>q. QED
      BY <3>2, <3>4, <3>5, <3>6 DEF SubstanceInv, SubstanceKept, ResetStands, DemandStands, Stands
  <2>q. QED
    BY <1>10, <2>1, <2>2 DEF DemandSummarize
<1>11. CASE DemandClassify(e)
  <2>1. doc[e].tier1 # NONE
    BY <1>11 DEF DemandClassify, SubstanceInv, DemandStands
  <2>2. Stands(Verdict(demand[e].scored), doc[e]) /\ Payload(e, doc[e])
    BY <2>1, VerdictStands, StagePayloads
  <2>3. CASE demand[e].listed
    BY <1>1, <1>11, <2>2, <2>3 DEF DemandClassify
  <2>4. CASE ~demand[e].listed
    <3>1. SubstanceKept
      BY <1>0, <1>11, <2>2, <2>4, TransitionSound, NoWriteSound DEF DemandClassify
    <3>q. QED
      BY <1>2, <1>11, <2>4, <3>1 DEF DemandClassify
  <2>q. QED
    BY <2>3, <2>4
<1>12. CASE DemandRelist(e)
  <2>1. Stands("PUBLISHED", [doc[e] EXCEPT !.relisted = TRUE])
    BY DEF Stands
  <2>2. SubstanceKept
    BY <1>0, <1>12, <2>1, StagePayloads, TransitionSound, NoWriteSound DEF DemandRelist
  <2>q. QED
    BY <1>2, <1>12, <2>2 DEF DemandRelist
<1>13. CASE DemandFails(e)
  BY <1>0, <1>2, <1>13, NoWriteSound DEF DemandFails
<1>q. QED
  BY <1>3, <1>4, <1>5, <1>6, <1>7, <1>8, <1>9, <1>10, <1>11, <1>12, <1>13 DEF DemandStep

\* The requests that begin: a retry takes the status the failure was recorded in, which
\* stands, or one that stands for nothing stored.
LEMMA StartSubstance ==
    ASSUME DocsShape, OwnerShape, SubstanceInv, NEW e \in Episodes,
           DemandStart(e) \/ RetryRead(e)
    PROVE  SubstanceKept /\ ResetStands' /\ DemandStands'
<1>0. SubstanceKept /\ doc' = doc
  BY NoWriteSound DEF SubstanceInv, DemandStart, RetryRead
<1>1. CASE DemandStart(e)
  <2>1. reset' = reset /\ \A f \in Episodes \ {e} : demand'[f] = demand[f]
    BY <1>1 DEF DemandStart, OwnerShape
  <2>2. demand'[e].at \in {"summarize", "queue"}
    BY <1>1 DEF DemandStart, OwnerShape, NoDemand
  <2>q. QED
    BY <1>0, <2>1, <2>2 DEF SubstanceInv, ResetStands, DemandStands
<1>2. CASE RetryRead(e)
  <2>1. Stands(RetryStatus(doc[e]), doc[e])
    BY DEF SubstanceInv, DocsStand, RetryStatus, ResumePoint, RetryTarget, Stands
  <2>2. /\ reset'[e] = RetryStatus(doc[e]) /\ demand' = demand
        /\ \A f \in Episodes \ {e} : reset'[f] = reset[f]
    BY <1>2 DEF RetryRead, OwnerShape
  <2>q. QED
    BY <1>0, <2>1, <2>2 DEF SubstanceInv, ResetStands, DemandStands
<1>q. QED
  BY <1>1, <1>2

LEMMA ButtonsSubstance ==
    ASSUME DocsShape, OwnerShape, SubstanceInv, NEW e \in Episodes,
           RetryWrite(e) \/ Escalate(e) \/ Rescore(e) \/ RescoreFails(e)
    PROVE  SubstanceKept /\ ResetStands' /\ DemandStands'
<1>0. DocsStand
  BY DEF SubstanceInv
<1>1. CASE RetryWrite(e)
  <2>1. Stands(reset[e], [doc[e] EXCEPT !.attempts = 0, !.crashes = 0, !.failedAt = NONE])
    <3>1. Stands(reset[e], doc[e]) /\ DOMAIN doc[e] = Fields
      BY DEF SubstanceInv, ResetStands, DocsShape, Documented
    <3>q. QED
      BY <3>1 DEF Stands, Fields
  <2>2. SubstanceKept
    BY <1>0, <1>1, <2>1, StagePayloads, TransitionSound, NoWriteSound DEF RetryWrite
  <2>3. demand' = demand /\ \A f \in Episodes : reset'[f] \in {reset[f], NONE}
    BY <1>1 DEF RetryWrite, OwnerShape
  <2>q. QED
    BY <2>2, <2>3, NoneStands DEF SubstanceInv, SubstanceKept, ResetStands, DemandStands, Stands
<1>2. CASE Escalate(e)
  <2>1. Stands("AWAITING_TRANSCRIPT", [doc[e] EXCEPT !.attempts = 0, !.crashes = 0,
                                                   !.failedAt = NONE, !.claim = NONE])
    BY DEF Stands
  <2>2. SubstanceKept
    BY <1>0, <1>2, <2>1, StagePayloads, TransitionSound DEF Escalate
  <2>q. QED
    BY <1>2, <2>2, RequestsStand DEF Escalate
<1>3. ASSUME SubstanceKept, UNCHANGED <<demand, reset>>
      PROVE  SubstanceKept /\ ResetStands' /\ DemandStands'
  BY <1>3 DEF SubstanceInv, SubstanceKept, ResetStands, DemandStands, Stands
<1>4. CASE Rescore(e)
  <2>1. PICK s \in Score : TransitionOrError(e, Verdict(s), [doc[e] EXCEPT !.tier1 = s])
    BY <1>4 DEF Rescore
  <2>2. /\ Stands(Verdict(s), [doc[e] EXCEPT !.tier1 = s])
        /\ Payload(e, [doc[e] EXCEPT !.tier1 = s])
    BY VerdictStands, StagePayloads, ScoreIsOne
  <2>q. QED
    BY <1>0, <1>3, <1>4, <2>1, <2>2, EitherSound DEF Rescore
<1>5. CASE RescoreFails(e)
  BY <1>0, <1>3, <1>5, MarkErrorSound DEF RescoreFails
<1>q. QED
  BY <1>1, <1>2, <1>4, <1>5

\* The digest publishes and claims, and touches nothing else of a document.
LEMMA DigestSubstance ==
    ASSUME LifeInv, SubstanceInv,
           \/ doc' = doc
           \/ MarkWrite
    PROVE  SubstanceKept
<1>0. DocsStand /\ DocsShape
  BY DEF SubstanceInv, LifeInv
<1>1. CASE doc' = doc
  BY <1>0, <1>1, NoWriteSound
<1>2. CASE MarkWrite
  <2>1. run.ep \in Episodes /\ DOMAIN doc[run.ep] = Fields
    BY <1>2 DEF MarkWrite, LifeInv, FileFirst, DigestShape, DocsShape, Documented
  <2>2. Payload(run.ep, [doc[run.ep] EXCEPT !.claim = run.week])
    BY <2>1 DEF Payload, Fields
  <2>3. CASE doc' = [doc EXCEPT ![run.ep] = [doc[run.ep] EXCEPT !.claim = run.week]]
    <3>1. doc' = [doc EXCEPT ![run.ep] = [[doc[run.ep] EXCEPT !.claim = run.week]
                                            EXCEPT !.status = doc[run.ep].status]]
      BY <2>1, <2>3 DEF Fields
    <3>2. Stands(doc[run.ep].status, [doc[run.ep] EXCEPT !.claim = run.week])
      BY <1>0, <2>1, <2>2 DEF DocsStand, Stands, Fields
    <3>3. Transition(run.ep, doc[run.ep].status, [doc[run.ep] EXCEPT !.claim = run.week])
      BY <3>1 DEF Transition, Accepts
    <3>q. QED
      BY <1>0, <2>1, <2>2, <3>2, <3>3, TransitionSound
  <2>4. CASE Transition(run.ep, "PUBLISHED", [doc[run.ep] EXCEPT !.claim = run.week])
    <3>1. Stands("PUBLISHED", [doc[run.ep] EXCEPT !.claim = run.week])
      BY DEF Stands
    <3>q. QED
      BY <1>0, <2>1, <2>2, <2>4, <3>1, TransitionSound
  <2>q. QED
    BY <1>1, <1>2, <2>3, <2>4 DEF MarkWrite
<1>q. QED
  BY <1>1, <1>2

LEMMA SubstanceStart == Init => SubstanceInv
<1>1. SUFFICES ASSUME Init PROVE SubstanceInv
  OBVIOUS
<1>2. \A e \in Episodes : doc[e] = NewDoc /\ reset[e] = NONE /\ demand[e] = NoDemand
  <2>1. /\ doc = [e \in Episodes |-> NewDoc]
        /\ reset = [e \in Episodes |-> NONE]
        /\ demand = [e \in Episodes |-> NoDemand]
    BY <1>1 DEF Init, PipelineInit, OwnerInit
  <2>q. QED
    BY <2>1
<1>3. pc = "next"
  BY <1>1 DEF Init, PipelineInit
<1>4. DocsStand /\ ResetStands
  BY <1>2, NoneStands DEF DocsStand, ResetStands, NewDoc, Stands
<1>q. QED
  BY <1>2, <1>3, <1>4 DEF SubstanceInv, HeadStands, DemandStands, NoDemand

LEMMA SubstanceStep ==
    ASSUME LifeInv, SubstanceInv, [Next]_vars
    PROVE  SubstanceInv'
<1>0. DocsShape /\ OwnerShape
  BY DEF LifeInv
<1>1. ASSUME SubstanceKept, UNCHANGED ownerWork, UNCHANGED workVars PROVE SubstanceInv'
  BY <1>1, RequestsStand, StagesStand DEF SubstanceKept, SubstanceInv
<1>2. ASSUME SubstanceKept /\ ResetStands' /\ DemandStands', UNCHANGED workVars PROVE SubstanceInv'
  BY <1>2, StagesStand DEF SubstanceKept, SubstanceInv
<1>3. CASE Pipeline
  <2>1. SubstanceKept /\ HeadStands'
    BY <1>0, <1>3, PipelineSubstance DEF Pipeline
  <2>q. QED
    BY <1>3, <2>1, RequestsStand DEF Pipeline, SubstanceKept, SubstanceInv
<1>4. CASE Request
  <2>1. UNCHANGED workVars
    BY <1>4 DEF Request
  <2>2. CASE \E e \in Episodes : DemandStart(e) \/ RetryRead(e)
    BY <1>0, <1>2, <2>1, <2>2, StartSubstance
  <2>3. CASE \E e \in Episodes : Escalate(e)
    BY <1>0, <1>2, <2>1, <2>3, ButtonsSubstance
  <2>4. CASE RescoreStart \/ (ManualDigest /\ UNCHANGED ownerWork)
    <3>1. doc' = doc /\ UNCHANGED <<demand, reset>>
      BY <2>4 DEF RescoreStart, ManualDigest, Generate, ownerWork
    <3>2. SubstanceKept
      BY <3>1, NoWriteSound DEF SubstanceInv
    <3>3. ResetStands' /\ DemandStands'
      BY <3>1 DEF SubstanceInv, ResetStands, DemandStands
    <3>q. QED
      BY <1>2, <2>1, <3>2, <3>3
  <2>q. QED
    BY <1>4, <2>2, <2>3, <2>4 DEF Request
<1>5. CASE Owner
  <2>1. UNCHANGED workVars
    BY <1>5 DEF Owner
  <2>2. CASE \E e \in Episodes : DemandStep(e)
    BY <1>0, <1>2, <2>1, <2>2, DemandSubstance
  <2>3. CASE \E e \in Episodes : RetryWrite(e) \/ Rescore(e) \/ RescoreFails(e)
    BY <1>0, <1>2, <2>1, <2>3, ButtonsSubstance
  <2>4. CASE RescoreDeferred
    <3>1. doc' = doc /\ UNCHANGED <<demand, reset>>
      BY <2>4 DEF RescoreDeferred
    <3>2. SubstanceKept
      BY <3>1, NoWriteSound DEF SubstanceInv
    <3>3. ResetStands' /\ DemandStands'
      BY <3>1 DEF SubstanceInv, ResetStands, DemandStands
    <3>q. QED
      BY <1>2, <2>1, <3>2, <3>3
  <2>q. QED
    BY <1>5, <2>2, <2>3, <2>4 DEF Owner
<1>6. CASE WeeklyDigest \/ DigestGoesWrong
  <2>1. UNCHANGED ownerWork /\ UNCHANGED workVars
    BY <1>6 DEF WeeklyDigest, DigestGoesWrong
  <2>2. doc' = doc \/ MarkWrite
    BY <1>6 DEF WeeklyDigest, DigestGoesWrong, ScheduledDigest, Generate, DigestStep, NextWeek,
       WriteFile, PutDigest, MarkRead, CompleteMarking, DigestMishap, MarkFails, DigestFails
  <2>q. QED
    BY <1>1, <2>1, <2>2, DigestSubstance
<1>7. CASE Crash
  <2>1. SubstanceKept
    BY <1>7, NoWriteSound DEF Crash, SubstanceInv
  <2>2. /\ pc' = "next"
        /\ \A e \in Episodes : demand'[e] = NoDemand /\ reset'[e] = NONE
    BY <1>7 DEF Crash, RunDies, OwnerDies
  <2>3. HeadStands' /\ DemandStands' /\ ResetStands'
    BY <2>2, NoneStands DEF HeadStands, DemandStands, ResetStands, NoDemand
  <2>q. QED
    BY <2>1, <2>3 DEF SubstanceInv, SubstanceKept
<1>8. CASE UNCHANGED vars
  <2>1. doc' = doc /\ UNCHANGED ownerWork /\ UNCHANGED workVars
    BY <1>8 DEF vars
  <2>q. QED
    BY <1>1, <2>1, NoWriteSound DEF SubstanceInv
<1>q. QED
  BY <1>3, <1>4, <1>5, <1>6, <1>7, <1>8 DEF Next

\* Whoever writes, and whenever the process dies between a stage's two writes, no episode
\* reads TRANSCRIBED without its attachment or carries a classification without a score, a
\* retry that restores the status held at a failure included (episodes.py:33-34,
\* api/routes.py:857).
THEOREM StatusesStand == Spec => []StatusHasSubstance
<1>1. LifeInv /\ SubstanceInv /\ [Next]_vars => SubstanceInv'
  BY SubstanceStep
<1>2. SubstanceInv => StatusHasSubstance
  BY DEF SubstanceInv, DocsStand, Stands, StatusHasSubstance
<1>q. QED
  BY SubstanceStart, LifeInvariant, <1>1, <1>2, PTL DEF Spec

=============================================================================
