---------------------------- MODULE IngestProofs -----------------------------
(***************************************************************************)
(* Proofs about feed ingestion, for any feeds, dates, lookback and         *)
(* breaker: how far back routine ingestion reaches by itself, and that a   *)
(* 304 hides nothing.  The second rests on what becomes of an entry once a *)
(* poll has read it, and on why a poll leaves one behind.                  *)
(***************************************************************************)
EXTENDS Ingest, WellFoundedInduction, TLAPS

-----------------------------------------------------------------------------
(* Types and dates                                                         *)

\* The oldest date held is one that is held, and no other is older.
LEMMA OldestIsOldest ==
    ASSUME NEW S, S \subseteq Entries, S # {}
    PROVE  /\ \E e \in S : Oldest(S) = Date[e]
           /\ \A e \in S : Oldest(S) <= Date[e]
<1> DEFINE D == {Date[e] : e \in S}
<1>1. D \subseteq Nat /\ D # {}
  BY IngestAssumption
<1> HIDE DEF D
<1>2. \E d \in D : \A n \in D : ~(<<n, d>> \in OpToRel(<, Nat))
  BY <1>1, NatLessThanWellFounded, WFMin
<1>3. PICK d \in D : \A n \in D : ~(n < d)
  BY <1>1, <1>2 DEF OpToRel
<1>4. \A n \in D : d <= n
  BY <1>1, <1>3
<1>5. d \in {Date[e] : e \in S} /\ \A e \in S : d <= Date[e]
  BY <1>4 DEF D
<1> QED
  BY <1>5 DEF Oldest

LEMMA TypeInit == Init => IngestTypeOK
<1> SUFFICES ASSUME Init PROVE IngestTypeOK
  OBVIOUS
<1>1. pdoc \in Podcast /\ poll \in Poll
  BY IngestAssumption DEF Init, Podcast, Validators, Poll, Idle
<1>2. registry \in Record /\ edoc \in [Entries -> {"routine", "backfill", NONE}]
  BY IngestAssumption DEF Init, Record
<1>3. offered \in SUBSET Entries /\ passed \in SUBSET Entries /\ crossed \in BOOLEAN
  BY DEF Init
<1>4. /\ console \in [url : Urls \cup {NONE}, enabled : BOOLEAN]
      /\ rules \in Rules
  BY DEF Init, Rules
<1>5. day \in StartDay..MaxDay /\ failed \in 0..MaxFailures /\ changes \in 0..MaxRequests
  BY IngestAssumption DEF Init
<1> QED
  BY <1>1, <1>2, <1>3, <1>4, <1>5 DEF IngestTypeOK

LEMMA MergedType ==
    ASSUME NEW overrides \in [url : Urls \cup {NONE}, enabled : BOOLEAN]
    PROVE  Merged(overrides) \in Record
BY IngestAssumption DEF Merged, Record

LEMMA SeededType ==
    ASSUME pdoc \in Podcast, NEW url \in Urls
    PROVE  Seeded(url) \in Podcast
BY DEF Seeded, Podcast, Validators

LEMMA CutoffType == IngestTypeOK => Cutoff \in Int
<1> SUFFICES ASSUME IngestTypeOK PROVE Cutoff \in Int
  OBVIOUS
<1>1. day \in Nat /\ Lookback \in Nat
  BY IngestAssumption DEF IngestTypeOK
<1>2. CASE Held({"routine", "backfill"}) # {}
  <2>1. PICK e \in Held({"routine", "backfill"}) : Cutoff = Date[e]
    BY <1>2, OldestIsOldest DEF Cutoff, Held
  <2> QED
    BY <2>1, IngestAssumption DEF Held
<1>3. CASE Held({"routine", "backfill"}) = {}
  BY <1>1, <1>3 DEF Cutoff
<1> QED
  BY <1>2, <1>3

LEMMA TypeStep == IngestTypeOK /\ [Next]_vars => IngestTypeOK'
<1> SUFFICES ASSUME IngestTypeOK, [Next]_vars PROVE IngestTypeOK'
  OBVIOUS
<1> USE DEF IngestTypeOK
<1>0. /\ Idle \in Poll /\ NONE \in Validators
      /\ \A url \in Urls : [url |-> url, seen |-> Content(url)] \in Validators
  BY IngestAssumption DEF Idle, Poll, Validators, Content
<1>1. CASE PollBegins
  BY <1>1, MergedType DEF PollBegins, env, history, Poll
<1>2. CASE Seed
  BY <1>2, SeededType DEF Seed, env, history, Poll, Record
<1>3. CASE ReadPodcast
  BY <1>3, <1>0 DEF ReadPodcast, env, history, Poll, Record, Conditional, Idle
<1>4. CASE NotModified
  BY <1>4, <1>0 DEF NotModified, env, history, Poll
<1>5. CASE Fetched
  BY <1>5, <1>0 DEF Fetched, env, history, Poll, Content
<1>6. CASE FindCutoff
  BY <1>6, CutoffType DEF FindCutoff, env, history, Poll
<1>7. ASSUME NEW e \in Entries, IngestEntry(e) PROVE IngestTypeOK'
  BY <1>7 DEF IngestEntry, Create, env, history, Poll
<1>8. CASE EntriesDone
  BY <1>8 DEF EntriesDone, env, history, Poll
<1>9. CASE RecordSuccess
  <2> DEFINE known == pdoc.metadata \/ poll.body
  <2>1. PICK etag \in {poll.etag, NONE} :
           pdoc' = [pdoc EXCEPT !.etag = etag, !.today = TRUE, !.failures = 0,
                                !.rules = rules, !.metadata = known]
    BY <1>9 DEF RecordSuccess
  <2>2. etag \in Validators
    BY <1>0, <2>1 DEF Poll
  <2>3. known \in BOOLEAN
    OBVIOUS
  <2> HIDE DEF known
  <2>4. pdoc' \in Podcast
    BY <2>1, <2>2, <2>3 DEF Podcast
  <2> QED
    BY <1>9, <1>0, <2>4 DEF RecordSuccess, env, history
<1>10. CASE RecordFailure
  <2> DEFINE n == IF pdoc.failures < CIRCUIT_BREAKER_THRESHOLD
                  THEN pdoc.failures + 1 ELSE pdoc.failures
  <2>1. n \in Nat
    BY DEF Podcast
  <2>2. pdoc' = [pdoc EXCEPT !.today = TRUE, !.failures = n]
    BY <1>10 DEF RecordFailure
  <2> HIDE DEF n
  <2>3. pdoc' \in Podcast
    BY <2>1, <2>2 DEF Podcast
  <2> QED
    BY <1>10, <1>0, <2>3 DEF RecordFailure, env, history
<1>11. CASE FetchFails \/ EntryFails
  BY <1>11, <1>0, IngestAssumption DEF FetchFails, EntryFails, env, history, Poll
<1>12. ASSUME NEW e \in Entries, Publish(e) \/ ArchiveRecords(e) PROVE IngestTypeOK'
  BY <1>12 DEF Publish, ArchiveRecords, Create, env, history
<1>13. CASE DayPasses
  <2>1. pdoc' \in Podcast
    BY <1>13 DEF DayPasses, Podcast
  <2>2. day' \in StartDay..MaxDay
    BY <1>13, IngestAssumption DEF DayPasses
  <2> QED
    BY <1>13, <2>1, <2>2 DEF DayPasses, history
<1>14. CASE ConsoleSets
  <2>1. console' \in [url : Urls \cup {NONE}, enabled : BOOLEAN]
    BY <1>14 DEF ConsoleSets
  <2> QED
    BY <1>14, <2>1, MergedType, IngestAssumption DEF ConsoleSets, env, history
<1>15. CASE Restart
  BY <1>15, <1>0, SeededType, MergedType, IngestAssumption DEF Restart, env, history, Rules
<1>16. CASE UNCHANGED vars
  BY <1>16 DEF vars
<1> QED
  BY <1>1, <1>2, <1>3, <1>4, <1>5, <1>6, <1>7, <1>8, <1>9, <1>10, <1>11, <1>12, <1>13,
     <1>14, <1>15, <1>16 DEF Next, PollStep

LEMMA IngestTypes == Spec => []IngestTypeOK
BY TypeInit, TypeStep, PTL DEF Spec

-----------------------------------------------------------------------------
(* What a step does to the episodes and to the poll                        *)

\* Routine ingestion records e: e is allowed, and not older than the poll's cutoff.
TakesRoutine(e) ==
    /\ poll.at = "entries" /\ Date[e] >= poll.cutoff
    /\ edoc' = [edoc EXCEPT ![e] = "routine"]
    /\ UNCHANGED <<day, rules, pdoc>>

\* The archive records e, of whatever date.
TakesArchived(e) ==
    /\ edoc' = [edoc EXCEPT ![e] = "backfill"]
    /\ UNCHANGED <<day, rules, pdoc, poll, history>>

\* At most one entry becomes an episode in a step, one that was none.
LEMMA EpisodesGrow ==
    ASSUME [Next]_vars
    PROVE  \/ edoc' = edoc
           \/ \E e \in Entries : edoc[e] = NONE /\ (TakesRoutine(e) \/ TakesArchived(e))
<1>1. ASSUME NEW e \in Entries, IngestEntry(e), edoc' # edoc
      PROVE  edoc[e] = NONE /\ TakesRoutine(e)
  BY <1>1 DEF IngestEntry, Create, TakesRoutine, env, history
<1>2. ASSUME NEW e \in Entries, ArchiveRecords(e), edoc' # edoc
      PROVE  edoc[e] = NONE /\ TakesArchived(e)
  BY <1>2 DEF ArchiveRecords, Create, TakesArchived, env, history
<1>3. CASE PollBegins \/ Seed \/ ReadPodcast \/ NotModified \/ Fetched \/ FindCutoff
              \/ EntriesDone \/ RecordSuccess \/ RecordFailure
  BY <1>3 DEF PollBegins, Seed, ReadPodcast, NotModified, Fetched, FindCutoff,
              EntriesDone, RecordSuccess, RecordFailure
<1>4. CASE FetchFails \/ EntryFails \/ DayPasses \/ ConsoleSets \/ Restart
              \/ \E e \in Entries : Publish(e)
  BY <1>4 DEF FetchFails, EntryFails, DayPasses, ConsoleSets, Restart, Publish
<1>5. CASE UNCHANGED vars
  BY <1>5 DEF vars
<1> QED
  BY <1>1, <1>2, <1>3, <1>4, <1>5 DEF Next, PollStep

\* Reading the podcast either ends the poll or leads to the request.
LEMMA ReadOutcome ==
    ASSUME ReadPodcast
    PROVE  \/ poll' = Idle /\ poll'.at = "idle"
           \/ /\ poll'.at = "fetch" /\ poll'.url = registry.url /\ ~poll'.body
              /\ poll'.conditional => Conditional
<1> DEFINE asked == Conditional
<1>1. CASE poll' = Idle
  BY <1>1 DEF Idle
<1>2. CASE poll' = [Idle EXCEPT !.at = "fetch", !.url = registry.url,
                                !.conditional = asked]
  <2> HIDE DEF asked
  <2>1. /\ poll'.at = "fetch" /\ poll'.url = registry.url /\ ~poll'.body
        /\ poll'.conditional = asked
    BY <1>2 DEF Idle
  <2> QED
    BY <2>1 DEF asked
<1> QED
  BY <1>1, <1>2 DEF ReadPodcast

\* The cutoff is the one found, for as long as the poll works through the entries.
LEMMA CutoffStands ==
    ASSUME IngestTypeOK, [Next]_vars, poll'.at = "entries"
    PROVE  \/ FindCutoff
           \/ poll.at = "entries" /\ poll'.cutoff = poll.cutoff
<1>1. CASE PollBegins \/ Seed \/ ReadPodcast \/ NotModified \/ Fetched
              \/ EntriesDone \/ RecordSuccess \/ RecordFailure
  <2>1. CASE PollBegins \/ Seed \/ NotModified \/ Fetched \/ EntriesDone
    BY <2>1 DEF IngestTypeOK, Poll, PollBegins, Seed, NotModified, Fetched, EntriesDone
  <2>2. CASE ReadPodcast
    BY <2>2, ReadOutcome
  <2>3. CASE RecordSuccess \/ RecordFailure
    BY <2>3 DEF RecordSuccess, RecordFailure, Idle
  <2> QED
    BY <1>1, <2>1, <2>2, <2>3
<1>2. ASSUME NEW e \in Entries, IngestEntry(e)
      PROVE  poll.at = "entries" /\ poll'.cutoff = poll.cutoff
  BY <1>2 DEF IngestTypeOK, Poll, IngestEntry
<1>3. CASE FetchFails \/ EntryFails \/ Restart
  BY <1>3 DEF FetchFails, EntryFails, Restart, Idle
<1>4. CASE DayPasses \/ ConsoleSets \/ \E e \in Entries : Publish(e) \/ ArchiveRecords(e)
  BY <1>4 DEF DayPasses, ConsoleSets, Publish, ArchiveRecords
<1>5. CASE UNCHANGED vars
  BY <1>5 DEF vars
<1> QED
  BY <1>1, <1>2, <1>3, <1>4, <1>5 DEF Next, PollStep

-----------------------------------------------------------------------------
(* Routine ingestion alone                                                 *)

\* While the archive has recorded nothing, no poll works with a cutoff before the
\* lookback as it was when the podcast was added.
ForwardInv ==
    Held({"backfill"}) = {} =>
        /\ RoutineLooksForward
        /\ poll.at = "entries" => poll.cutoff >= StartDay - Lookback

\* Such is the cutoff found by what is held, or without any by today's lookback.
LEMMA CutoffForward ==
    ASSUME IngestTypeOK, Held({"backfill"}) = {}, RoutineLooksForward
    PROVE  Cutoff >= StartDay - Lookback
<1>1. /\ day \in Nat /\ Lookback \in Nat /\ StartDay \in Nat /\ day >= StartDay
      /\ \A e \in Entries : Date[e] \in Nat
  BY IngestAssumption DEF IngestTypeOK
<1>2. CASE Held({"routine", "backfill"}) # {}
  <2>1. PICK e \in Held({"routine", "backfill"}) : Cutoff = Date[e]
    BY <1>2, OldestIsOldest DEF Cutoff, Held
  <2>2. e \in Entries /\ edoc[e] = "routine"
    BY <2>1 DEF Held
  <2> QED
    BY <2>1, <2>2 DEF RoutineLooksForward
<1>3. CASE Held({"routine", "backfill"}) = {}
  BY <1>1, <1>3 DEF Cutoff
<1> QED
  BY <1>2, <1>3

LEMMA ForwardStep ==
    ASSUME IngestTypeOK, ForwardInv, [Next]_vars
    PROVE  ForwardInv'
<1> SUFFICES ASSUME Held({"backfill"})' = {}
             PROVE  /\ RoutineLooksForward'
                    /\ poll'.at = "entries" => poll'.cutoff >= StartDay - Lookback
  BY DEF ForwardInv
<1>1. Held({"backfill"}) = {}
  <2> SUFFICES ASSUME NEW e \in Entries, edoc[e] = "backfill" PROVE FALSE
    BY DEF Held
  <2>1. edoc'[e] = "backfill"
    BY EpisodesGrow, IngestAssumption DEF TakesRoutine, TakesArchived, IngestTypeOK
  <2> QED
    BY <2>1 DEF Held
<1>2. RoutineLooksForward'
  <2> SUFFICES ASSUME NEW e \in Entries, edoc'[e] = "routine", edoc[e] # "routine"
               PROVE  Date[e] >= StartDay - Lookback
    BY <1>1 DEF RoutineLooksForward, ForwardInv
  <2>1. TakesRoutine(e)
    BY EpisodesGrow DEF TakesRoutine, TakesArchived, IngestTypeOK
  <2>2. poll.cutoff >= StartDay - Lookback /\ Date[e] >= poll.cutoff
    BY <1>1, <2>1 DEF TakesRoutine, ForwardInv
  <2> QED
    BY <2>2, IngestAssumption DEF IngestTypeOK, Poll
<1>3. ASSUME poll'.at = "entries" PROVE poll'.cutoff >= StartDay - Lookback
  <2>1. CASE FindCutoff
    <3>1. poll'.cutoff = Cutoff
      BY <2>1 DEF FindCutoff, IngestTypeOK, Poll
    <3> QED
      BY <1>1, <3>1, CutoffForward DEF ForwardInv
  <2>2. CASE poll.at = "entries" /\ poll'.cutoff = poll.cutoff
    BY <1>1, <2>2 DEF ForwardInv
  <2> QED
    BY <1>3, <2>1, <2>2, CutoffStands
<1> QED
  BY <1>2, <1>3

\* For any feed, dates and lookback: as long as the archive has recorded nothing, routine
\* ingestion takes nothing older than the lookback reached when the podcast was added
\* (feeds.py:261-293).
THEOREM RoutineReachesForward == Spec => []RoutineAloneLooksForward
<1>1. Init => ForwardInv
  BY IngestAssumption DEF Init, ForwardInv, RoutineLooksForward, Idle
<1>2. ForwardInv => RoutineAloneLooksForward
  BY DEF ForwardInv, RoutineAloneLooksForward
<1> QED
  BY <1>1, <1>2, ForwardStep, IngestTypes, PTL DEF Spec

-----------------------------------------------------------------------------
(* What a poll leaves behind                                               *)

\* The cutoff a poll works with is the lookback's, or lies between what routine ingestion
\* has taken and something held.
CutoffBounded ==
    poll.at = "entries" =>
        \/ poll.cutoff <= day - Lookback
        \/ /\ \E h \in Held({"routine", "backfill"}) : poll.cutoff <= Date[h]
           /\ \A h \in Held({"routine"}) : poll.cutoff <= Date[h]

\* The archive has recorded something as old as e.
Overtaken(e) == \E h \in Held({"backfill"}) : Date[h] <= Date[e]

\* What was left is too old or passed over; and no poll takes anything as old, unless the
\* archive has.
LeftBehind ==
    \A e \in passed :
        /\ Date[e] < day - Lookback \/ PassedOver(e)
        /\ poll.at = "entries" =>
              Date[e] < day - Lookback \/ Date[e] < poll.cutoff \/ Overtaken(e)

PassedInv == CutoffBounded /\ LeftBehind

LEMMA DayGrows ==
    ASSUME IngestTypeOK, [Next]_vars
    PROVE  day \in Nat /\ day' \in Nat /\ day <= day'
<1>1. day \in Nat
  BY IngestAssumption DEF IngestTypeOK
<1>2. CASE DayPasses
  BY <1>1, <1>2, IngestAssumption DEF DayPasses
<1>3. CASE ~DayPasses
  BY <1>1, <1>3 DEF Next, PollStep, vars, env, PollBegins, Seed, ReadPodcast, NotModified,
     Fetched, FindCutoff, IngestEntry, EntriesDone, RecordSuccess, RecordFailure,
     FetchFails, EntryFails, Publish, ArchiveRecords, ConsoleSets, Restart
<1> QED
  BY <1>2, <1>3

\* Episodes stay, and routine ingestion takes nothing older than the poll's cutoff.
LEMMA HeldGrows ==
    ASSUME IngestTypeOK, [Next]_vars
    PROVE  /\ Held({"routine", "backfill"}) \subseteq Held({"routine", "backfill"})'
           /\ Held({"backfill"}) \subseteq Held({"backfill"})'
           /\ \A h \in Held({"routine"})' \ Held({"routine"}) :
                 poll.at = "entries" /\ Date[h] >= poll.cutoff
<1>1. NONE \notin {"routine", "backfill"}
  BY IngestAssumption
<1> QED
  BY <1>1, EpisodesGrow DEF IngestTypeOK, Held, TakesRoutine, TakesArchived

LEMMA CutoffBoundedStep ==
    ASSUME IngestTypeOK, CutoffBounded, [Next]_vars
    PROVE  CutoffBounded'
<1> SUFFICES ASSUME poll'.at = "entries"
             PROVE  \/ poll'.cutoff <= day' - Lookback
                    \/ /\ \E h \in Held({"routine", "backfill"})' : poll'.cutoff <= Date[h]
                       /\ \A h \in Held({"routine"})' : poll'.cutoff <= Date[h]
  BY DEF CutoffBounded
<1>0. /\ day \in Nat /\ day' \in Nat /\ day <= day' /\ Lookback \in Nat
      /\ \A h \in Entries : Date[h] \in Nat
      /\ poll.cutoff \in Int
  BY DayGrows, IngestAssumption DEF IngestTypeOK, Poll
<1>1. CASE FindCutoff
  <2>1. poll'.cutoff = Cutoff /\ UNCHANGED <<edoc, day>>
    BY <1>1 DEF FindCutoff, IngestTypeOK, Poll, env
  <2>2. CASE Held({"routine", "backfill"}) = {}
    BY <1>0, <2>1, <2>2 DEF Cutoff
  <2>3. CASE Held({"routine", "backfill"}) # {}
    <3>1. /\ \A h \in Held({"routine", "backfill"}) : Cutoff <= Date[h]
          /\ \E h \in Held({"routine", "backfill"}) : Cutoff = Date[h]
      BY <2>3, OldestIsOldest DEF Cutoff, Held
    <3>2. /\ Held({"routine"})' \subseteq Held({"routine", "backfill"})
          /\ Held({"routine", "backfill"})' = Held({"routine", "backfill"})
      BY <2>1 DEF Held
    <3>3. \E h \in Held({"routine", "backfill"}) : Cutoff <= Date[h]
      BY <3>1
    <3> QED
      BY <2>1, <3>1, <3>2, <3>3
  <2> QED
    BY <2>2, <2>3
<1>2. CASE poll.at = "entries" /\ poll'.cutoff = poll.cutoff
  <2>1. CASE poll.cutoff <= day - Lookback
    BY <1>0, <1>2, <2>1
  <2>2. CASE /\ \E h \in Held({"routine", "backfill"}) : poll.cutoff <= Date[h]
             /\ \A h \in Held({"routine"}) : poll.cutoff <= Date[h]
    <3>1. \E h \in Held({"routine", "backfill"})' : poll.cutoff <= Date[h]
      BY <2>2, HeldGrows
    <3>2. ASSUME NEW h \in Held({"routine"})' PROVE poll.cutoff <= Date[h]
      <4>1. Date[h] \in Nat
        BY <1>0 DEF Held
      <4> QED
        BY <1>0, <2>2, <4>1, HeldGrows
    <3> QED
      BY <1>2, <3>1, <3>2
  <2> QED
    BY <1>2, <2>1, <2>2 DEF CutoffBounded
<1> QED
  BY <1>1, <1>2, CutoffStands

\* An entry below the cutoff of a poll is too old, or passed over once it is left.
LEMMA BelowCutoff ==
    ASSUME IngestTypeOK, CutoffBounded, poll.at = "entries",
           NEW e \in Entries, Date[e] < poll.cutoff
    PROVE  \/ Date[e] < day - Lookback
           \/ /\ \E h \in Held({"routine", "backfill"}) : Date[e] < Date[h]
              /\ \/ \A h \in Held({"routine", "backfill"}) : Date[e] < Date[h]
                 \/ Overtaken(e)
<1>0. /\ day \in Nat /\ Lookback \in Nat /\ poll.cutoff \in Int
      /\ \A h \in Entries : Date[h] \in Nat
  BY IngestAssumption DEF IngestTypeOK, Poll
<1>1. CASE poll.cutoff <= day - Lookback
  BY <1>0, <1>1
<1>2. CASE /\ \E h \in Held({"routine", "backfill"}) : poll.cutoff <= Date[h]
           /\ \A h \in Held({"routine"}) : poll.cutoff <= Date[h]
  <2>1. \E h \in Held({"routine", "backfill"}) : Date[e] < Date[h]
    BY <1>0, <1>2 DEF Held
  <2>2. ASSUME NEW h \in Held({"routine", "backfill"}), ~(Date[e] < Date[h])
        PROVE  Overtaken(e)
    <3>1. h \notin Held({"routine"})
      BY <1>0, <1>2, <2>2 DEF Held
    <3>2. h \in Held({"backfill"}) /\ Date[h] <= Date[e]
      BY <1>0, <2>2, <3>1 DEF Held
    <3> QED
      BY <3>2 DEF Overtaken
  <2> QED
    BY <2>1, <2>2
<1> QED
  BY <1>1, <1>2 DEF CutoffBounded

\* Only reading an entry leaves one, and only below the cutoff.
LEMMA PassedGrows ==
    ASSUME IngestTypeOK, [Next]_vars
    PROVE  /\ passed \subseteq passed'
           /\ \A e \in passed' \ passed :
                 poll.at = "entries" /\ Date[e] < poll.cutoff /\ edoc' = edoc
<1>1. ASSUME NEW h \in Entries, IngestEntry(h), passed' # passed
      PROVE  /\ passed' = passed \cup {h} /\ edoc' = edoc
             /\ poll.at = "entries" /\ Date[h] < poll.cutoff
  <2>1. poll.at = "entries" /\ Date[h] < poll.cutoff /\ passed' = passed \cup {h}
    BY <1>1 DEF IngestEntry
  <2>2. ~(Date[h] >= poll.cutoff)
    BY <2>1, IngestAssumption DEF IngestTypeOK, Poll
  <2> QED
    BY <1>1, <2>1, <2>2 DEF IngestEntry
<1>2. CASE ~\E h \in Entries : IngestEntry(h)
  BY <1>2 DEF Next, PollStep, vars, history, PollBegins, Seed, ReadPodcast, NotModified,
     Fetched, FindCutoff, EntriesDone, RecordSuccess, RecordFailure, FetchFails,
     EntryFails, Publish, DayPasses, ArchiveRecords, ConsoleSets, Restart
<1> QED
  BY <1>1, <1>2

\* The first half of LeftBehind: why an entry was left keeps being so.
LEMMA StaysBehind ==
    ASSUME IngestTypeOK, PassedInv, [Next]_vars, NEW e \in passed
    PROVE  Date[e] < day' - Lookback \/ PassedOver(e)'
<1>0. /\ day \in Nat /\ day' \in Nat /\ day <= day' /\ Lookback \in Nat
      /\ \A h \in Entries : Date[h] \in Nat
      /\ poll.cutoff \in Int /\ e \in Entries /\ e \in passed'
  BY DayGrows, PassedGrows, IngestAssumption DEF IngestTypeOK, Poll
<1>1. CASE Date[e] < day - Lookback
  BY <1>0, <1>1
<1>2. CASE ~(Date[e] < day - Lookback) /\ PassedOver(e)
  <2>1. \E h \in Held({"routine", "backfill"})' : Date[e] < Date[h]
    BY <1>2, HeldGrows DEF PassedOver
  <2>2. CASE Overtaken(e)
    <3>1. \E h \in Held({"backfill"})' : Date[h] <= Date[e]
      BY <2>2, HeldGrows DEF Overtaken
    <3> QED
      BY <1>0, <2>1, <3>1 DEF PassedOver
  <2>3. CASE ~Overtaken(e)
    <3>1. \A h \in Held({"routine", "backfill"}) : Date[e] < Date[h]
      BY <1>2, <2>3 DEF PassedOver, Overtaken
    <3>2. ASSUME NEW h \in Held({"routine"})' \ Held({"routine"})
          PROVE  Date[e] < Date[h]
      <4>1. poll.at = "entries" /\ Date[h] >= poll.cutoff /\ Date[h] \in Nat
        BY <1>0, <3>2, HeldGrows DEF Held
      <4>2. Date[e] < poll.cutoff
        BY <1>2, <2>3, <4>1 DEF PassedInv, LeftBehind
      <4> QED
        BY <1>0, <4>1, <4>2
    <3>3. ASSUME NEW h \in Held({"routine", "backfill"})', ~(Date[e] < Date[h])
          PROVE  h \in Held({"backfill"})' /\ Date[h] <= Date[e]
      <4>1. h \notin Held({"routine"})'
        BY <3>1, <3>2, <3>3 DEF Held
      <4> QED
        BY <1>0, <3>3, <4>1 DEF Held
    <3> QED
      BY <1>0, <2>1, <3>3 DEF PassedOver
  <2> QED
    BY <2>2, <2>3
<1> QED
  BY <1>1, <1>2 DEF PassedInv, LeftBehind

\* The second half: a cutoff found is newer than what was passed over before.
LEMMA StaysBelow ==
    ASSUME IngestTypeOK, PassedInv, [Next]_vars, NEW e \in passed, poll'.at = "entries"
    PROVE  \/ Date[e] < day' - Lookback \/ Date[e] < poll'.cutoff
           \/ Overtaken(e)'
<1>0. /\ day \in Nat /\ day' \in Nat /\ day <= day' /\ Lookback \in Nat
      /\ e \in Entries /\ \A h \in Entries : Date[h] \in Nat
  BY DayGrows, IngestAssumption DEF IngestTypeOK
<1>1. Overtaken(e) => Overtaken(e)'
  BY HeldGrows DEF Overtaken
<1>2. CASE FindCutoff
  <2>1. poll'.cutoff = Cutoff
    BY <1>2 DEF FindCutoff, IngestTypeOK, Poll
  <2>2. CASE PassedOver(e) /\ ~Overtaken(e)
    <3>1. Held({"routine", "backfill"}) # {}
      BY <2>2 DEF PassedOver
    <3>2. PICK h \in Held({"routine", "backfill"}) : Cutoff = Date[h]
      BY <3>1, OldestIsOldest DEF Cutoff, Held
    <3> QED
      BY <2>1, <2>2, <3>2 DEF PassedOver, Overtaken
  <2> QED
    BY <1>0, <1>1, <2>2 DEF PassedInv, LeftBehind
<1>3. CASE poll.at = "entries" /\ poll'.cutoff = poll.cutoff
  BY <1>0, <1>1, <1>3 DEF PassedInv, LeftBehind
<1> QED
  BY <1>2, <1>3, CutoffStands

LEMMA PassedStep ==
    ASSUME IngestTypeOK, PassedInv, [Next]_vars
    PROVE  PassedInv'
<1>1. CutoffBounded'
  BY CutoffBoundedStep DEF PassedInv
<1>2. ASSUME NEW e \in passed'
      PROVE  /\ Date[e] < day' - Lookback \/ PassedOver(e)'
             /\ poll'.at = "entries" =>
                   \/ Date[e] < day' - Lookback \/ Date[e] < poll'.cutoff
                   \/ Overtaken(e)'
  <2>1. CASE e \in passed
    BY <2>1, StaysBehind, StaysBelow
  <2>2. CASE e \notin passed
    <3>1. poll.at = "entries" /\ Date[e] < poll.cutoff /\ edoc' = edoc
      BY <2>2, PassedGrows
    <3>2. e \in Entries /\ IngestTypeOK'
      BY TypeStep DEF IngestTypeOK
    <3>3. /\ day \in Nat /\ day' \in Nat /\ day <= day' /\ Lookback \in Nat
          /\ Date[e] \in Nat
      BY <3>2, DayGrows, IngestAssumption
    <3>4. \A origins : Held(origins)' = Held(origins)
      BY <3>1 DEF Held
    <3>5. Date[e] < day - Lookback \/ PassedOver(e)'
      BY <3>1, <3>2, <3>4, BelowCutoff DEF PassedInv, PassedOver, Overtaken
    <3>6. poll'.at = "entries" => poll'.cutoff = poll.cutoff
      BY <3>1, CutoffStands DEF FindCutoff
    <3> QED
      BY <3>1, <3>3, <3>5, <3>6
  <2> QED
    BY <2>1, <2>2
<1> QED
  BY <1>1, <1>2 DEF PassedInv, LeftBehind

-----------------------------------------------------------------------------
(* What validators vouch for                                               *)

\* A poll is done with e: it has an episode, is not allowed by this process, or was left.
Read(e) == edoc[e] # NONE \/ ~Permitted(e) \/ e \in passed

\* The stored validators count: they come of the recorded URL, and from the same rules.
Vouching == pdoc.etag # NONE /\ pdoc.rules = rules /\ ~crossed

VouchedRead == Vouching => \A e \in pdoc.etag.seen : Read(e)

\* Of what the response carries a poll is done with all it has worked through, and in the
\* end with all, unless it was answered a 304 to validators that do not count.
ReadThrough ==
    poll.at \in {"cutoff", "entries"} =>
        \A e \in Entries \cap poll.etag.seen : e \in poll.backlog \/ Read(e)

ResponseRead ==
    poll.at = "success" /\ (poll.body \/ (poll.url = pdoc.url /\ ~crossed)) =>
        \A e \in Entries \cap poll.etag.seen : Read(e)

\* Validators that do not come of a crossed poll are the recorded URL's.
UrlsAgree ==
    /\ pdoc.etag # NONE /\ ~crossed => pdoc.etag.url = pdoc.url
    /\ poll.at \in {"cutoff", "entries", "success"} => poll.etag.url = poll.url

\* A request goes out with the rules it was made for, and a wider allowlist stays.
RequestAgrees ==
    /\ pdoc.rules = "wide" => rules = "wide"
    /\ poll.at = "fetch" => ~poll.body /\ (poll.conditional => pdoc.rules = rules)

ReadInv ==
    /\ IngestTypeOK
    /\ PassedInv
    /\ UrlsAgree
    /\ RequestAgrees
    /\ VouchedRead
    /\ ReadThrough
    /\ ResponseRead

\* No request is under way.
Unasked == {"idle", "seed", "read", "failure"}

LEMMA SeededFacts ==
    ASSUME pdoc \in Podcast, NEW url \in Urls
    PROVE  /\ Seeded(url).url = url /\ Seeded(url).rules = pdoc.rules
           /\ IF pdoc.url = url THEN Seeded(url) = pdoc ELSE Seeded(url).etag = NONE
BY DEF Seeded, Podcast

\* Either answer is of the URL asked, and vouches for what its feed carries.
LEMMA ResponseFacts ==
    ASSUME IngestTypeOK, NotModified \/ Fetched
    PROVE  /\ poll'.url = poll.url
           /\ poll'.etag = [url |-> poll.url, seen |-> Content(poll.url)]
           /\ poll'.etag.url = poll.url /\ poll'.etag.seen = Content(poll.url)
           /\ \/ NotModified /\ poll'.at = "success" /\ poll'.body = poll.body
              \/ Fetched /\ poll'.at = "cutoff" /\ poll'.backlog = Content(poll.url)
<1> DEFINE etag == [url |-> poll.url, seen |-> Content(poll.url)]
<1>1. etag.url = poll.url /\ etag.seen = Content(poll.url)
  OBVIOUS
<1> HIDE DEF etag
<1>2. CASE NotModified
  <2>1. poll' = [poll EXCEPT !.at = "success", !.etag = etag]
    BY <1>2 DEF NotModified, etag
  <2>2. /\ poll'.url = poll.url /\ poll'.etag = etag /\ poll'.at = "success"
        /\ poll'.body = poll.body
    BY <2>1 DEF IngestTypeOK, Poll
  <2> QED
    BY <1>1, <1>2, <2>2 DEF etag
<1>3. CASE Fetched
  <2>1. poll' = [poll EXCEPT !.at = "cutoff", !.body = TRUE,
                             !.backlog = Content(poll.url), !.etag = etag]
    BY <1>3 DEF Fetched, etag
  <2>2. /\ poll'.url = poll.url /\ poll'.etag = etag
        /\ poll'.at = "cutoff" /\ poll'.backlog = Content(poll.url)
    BY <2>1 DEF IngestTypeOK, Poll
  <2> QED
    BY <1>1, <1>3, <2>2 DEF etag
<1> QED
  BY <1>2, <1>3

\* Validators are stored at the end of a poll, or stay with the URL and the rules they
\* were stored with, or go.
LEMMA ValidatorsStay ==
    ASSUME IngestTypeOK, [Next]_vars, ~RecordSuccess
    PROVE  /\ crossed' = crossed /\ pdoc'.rules = pdoc.rules
           /\ \/ pdoc'.etag = NONE
              \/ pdoc'.etag = pdoc.etag /\ pdoc'.url = pdoc.url
<1>1. CASE Seed \/ Restart
  <2>1. PICK url \in Urls : pdoc' = Seeded(url)
    BY <1>1, IngestAssumption DEF Seed, Restart, IngestTypeOK, Record
  <2>2. crossed' = crossed
    BY <1>1 DEF Seed, Restart, history
  <2> QED
    BY <2>1, <2>2, SeededFacts DEF IngestTypeOK
<1>2. CASE RecordFailure \/ DayPasses
  BY <1>2 DEF RecordFailure, DayPasses, IngestTypeOK, Podcast, history
<1>3. CASE ~(Seed \/ Restart \/ RecordFailure \/ DayPasses)
  BY <1>3 DEF Next, PollStep, vars, PollBegins, ReadPodcast, NotModified, Fetched,
     FindCutoff, IngestEntry, EntriesDone, FetchFails, EntryFails, Publish,
     ArchiveRecords, ConsoleSets, history
<1> QED
  BY <1>1, <1>2, <1>3

LEMMA PollMoves ==
    ASSUME IngestTypeOK, [Next]_vars
    PROVE  \/ poll' = poll /\ pdoc'.url = pdoc.url /\ rules' = rules
           \/ poll'.at \in Unasked \cup {"fetch"}
           \/ NotModified \/ Fetched \/ FindCutoff \/ EntriesDone
           \/ \E e \in Entries : IngestEntry(e)
<1>1. CASE PollBegins \/ Seed
  BY <1>1 DEF PollBegins, Seed, IngestTypeOK, Poll, Unasked
<1>2. CASE ReadPodcast
  BY <1>2, ReadOutcome DEF Unasked
<1>3. CASE RecordSuccess \/ RecordFailure \/ FetchFails \/ EntryFails \/ Restart
  BY <1>3 DEF RecordSuccess, RecordFailure, FetchFails, EntryFails, Restart, Idle, Unasked
<1>4. CASE DayPasses
  BY <1>4 DEF DayPasses, IngestTypeOK, Podcast
<1>5. CASE ConsoleSets \/ UNCHANGED vars
              \/ \E e \in Entries : Publish(e) \/ ArchiveRecords(e)
  BY <1>5 DEF ConsoleSets, vars, Publish, ArchiveRecords
<1> QED
  BY <1>1, <1>2, <1>3, <1>4, <1>5 DEF Next, PollStep

\* Only a restart changes the rules.
LEMMA RulesStand ==
    ASSUME [Next]_vars, ~Restart
    PROVE  rules' = rules
BY DEF Next, PollStep, vars, PollBegins, Seed, ReadPodcast, NotModified,
   Fetched, FindCutoff, IngestEntry, EntriesDone, RecordSuccess, RecordFailure,
   FetchFails, EntryFails, Publish, ArchiveRecords, ConsoleSets, DayPasses

\* A poll stays done with an entry as long as the rules stay.
LEMMA ReadStays ==
    ASSUME IngestTypeOK, [Next]_vars, rules' = rules, NEW e \in Entries, Read(e)
    PROVE  Read(e)'
<1>1. NONE \notin {"routine", "backfill"}
  BY IngestAssumption
<1>2. edoc[e] # NONE => edoc'[e] # NONE
  BY <1>1, EpisodesGrow DEF TakesRoutine, TakesArchived, IngestTypeOK
<1>3. Permitted(e)' <=> Permitted(e)
  BY DEF Permitted
<1> QED
  BY <1>2, <1>3, PassedGrows DEF Read

-----------------------------------------------------------------------------
(* A 304 hides nothing                                                     *)

LEMMA UrlsStep ==
    ASSUME IngestTypeOK, UrlsAgree, [Next]_vars
    PROVE  UrlsAgree'
<1>1. pdoc'.etag # NONE /\ ~crossed' => pdoc'.etag.url = pdoc'.url
  <2>1. CASE RecordSuccess
    <3>1. poll.at = "success" /\ crossed' = (poll.url # pdoc.url \/ (crossed /\ ~poll.body))
      BY <2>1 DEF RecordSuccess
    <3>2. pdoc'.url = pdoc.url /\ pdoc'.etag \in {poll.etag, NONE}
      BY <2>1 DEF RecordSuccess, IngestTypeOK, Podcast
    <3> QED
      BY <3>1, <3>2 DEF UrlsAgree
  <2>2. CASE ~RecordSuccess
    BY <2>2, ValidatorsStay DEF UrlsAgree
  <2> QED
    BY <2>1, <2>2
<1>2. ASSUME poll'.at \in {"cutoff", "entries", "success"}
      PROVE  poll'.etag.url = poll'.url
  <2>1. CASE NotModified \/ Fetched
    BY <2>1, ResponseFacts
  <2>2. CASE FindCutoff \/ EntriesDone \/ \E e \in Entries : IngestEntry(e)
    <3>1. /\ poll.at \in {"cutoff", "entries"}
          /\ poll'.url = poll.url /\ poll'.etag = poll.etag
      BY <2>2 DEF FindCutoff, EntriesDone, IngestEntry, IngestTypeOK, Poll
    <3> QED
      BY <3>1 DEF UrlsAgree
  <2>3. CASE poll' = poll
    BY <1>2, <2>3 DEF UrlsAgree
  <2> QED
    BY <1>2, <2>1, <2>2, <2>3, PollMoves DEF Unasked
<1> QED
  BY <1>1, <1>2 DEF UrlsAgree

LEMMA RequestStep ==
    ASSUME IngestTypeOK, RequestAgrees, [Next]_vars
    PROVE  RequestAgrees'
<1>1. pdoc'.rules = "wide" => rules' = "wide"
  <2>1. CASE RecordSuccess
    BY <2>1 DEF RecordSuccess, IngestTypeOK, Podcast
  <2>2. CASE ~RecordSuccess
    <3>1. pdoc'.rules = pdoc.rules
      BY <2>2, ValidatorsStay
    <3>2. rules = "wide" => rules' = "wide"
      BY RulesStand DEF Restart
    <3> QED
      BY <3>1, <3>2 DEF RequestAgrees
  <2> QED
    BY <2>1, <2>2
<1>2. ASSUME poll'.at = "fetch"
      PROVE  ~poll'.body /\ (poll'.conditional => pdoc'.rules = rules')
  <2>1. CASE ReadPodcast
    <3>1. UNCHANGED <<pdoc, rules>>
      BY <2>1 DEF ReadPodcast
    <3> QED
      BY <1>2, <2>1, <3>1, ReadOutcome DEF Conditional
  <2>2. CASE DayPasses \/ ConsoleSets \/ UNCHANGED vars
                \/ \E e \in Entries : Publish(e) \/ ArchiveRecords(e)
    <3>1. poll' = poll /\ rules' = rules
      BY <2>2 DEF DayPasses, ConsoleSets, vars, Publish, ArchiveRecords
    <3>2. pdoc'.rules = pdoc.rules
      BY <2>2, ValidatorsStay DEF DayPasses, ConsoleSets, vars, Publish, ArchiveRecords,
         IngestTypeOK, Podcast
    <3> QED
      BY <1>2, <3>1, <3>2 DEF RequestAgrees
  <2>3. ~(PollBegins \/ Seed)
    BY <1>2 DEF PollBegins, Seed, IngestTypeOK, Poll
  <2>4. ~(NotModified \/ Fetched)
    BY <1>2, ResponseFacts
  <2>5. ~(FindCutoff \/ EntriesDone \/ \E e \in Entries : IngestEntry(e))
    BY <1>2 DEF FindCutoff, EntriesDone, IngestEntry, IngestTypeOK, Poll
  <2>6. ~(RecordSuccess \/ RecordFailure \/ FetchFails \/ EntryFails \/ Restart)
    BY <1>2 DEF RecordSuccess, RecordFailure, FetchFails, EntryFails, Restart, Idle
  <2> QED
    BY <2>1, <2>2, <2>3, <2>4, <2>5, <2>6 DEF Next, PollStep
<1> QED
  BY <1>1, <1>2 DEF RequestAgrees

LEMMA VouchedStep ==
    ASSUME ReadInv, [Next]_vars
    PROVE  VouchedRead'
<1> USE DEF ReadInv
<1> SUFFICES ASSUME Vouching', NEW e \in pdoc'.etag.seen
             PROVE  Read(e)'
  BY DEF VouchedRead
<1>1. CASE RecordSuccess
  <2>1. /\ poll.at = "success" /\ rules' = rules
        /\ crossed' = (poll.url # pdoc.url \/ (crossed /\ ~poll.body))
    BY <1>1 DEF RecordSuccess
  <2>2. pdoc'.etag = poll.etag /\ poll.etag # NONE /\ poll.etag \in Validators
    BY <1>1 DEF RecordSuccess, IngestTypeOK, Podcast, Poll, Vouching
  <2>3. e \in Entries /\ e \in poll.etag.seen
    BY <2>2 DEF Validators
  <2>4. Read(e)
    BY <2>1, <2>3 DEF ResponseRead, Vouching
  <2> QED
    BY <2>1, <2>3, <2>4, ReadStays
<1>2. CASE ~RecordSuccess
  <2>1. /\ pdoc'.etag = pdoc.etag /\ pdoc'.url = pdoc.url
        /\ pdoc'.rules = pdoc.rules /\ crossed' = crossed
    BY <1>2, ValidatorsStay DEF Vouching
  <2>2. rules' = rules
    BY <2>1, RulesStand DEF Restart, RequestAgrees, Vouching
  <2>3. Vouching /\ e \in pdoc.etag.seen
    BY <2>1, <2>2 DEF Vouching
  <2>4. e \in Entries
    BY <2>3 DEF IngestTypeOK, Podcast, Validators, Vouching
  <2> QED
    BY <2>2, <2>3, <2>4, ReadStays DEF VouchedRead
<1> QED
  BY <1>1, <1>2

LEMMA ReadThroughStep ==
    ASSUME IngestTypeOK, ReadThrough, [Next]_vars
    PROVE  ReadThrough'
<1> SUFFICES ASSUME poll'.at \in {"cutoff", "entries"},
                    NEW e \in Entries, e \in poll'.etag.seen, e \notin poll'.backlog
             PROVE  Read(e)'
  BY DEF ReadThrough
<1>1. rules' = rules
  BY RulesStand DEF Restart, Idle
<1>2. CASE poll' = poll
  BY <1>1, <1>2, ReadStays DEF ReadThrough
<1>3. CASE Fetched
  BY <1>3, ResponseFacts
<1>4. CASE FindCutoff
  <2>1. poll.at = "cutoff" /\ poll'.etag = poll.etag /\ poll'.backlog = poll.backlog
    BY <1>4 DEF FindCutoff, IngestTypeOK, Poll
  <2> QED
    BY <1>1, <2>1, ReadStays DEF ReadThrough
<1>5. ASSUME NEW h \in Entries, IngestEntry(h)
      PROVE  Read(e)'
  <2>1. /\ poll.at = "entries" /\ poll'.etag = poll.etag
        /\ poll'.backlog = poll.backlog \ {h}
    BY <1>5 DEF IngestEntry, IngestTypeOK, Poll
  <2>2. CASE e # h
    BY <1>1, <2>1, <2>2, ReadStays DEF ReadThrough
  <2>3. CASE e = h /\ Date[h] >= poll.cutoff /\ Permitted(h)
    BY <1>5, <2>3, IngestAssumption DEF IngestEntry, Create, IngestTypeOK, Read
  <2>4. CASE e = h /\ ~(Date[h] >= poll.cutoff)
    <3>1. Date[h] < poll.cutoff
      BY <2>4, IngestAssumption DEF IngestTypeOK, Poll
    <3>2. passed' = passed \cup {h}
      BY <1>5, <3>1 DEF IngestEntry
    <3> QED
      BY <2>4, <3>2 DEF Read
  <2>5. CASE e = h /\ ~Permitted(h)
    BY <1>1, <2>5 DEF Read, Permitted
  <2> QED
    BY <2>2, <2>3, <2>4, <2>5
<1>6. ~(poll'.at \in Unasked \cup {"fetch"})
  BY DEF Unasked
<1>7. ~NotModified /\ ~EntriesDone
  BY DEF NotModified, EntriesDone, IngestTypeOK, Poll
<1> QED
  BY <1>2, <1>3, <1>4, <1>5, <1>6, <1>7, PollMoves

LEMMA ResponseStep ==
    ASSUME ReadInv, [Next]_vars
    PROVE  ResponseRead'
<1> SUFFICES ASSUME poll'.at = "success",
                    poll'.body \/ (poll'.url = pdoc'.url /\ ~crossed'),
                    NEW e \in Entries, e \in poll'.etag.seen
             PROVE  Read(e)'
  BY DEF ResponseRead
<1> USE DEF ReadInv
<1>1. ~RecordSuccess
  BY DEF RecordSuccess, Idle
<1>2. CASE poll' = poll /\ pdoc'.url = pdoc.url /\ rules' = rules
  BY <1>1, <1>2, ValidatorsStay, ReadStays DEF ResponseRead
<1>3. CASE NotModified
  <2>1. /\ poll.at = "fetch" /\ poll.conditional /\ pdoc.etag # NONE
        /\ pdoc.etag.url = poll.url => pdoc.etag.seen = Content(poll.url)
        /\ UNCHANGED <<rules, pdoc>>
    BY <1>3 DEF NotModified
  <2>2. /\ poll'.url = poll.url /\ poll'.etag.seen = Content(poll.url)
        /\ ~poll'.body
    BY <1>3, <2>1, ResponseFacts DEF RequestAgrees, NotModified, Fetched, IngestTypeOK, Poll
  <2>3. pdoc.rules = rules /\ ~crossed /\ pdoc.etag.url = pdoc.url /\ poll.url = pdoc.url
    BY <1>1, <2>1, <2>2, ValidatorsStay DEF RequestAgrees, UrlsAgree
  <2>4. Read(e)
    BY <2>1, <2>2, <2>3 DEF VouchedRead, Vouching
  <2> QED
    BY <2>1, <2>4, ReadStays
<1>4. CASE EntriesDone
  <2>1. /\ poll.at = "entries" /\ poll.backlog = {} /\ poll'.etag = poll.etag
        /\ rules' = rules
    BY <1>4 DEF EntriesDone, IngestTypeOK, Poll
  <2>2. Read(e)
    BY <2>1 DEF ReadThrough
  <2> QED
    BY <2>1, <2>2, ReadStays
<1>5. ~Fetched /\ ~FindCutoff /\ ~\E h \in Entries : IngestEntry(h)
  BY DEF Fetched, FindCutoff, IngestEntry, IngestTypeOK, Poll
<1>6. ~(poll'.at \in Unasked \cup {"fetch"})
  BY DEF Unasked
<1> QED
  BY <1>2, <1>3, <1>4, <1>5, <1>6, PollMoves

LEMMA ReadInvInit == Init => ReadInv
<1> SUFFICES ASSUME Init PROVE ReadInv
  OBVIOUS
<1>1. poll.at = "idle" /\ pdoc.etag = NONE /\ pdoc.rules = NONE /\ passed = {}
  BY DEF Init, Idle
<1>2. RequestAgrees /\ UrlsAgree /\ PassedInv
  BY <1>1, IngestAssumption
  DEF RequestAgrees, UrlsAgree, PassedInv, CutoffBounded, LeftBehind
<1> QED
  BY <1>1, <1>2, TypeInit DEF ReadInv, VouchedRead, Vouching, ReadThrough, ResponseRead

LEMMA ReadInvStep == ReadInv /\ [Next]_vars => ReadInv'
BY TypeStep, PassedStep, UrlsStep, RequestStep, VouchedStep, ReadThroughStep, ResponseStep
DEF ReadInv

\* A 304 hides nothing, however often the console changes the URL, whatever the archive
\* records and wherever a poll is cut short: all that the stored validators vouch for has
\* an episode or is owed none, unless they come of a poll under which the URL was changed
\* (feeds.py:131-151, 181-193).
THEOREM ValidatorsHideNothing == Spec => []NothingBehindValidators
<1>1. ReadInv => NothingBehindValidators
  <2> SUFFICES ASSUME ReadInv, Vouching, NEW e \in pdoc.etag.seen, Wanted(e)
               PROVE  edoc[e] # NONE
    BY DEF NothingBehindValidators, Vouching
  <2>1. Read(e)
    BY DEF ReadInv, VouchedRead
  <2>2. e \in passed => Date[e] < day - Lookback \/ PassedOver(e)
    BY DEF ReadInv, PassedInv, LeftBehind
  <2>3. Date[e] \in Nat /\ day \in Nat /\ Lookback \in Nat
    BY IngestAssumption DEF Wanted, Content, ReadInv, IngestTypeOK
  <2> QED
    BY <2>1, <2>2, <2>3 DEF Read, Wanted
<1> QED
  BY <1>1, ReadInvInit, ReadInvStep, PTL DEF Spec

=============================================================================
