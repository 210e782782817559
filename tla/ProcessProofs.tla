---------------------------- MODULE ProcessProofs -----------------------------
(***************************************************************************)
(* Of the life of the process, for any jobs, requests, settings and number *)
(* of starts: an orderly stop leaves no lease but one whose release was cut*)
(* off or refused, and the banner of the console tells whether the document*)
(* of overrides changed since the start.  And for any documents, files and *)
(* size of batch: no job runs before the migrations are through, however   *)
(* many starts died among them.                                            *)
(***************************************************************************)
EXTENDS Process, FiniteSetTheorems, WellFoundedInduction, TLAPS

-----------------------------------------------------------------------------
(* Leases and the stop                                                     *)

\* A lease of this incarnation has its job behind it as long as the process lives, or that
\* job did not give it back; the process counts from one; whoever was waited for is through.
LeaseInv ==
    /\ phase \in Phases
    /\ boot \in Nat /\ (phase # "down" => boot # 0)
    /\ DOMAIN job = Jobs /\ DOMAIN kind = Jobs /\ DOMAIN lease = Jobs
    /\ \A j \in Jobs : kind[j] \in {"scheduled", "spawned"}
    /\ \A j \in Jobs : lease[j] \in 0..boot
    /\ Alive => store
    /\ ~Alive => \A j \in Jobs : job[j] = "idle"
    /\ Alive => \A j \in Jobs : lease[j] = boot => job[j] # "idle" \/ j \in unclean
    /\ phase \in {"flushing", "cancelling", "closing"} => Busy("scheduled") = {}
    /\ phase = "closing" => Busy("spawned") = {}
    /\ CleanStopReleases

LEMMA LeaseInit == Init => LeaseInv
BY DEF Init, LeaseInv, Phases, Alive, CleanStopReleases, Busy

\* Whatever leaves the jobs, the leases and the phase of the process alone.
LEMMA LeaseStutter ==
    LeaseInv /\ UNCHANGED process_vars => LeaseInv'
BY DEF LeaseInv, process_vars, Alive, CleanStopReleases, Busy

LEMMA LeaseStart ==
    ASSUME LeaseInv,
           Boots \/ run_migrations \/ reclaim_local_leases \/ LoadsSettings \/ MarksApplied
    PROVE  LeaseInv'
<1>1. CASE Boots
  BY <1>1 DEF LeaseInv, Boots, Phases, Alive, CleanStopReleases, Busy
<1>2. CASE run_migrations
  BY <1>2, LeaseStutter
     DEF run_migrations, Goes, LeaseInv, Phases, Alive, CleanStopReleases, Busy, process_vars
<1>3. CASE reclaim_local_leases
  BY <1>3 DEF LeaseInv, reclaim_local_leases, Reclaimable, Goes, Phases, Alive,
              CleanStopReleases, Busy
<1>4. CASE LoadsSettings \/ MarksApplied
  BY <1>4 DEF LeaseInv, LoadsSettings, MarksApplied, Goes, Phases, Alive,
              CleanStopReleases, Busy
<1>q. QED
  BY <1>1, <1>2, <1>3, <1>4

LEMMA LeaseJobs ==
    ASSUME LeaseInv, NEW j \in Jobs,
           JobStarts(j) \/ JobEnds(j) \/ JobReleases(j) \/ LeaseExpires(j)
    PROVE  LeaseInv'
<1>1. CASE JobStarts(j)
  BY <1>1 DEF LeaseInv, JobStarts, Phases, Alive, CleanStopReleases, Busy
<1>2. CASE JobEnds(j)
  BY <1>2 DEF LeaseInv, JobEnds, Phases, Alive, CleanStopReleases, Busy
<1>3. CASE JobReleases(j)
  BY <1>3 DEF LeaseInv, JobReleases, Over, Phases, Alive, CleanStopReleases, Busy
<1>4. CASE LeaseExpires(j)
  BY <1>4 DEF LeaseInv, LeaseExpires, Phases, Alive, CleanStopReleases, Busy
<1>q. QED
  BY <1>1, <1>2, <1>3, <1>4

LEMMA LeaseStop ==
    ASSUME LeaseInv, StopBegins \/ Stop \/ Dies
    PROVE  LeaseInv'
<1>1. CASE StopBegins \/ Dies
  BY <1>1 DEF LeaseInv, StopBegins, Dies, NoJob, Goes, Phases, Alive, CleanStopReleases, Busy
<1>2. CASE SchedulerStops
  BY <1>2 DEF LeaseInv, SchedulerStops, Cancelled, Goes, Phases, Alive, CleanStopReleases, Busy
<1>3. CASE drain_jobs
  BY <1>3 DEF LeaseInv, drain_jobs, GraceEnds, Over, Waits, Goes, Phases, Alive,
              CleanStopReleases, Busy
<1>4. CASE TasksCancelled
  BY <1>4 DEF LeaseInv, TasksCancelled, Cancelled, Goes, Phases, Alive, CleanStopReleases, Busy
<1>5. CASE TasksGathered
  BY <1>5 DEF LeaseInv, TasksGathered, GraceEnds, Over, Waits, Goes, Phases, Alive,
              CleanStopReleases, Busy
<1>6. CASE StoreCloses
  BY <1>6 DEF LeaseInv, StoreCloses, NoJob, Goes, Phases, Alive, CleanStopReleases, Busy
<1>q. QED
  BY <1>1, <1>2, <1>3, <1>4, <1>5, <1>6 DEF Stop

LEMMA LeaseStep == LeaseInv /\ [Next]_vars => LeaseInv'
<1> SUFFICES ASSUME LeaseInv, [Next]_vars PROVE LeaseInv'
  OBVIOUS
<1>1. CASE Warns \/ Logs \/ Owner \/ UNCHANGED vars
  BY <1>1, LeaseStutter DEF Warns, Logs, Owner, vars
<1>q. QED
  BY <1>1, LeaseStart, LeaseJobs, LeaseStop DEF Next

\* A stop leaves no lease of its process behind but of a job whose release was cut off or
\* refused, whatever jobs ran, in whatever order they unwound, and whether or not the graces
\* ran out (main.py:299-338, scheduler.py:99-127, joblock.py:140-173).
THEOREM StopReleases == Spec => []CleanStopReleases
<1>1. LeaseInv => CleanStopReleases
  BY DEF LeaseInv
<1>q. QED
  BY <1>1, LeaseInit, LeaseStep, PTL DEF Spec

-----------------------------------------------------------------------------
(* The banner                                                              *)

\* Requests exist only between the start and the stop, and copy the moment this process
\* adopted; a document never goes back behind it.
BannerInv ==
    /\ stored.updated_at \in Nat
    /\ DOMAIN stored = {"overrides", "updated_at", "applied_at"}
    /\ DOMAIN request = Requests
    /\ \A r \in Requests : DOMAIN request[r] = {"at", "overrides", "existing", "applied_at"}
    /\ phase \in {"mark", "up"} => adopted \in 0..stored.updated_at
    /\ phase = "mark" => adopted = stored.updated_at
    /\ phase = "up" => stored.applied_at = adopted
    /\ phase # "up" => \A r \in Requests : request[r].at = "idle"
    /\ \A r \in Requests : request[r].at = "put" => request[r].applied_at = adopted

LEMMA BannerInit == Init => BannerInv
BY DEF Init, OverridesInit, NoRequest, BannerInv

LEMMA BannerConsole ==
    ASSUME BannerInv, Owner
    PROVE  BannerInv'
<1>1. phase = "up" /\ phase' = "up"
  BY DEF Owner, process_vars
<1>2. PICK r \in Requests : Console(r)
  BY DEF Owner
<1>3. CASE SaveBegins(r)
  BY <1>1, <1>3 DEF BannerInv, SaveBegins
<1>4. CASE ResetBegins(r)
  BY <1>1, <1>4 DEF BannerInv, ResetBegins
<1>5. CASE SaveReads(r)
  BY <1>1, <1>5 DEF BannerInv, SaveReads
<1>6. CASE SavePuts(r)
  BY <1>1, <1>6 DEF BannerInv, SavePuts, Saved, NoRequest
<1>q. QED
  BY <1>2, <1>3, <1>4, <1>5, <1>6 DEF Console

\* The rest of the process takes no part in it, but for the two steps of the start and
\* what ends the requests.
LEMMA BannerStep == BannerInv /\ [Next]_vars => BannerInv'
<1> SUFFICES ASSUME BannerInv, [Next]_vars PROVE BannerInv'
  OBVIOUS
<1>1. CASE Boots \/ reclaim_local_leases
  BY <1>1 DEF BannerInv, Boots, reclaim_local_leases, Goes, overrides_vars
<1>2. CASE run_migrations
  BY <1>2 DEF BannerInv, run_migrations, Goes, overrides_vars, process_vars
<1>3. CASE LoadsSettings
  BY <1>3 DEF BannerInv, LoadsSettings, get_overrides, Goes
<1>4. CASE MarksApplied
  BY <1>4 DEF BannerInv, MarksApplied, mark_applied, Goes
<1>5. CASE StopBegins \/ Dies
  BY <1>5 DEF BannerInv, StopBegins, Dies, NoRequest, Goes
<1>6. CASE Stop
  BY <1>6 DEF BannerInv, Stop, SchedulerStops, drain_jobs, TasksCancelled, TasksGathered,
              GraceEnds, StoreCloses, Goes, overrides_vars
<1>7. CASE Warns \/ Logs \/ UNCHANGED vars
  BY <1>7 DEF BannerInv, Warns, Logs, vars, process_vars, overrides_vars
<1>8. ASSUME NEW j \in Jobs,
             JobStarts(j) \/ JobEnds(j) \/ JobReleases(j) \/ LeaseExpires(j)
      PROVE  BannerInv'
  BY <1>8 DEF BannerInv, JobStarts, JobEnds, JobReleases, LeaseExpires, overrides_vars
<1>q. QED
  BY <1>1, <1>2, <1>3, <1>4, <1>5, <1>6, <1>7, <1>8, BannerConsole DEF Next

\* The banner is shown exactly while the stored overrides are not those this process read
\* when it started, for any number of overlapping saves, conflicts, resets and restarts
\* (settings_store.py:219-260, api/settings.py:196-254).
THEOREM BannerIsRight == Spec => []PendingSinceStart
<1>1. BannerInv => PendingSinceStart
  BY DEF BannerInv, PendingSinceStart, pending_restart
<1>q. QED
  BY <1>1, BannerInit, BannerStep, PTL DEF Spec

-----------------------------------------------------------------------------
(* The migrations                                                          *)

\* What the migrations make of the walk of s and of the document of w.
Repaired(s) ==
    IF InFlight(Walks[s]) /\ Walks[s].anchor = NoMonth THEN Anchored(Walks[s]) ELSE Walks[s]

Completed(w) ==
    IF Documents[w] = NoDocument
       \/ Files[w] \subseteq Range(Documents[w].runs) \cup {Documents[w].file}
    THEN Documents[w] ELSE [Documents[w] EXCEPT !.runs = InOrder(Files[w])]

\* Every write takes a document from what it was to what it is to be, and there it stays.
HalfWay ==
    /\ DOMAIN origin = Legacy /\ DOMAIN walks = Shows /\ DOMAIN digests = Weeks
    /\ \A e \in Legacy : origin[e] \in {"none", OriginOf(e)}
    /\ \A s \in Shows : walks[s] \in {Walks[s], Repaired(s)}
    /\ \A w \in Weeks : digests[w] \in {Documents[w], Completed(w)}

\* What a migration that is past has left to do is in the batch in hand.
BatchCovers ==
    /\ DOMAIN migrating = {"at", "batch", "last"}
    /\ migrating.at = "origins" /\ migrating.last => Bare \subseteq migrating.batch
    /\ migrating.at \in {"anchors", "files"} => Bare = {}
    /\ migrating.at = "anchors" => Unanchored = migrating.batch
    /\ migrating.at = "files" =>
          /\ Unanchored = {}
          /\ \A w \in migrating.batch : Documents[w] # NoDocument
          /\ \A w \in Weeks \ migrating.batch : digests[w] = Completed(w)

MigrationInv ==
    /\ HalfWay
    /\ BatchCovers
    /\ phase \notin {"down", "migrate"} => Migrated
    /\ phase \in {"down", "migrate", "closed"} => \A j \in Jobs : job[j] = "idle"

\* A set of numbers that is not empty has a least one.
LEMMA LeastOf ==
    ASSUME NEW S, S \subseteq Nat, S # {}
    PROVE  \E a \in S : \A b \in S : a =< b
<1>1. \E a \in S : \A b \in S : ~(<<b, a>> \in OpToRel(<, Nat))
  BY NatLessThanWellFounded, WFMin
<1>2. PICK a \in S : \A b \in S : ~(b < a)
  BY <1>1 DEF OpToRel
<1> QED
  BY <1>2

\* s lists the n elements of S, the smaller before the greater.
Lists(s, S, n) ==
    /\ s \in [1..n -> S]
    /\ Range(s) = S
    /\ \A i, j \in DOMAIN s : i < j => s[i] < s[j]

\* The least element goes before a list of the others.
LEMMA Prepended ==
    ASSUME NEW S, S \subseteq Nat, NEW a \in S, \A b \in S : a =< b,
           NEW n \in Nat, NEW s, Lists(s, S \ {a}, n)
    PROVE  \E t : Lists(t, S, n + 1)
<1> DEFINE t == [i \in 1..(n + 1) |-> IF i = 1 THEN a ELSE s[i - 1]]
<1>1. /\ DOMAIN s = 1..n
      /\ \A i \in 1..n : s[i] \in S /\ s[i] \in Nat /\ a < s[i]
      /\ \A b \in S \ {a} : \E i \in 1..n : s[i] = b
      /\ \A i, j \in 1..n : i < j => s[i] < s[j]
  <2>1. s \in [1..n -> S \ {a}] /\ DOMAIN s = 1..n
    BY DEF Lists
  <2>2. \A i \in 1..n : s[i] \in S \ {a}
    BY <2>1
  <2>3. ASSUME NEW i \in 1..n PROVE s[i] \in S /\ s[i] \in Nat /\ a < s[i]
    <3>1. s[i] \in S /\ s[i] # a /\ s[i] \in Nat /\ a \in Nat
      BY <2>2
    <3>2. a =< s[i]
      BY <3>1
    <3> QED
      BY <3>1, <3>2
  <2>4. Range(s) = S \ {a}
    BY DEF Lists
  <2>5. \A b \in S \ {a} : \E i \in 1..n : s[i] = b
    BY <2>1, <2>4 DEF Range
  <2>6. \A i, j \in 1..n : i < j => s[i] < s[j]
    BY <2>1 DEF Lists
  <2> QED
    BY <2>1, <2>3, <2>5, <2>6
<1>2. \A i \in 2..(n + 1) : t[i] = s[i - 1] /\ i - 1 \in 1..n
  OBVIOUS
<1>3. t[1] = a /\ 1 \in 1..(n + 1)
  OBVIOUS
<1>4. t \in [1..(n + 1) -> S]
  BY <1>1
<1>5. Range(t) = S
  <2>1. ASSUME NEW b \in S PROVE \E i \in DOMAIN t : t[i] = b
    <3>1. CASE b = a
      BY <1>3, <3>1
    <3>2. CASE b # a
      <4>1. PICK i \in 1..n : s[i] = b
        BY <1>1, <3>2
      <4>2. i + 1 \in 2..(n + 1) /\ (i + 1) - 1 = i /\ i + 1 \in 1..(n + 1)
        OBVIOUS
      <4> QED
        BY <1>2, <4>1, <4>2
    <3> QED
      BY <3>1, <3>2
  <2> HIDE DEF t
  <2> QED
    BY <1>4, <2>1 DEF Range
<1>6. \A i, j \in 1..(n + 1) : i < j => t[i] < t[j]
  <2> SUFFICES ASSUME NEW i \in 1..(n + 1), NEW j \in 1..(n + 1), i < j
               PROVE  t[i] < t[j]
    OBVIOUS
  <2>1. j \in 2..(n + 1) /\ t[j] = s[j - 1] /\ j - 1 \in 1..n
    BY <1>2
  <2>2. CASE i = 1
    BY <1>1, <1>3, <2>1, <2>2
  <2>3. CASE i # 1
    <3>1. t[i] = s[i - 1] /\ i - 1 \in 1..n /\ i - 1 < j - 1
      BY <1>2, <2>3
    <3> HIDE DEF t
    <3> QED
      BY <1>1, <2>1, <3>1
  <2> QED
    BY <2>2, <2>3
<1> HIDE DEF t
<1> QED
  BY <1>4, <1>5, <1>6 DEF Lists

\* Any finite set of files can be listed: the smallest that could not be would have a
\* least element, and the others would.
LEMMA ListExists ==
    ASSUME NEW S, S \subseteq Nat, IsFiniteSet(S)
    PROVE  \E s : Lists(s, S, Cardinality(S))
<1> DEFINE Bad == {n \in Nat : \E T \in SUBSET Nat :
                      IsFiniteSet(T) /\ Cardinality(T) = n /\ ~(\E s : Lists(s, T, n))}
<1> SUFFICES ASSUME Bad # {} PROVE FALSE
  BY FS_CardinalityType
<1>1. PICK n \in Bad : \A m \in Bad : n =< m
  BY LeastOf
<1>2. PICK T \in SUBSET Nat :
         IsFiniteSet(T) /\ Cardinality(T) = n /\ ~(\E s : Lists(s, T, n))
  BY <1>1
<1>3. CASE T = {}
  <2> DEFINE s == [i \in 1..0 |-> 0]
  <2>1. n = 0
    BY <1>2, <1>3, FS_EmptySet
  <2>2. Lists(s, T, n)
    BY <1>3, <2>1 DEF Lists, Range
  <2> QED
    BY <1>2, <2>2
<1>4. CASE T # {}
  <2>1. PICK a \in T : \A b \in T : a =< b
    BY <1>4, LeastOf
  <2>2. IsFiniteSet(T \ {a}) /\ Cardinality(T \ {a}) = n - 1 /\ n - 1 \in Nat
    <3>1. IsFiniteSet(T \ {a}) /\ Cardinality(T \ {a}) = Cardinality(T) - 1
      BY <1>2, <2>1, FS_RemoveElement
    <3>2. Cardinality(T \ {a}) \in Nat
      BY <3>1, FS_CardinalityType
    <3> QED
      BY <1>2, <3>1, <3>2
  <2>3. n - 1 \notin Bad
    BY <1>1, <2>2
  <2>4. PICK s : Lists(s, T \ {a}, n - 1)
    BY <2>2, <2>3
  <2>5. \E t : Lists(t, T, (n - 1) + 1)
    BY <2>1, <2>2, <2>4, Prepended
  <2> QED
    BY <1>1, <1>2, <2>5
<1> QED
  BY <1>3, <1>4

LEMMA RangeInOrder ==
    ASSUME NEW S, S \subseteq Nat, IsFiniteSet(S)
    PROVE  Range(InOrder(S)) = S
<1>1. PICK s : Lists(s, S, Cardinality(S))
  BY ListExists
<1> QED
  BY <1>1 DEF Lists, InOrder

\* What is known of a week's document and files before the first start.
LEMMA WeekFits ==
    ASSUME NEW w \in Weeks
    PROVE  /\ Documents[w] \in [runs : Seq(Nat), file : Nat \cup {NoFile}]
           /\ Files[w] \subseteq Nat /\ IsFiniteSet(Files[w])
           /\ Documents[w].runs \in Seq(Files[w])
           /\ Documents[w].file \in Files[w] \cup {NoFile}
           /\ Documents[w].runs # <<>> => Documents[w].file \in Range(Documents[w].runs)
           /\ Range(InOrder(Files[w])) = Files[w]
<1>1. Documents \in [Weeks -> [runs : Seq(Nat), file : Nat \cup {NoFile}]]
      /\ Files \in [Weeks -> SUBSET Nat]
  BY MigrationsAssumption
<1>2. /\ IsFiniteSet(Files[w])
      /\ Documents[w].runs \in Seq(Files[w])
      /\ Documents[w].file \in Files[w] \cup {NoFile}
      /\ Documents[w].runs # <<>> => Documents[w].file \in Range(Documents[w].runs)
  BY MigrationsAssumption
<1>3. Documents[w] \in [runs : Seq(Nat), file : Nat \cup {NoFile}] /\ Files[w] \subseteq Nat
  BY <1>1
<1> QED
  BY <1>2, <1>3, RangeInOrder

\* The files of w that its document does not name make, with those it does, all files of w.
LEMMA AdoptedIsCompleted ==
    ASSUME HalfWay, NEW w \in Weeks, Documents[w] # NoDocument
    PROVE  Adopted(w) = Completed(w)
<1> DEFINE d == Documents[w]
           named == Range(d.runs) \cup {d.file}
           runs == IF d.runs = <<>> THEN {d.file} \ {NoFile} ELSE Range(d.runs)
<1>1. /\ d \in [runs : Seq(Nat), file : Nat \cup {NoFile}]
      /\ d.runs \in Seq(Files[w]) /\ d.file \in Files[w] \cup {NoFile}
      /\ d.runs # <<>> => d.file \in Range(d.runs)
      /\ Files[w] \subseteq Nat /\ IsFiniteSet(Files[w])
  BY WeekFits
<1>0. NoFile \notin Files[w]
  BY <1>1, MigrationsAssumption
<1>2. Range(d.runs) \subseteq Files[w]
  BY <1>1 DEF Range
<1>3. d.runs = <<>> => Range(d.runs) = {}
  BY DEF Range
<1>4. runs \cup (Files[w] \ named) = Files[w]
  BY <1>0, <1>1, <1>2, <1>3
<1>5. CASE digests[w] = Documents[w]
  BY <1>4, <1>5 DEF Adopted, Completed
<1>6. CASE digests[w] = Completed(w) /\ digests[w] # Documents[w]
  <2>1. digests[w] = [d EXCEPT !.runs = InOrder(Files[w])]
    BY <1>6 DEF Completed
  <2>2. digests[w].runs = InOrder(Files[w])
    BY <1>1, <2>1
  <2>3. Range(digests[w].runs) = Files[w]
    BY <2>2, WeekFits
  <2> QED
    BY <1>6, <2>3 DEF Adopted
<1> QED
  BY <1>5, <1>6 DEF HalfWay

LEMMA AnchoredIsRepaired ==
    ASSUME HalfWay, NEW s \in Unanchored
    PROVE  /\ s \in Shows /\ Anchored(walks[s]) = Repaired(s)
           /\ Repaired(s).anchor # NoMonth
<1>1. s \in Shows /\ InFlight(walks[s]) /\ walks[s].anchor = NoMonth
  BY DEF Unanchored
<1>2. /\ Walks[s] \in [cursor : Nat \cup {NoMonth}, anchor : Nat \cup {NoMonth},
                       complete : BOOLEAN]
      /\ Months \in Nat /\ NoMonth \notin Nat
  BY <1>1, MigrationsAssumption
<1>3. InFlight(Walks[s]) => Walks[s].cursor \in Nat
  BY <1>2 DEF InFlight
<1>4. InFlight(Walks[s]) => Anchored(Walks[s]).anchor \in Nat
  BY <1>2, <1>3 DEF Anchored
<1>5. walks[s] = Walks[s]
  BY <1>1, <1>2, <1>4 DEF HalfWay, Repaired
<1> QED
  BY <1>1, <1>2, <1>4, <1>5 DEF Repaired

-----------------------------------------------------------------------------
\* A batch that is short is all there was without an origin.
LEMMA ShortIsLast ==
    ASSUME NEW batch \in kSubset(Min({BATCH, Cardinality(Bare)}), Bare), Short(batch)
    PROVE  batch = Bare
<1>1. IsFiniteSet(Bare) /\ Cardinality(Bare) \in Nat
  BY MigrationsAssumption, FS_Subset, FS_CardinalityType DEF Bare
<1>2. BATCH \in Nat
  BY MigrationsAssumption
<1>3. Min({BATCH, Cardinality(Bare)}) \in {BATCH, Cardinality(Bare)}
  BY <1>1, <1>2 DEF Min
<1>4. batch \in SUBSET Bare /\ Cardinality(batch) = Min({BATCH, Cardinality(Bare)})
  BY DEF kSubset
<1>5. Cardinality(batch) = Cardinality(Bare)
  BY <1>1, <1>2, <1>3, <1>4 DEF Short
<1> QED
  BY <1>1, <1>4, <1>5, FS_Subset

\* The three loops, at the phase of the start they belong to.
LEMMA FindStep ==
    ASSUME HalfWay, BatchCovers, FindBare \/ BatchDone \/ AnchorsDone
    PROVE  HalfWay' /\ BatchCovers'
<1>1. UNCHANGED <<origin, walks, digests>>
  BY DEF FindBare, BatchDone, AnchorsDone
<1>2. HalfWay' /\ Bare' = Bare /\ Unanchored' = Unanchored
  BY <1>1 DEF HalfWay, Bare, Unanchored
<1>3. CASE FindBare
  <2>1. PICK batch \in kSubset(Min({BATCH, Cardinality(Bare)}), Bare) :
           migrating' = [at |-> "origins", batch |-> batch, last |-> Short(batch)]
    BY <1>3 DEF FindBare
  <2>2. migrating'.last => Bare \subseteq migrating'.batch
    BY <2>1, ShortIsLast
  <2> QED
    BY <1>2, <2>1, <2>2 DEF BatchCovers
<1>4. CASE BatchDone
  <2>1. CASE migrating.last
    <3>1. Bare = {}
      BY <1>4, <2>1 DEF BatchDone, BatchCovers
    <3>2. migrating' = [migrating EXCEPT !.at = "anchors", !.batch = Unanchored]
      BY <1>4, <2>1 DEF BatchDone
    <3> QED
      BY <1>2, <3>1, <3>2 DEF BatchCovers
  <2>2. CASE ~migrating.last
    BY <1>2, <1>4, <2>2 DEF BatchDone, MigrationsBegin, NotMigrating, BatchCovers
  <2> QED
    BY <2>1, <2>2
<1>5. CASE AnchorsDone
  <2> DEFINE some == {w \in Weeks : digests[w] # NoDocument}
  <2>1. /\ migrating.at = "anchors" /\ migrating.batch = {}
        /\ migrating' = [migrating EXCEPT !.at = "files", !.batch = some]
    BY <1>5 DEF AnchorsDone
  <2>2. \A w \in some : Documents[w] # NoDocument
    BY DEF HalfWay, Completed
  <2>3. \A w \in Weeks \ some : digests[w] = Completed(w)
    BY DEF HalfWay, Completed
  <2> HIDE DEF some
  <2>4. /\ DOMAIN migrating' = {"at", "batch", "last"}
        /\ migrating'.at = "files" /\ migrating'.batch = some
    BY <2>1 DEF BatchCovers
  <2>5. Bare = {} /\ Unanchored = {}
    BY <2>1 DEF BatchCovers
  <2> QED
    BY <1>1, <1>2, <2>2, <2>3, <2>4, <2>5 DEF BatchCovers, Completed
<1> QED
  BY <1>3, <1>4, <1>5

LEMMA WriteStep ==
    ASSUME HalfWay, BatchCovers,
           \/ \E e \in Legacy : GiveOrigin(e)
           \/ \E s \in Shows : AnchorWalk(s)
           \/ \E w \in Weeks : AdoptFiles(w)
    PROVE  HalfWay' /\ BatchCovers'
<1>1. ASSUME NEW e \in Legacy, GiveOrigin(e) PROVE HalfWay' /\ BatchCovers'
  <2>1. /\ migrating.at = "origins" /\ origin' = [origin EXCEPT ![e] = OriginOf(e)]
        /\ migrating' = [migrating EXCEPT !.batch = migrating.batch \ {e}]
        /\ UNCHANGED <<walks, digests>>
    BY <1>1 DEF GiveOrigin
  <2>2. HalfWay'
    BY <2>1 DEF HalfWay, OriginOf
  <2>3. Bare' \subseteq Bare \ {e}
    BY <2>1 DEF HalfWay, Bare, OriginOf
  <2> QED
    BY <2>1, <2>2, <2>3 DEF BatchCovers
<1>2. ASSUME NEW s \in Shows, AnchorWalk(s) PROVE HalfWay' /\ BatchCovers'
  <2>1. /\ migrating.at = "anchors" /\ s \in migrating.batch
        /\ walks' = [walks EXCEPT ![s] = Anchored(walks[s])]
        /\ migrating' = [migrating EXCEPT !.batch = migrating.batch \ {s}]
        /\ UNCHANGED <<origin, digests>>
    BY <1>2 DEF AnchorWalk
  <2>2. s \in Unanchored
    BY <2>1 DEF BatchCovers
  <2>3. Anchored(walks[s]) = Repaired(s) /\ Repaired(s).anchor # NoMonth
    BY <2>2, AnchoredIsRepaired
  <2>4. HalfWay'
    BY <2>1, <2>3 DEF HalfWay, Repaired, OriginOf, Completed
  <2>5. Unanchored' = Unanchored \ {s}
    BY <2>1, <2>3 DEF HalfWay, Unanchored
  <2>6. Bare' = Bare
    BY <2>1 DEF Bare
  <2> QED
    BY <2>1, <2>4, <2>5, <2>6 DEF BatchCovers
<1>3. ASSUME NEW w \in Weeks, AdoptFiles(w) PROVE HalfWay' /\ BatchCovers'
  <2>1. /\ migrating.at = "files" /\ w \in migrating.batch
        /\ digests' = [digests EXCEPT ![w] = Adopted(w)]
        /\ migrating' = [migrating EXCEPT !.batch = migrating.batch \ {w}]
        /\ UNCHANGED <<origin, walks>>
    BY <1>3 DEF AdoptFiles
  <2>2. Adopted(w) = Completed(w)
    BY <2>1, AdoptedIsCompleted DEF BatchCovers
  <2>3. HalfWay'
    BY <2>1, <2>2 DEF HalfWay
  <2>4. \A v \in Weeks \ (migrating.batch \ {w}) : digests'[v] = Completed(v)
    BY <2>1, <2>2 DEF HalfWay, BatchCovers
  <2>5. Bare' = Bare /\ Unanchored' = Unanchored
    BY <2>1 DEF Bare, Unanchored
  <2> QED
    BY <2>1, <2>3, <2>4, <2>5 DEF BatchCovers
<1> QED
  BY <1>1, <1>2, <1>3

\* After the last of the three nothing is left to do.
LEMMA OverIsMigrated ==
    ASSUME HalfWay, BatchCovers, migrating.at = "files", migrating.batch = {}
    PROVE  Migrated
<1>1. \A e \in Legacy : origin[e] = OriginOf(e)
  BY DEF HalfWay, BatchCovers, Bare
<1>2. \A s \in Shows : walks[s] = Repaired(s)
  BY DEF HalfWay, BatchCovers, Unanchored, Repaired
<1>3. ASSUME NEW w \in Weeks, Documents[w] # NoDocument
      PROVE  /\ Files[w] \subseteq Range(digests[w].runs) \cup {digests[w].file}
             /\ Documents[w] # digests[w] => digests[w].runs = InOrder(Files[w])
  <2>1. digests[w] = Completed(w)
    BY DEF BatchCovers
  <2>2. CASE digests[w] = Documents[w]
    <3>1. CASE Files[w] \subseteq Range(Documents[w].runs) \cup {Documents[w].file}
      BY <2>2, <3>1
    <3>2. CASE ~(Files[w] \subseteq Range(Documents[w].runs) \cup {Documents[w].file})
      <4>1. digests[w] = [Documents[w] EXCEPT !.runs = InOrder(Files[w])]
        BY <1>3, <2>1, <3>2 DEF Completed
      <4>2. digests[w].runs = InOrder(Files[w])
        BY <4>1, WeekFits
      <4> QED
        BY <4>2, WeekFits
    <3> QED
      BY <3>1, <3>2
  <2>3. CASE digests[w] # Documents[w]
    <3>1. digests[w] = [Documents[w] EXCEPT !.runs = InOrder(Files[w])]
      BY <2>1, <2>3 DEF Completed
    <3>2. digests[w].runs = InOrder(Files[w])
      BY <3>1, WeekFits
    <3> QED
      BY <3>2, WeekFits
  <2> QED
    BY <2>2, <2>3
<1> QED
  BY <1>1, <1>2, <1>3 DEF Migrated, Repaired

LEMMA MigrationInit == Init => MigrationInv
<1> SUFFICES ASSUME Init PROVE MigrationInv
  OBVIOUS
<1>1. HalfWay
  BY MigrationsAssumption DEF Init, MigrationsInit, HalfWay
<1>2. BatchCovers
  BY DEF Init, MigrationsInit, NotMigrating, BatchCovers
<1> QED
  BY <1>1, <1>2 DEF Init, MigrationInv

\* Whatever leaves the documents and the migrations' variables alone leaves them as sound.
LEMMA MigrationStutter ==
    ASSUME MigrationInv, UNCHANGED migration_vars
    PROVE  HalfWay' /\ BatchCovers' /\ (Migrated => Migrated')
<1>1. UNCHANGED <<origin, walks, digests, migrating>>
  BY DEF migration_vars
<1>2. HalfWay'
  BY <1>1 DEF MigrationInv, HalfWay
<1>3. Bare' = Bare /\ Unanchored' = Unanchored
  BY <1>1 DEF Bare, Unanchored
<1>4. BatchCovers'
  BY <1>1, <1>3 DEF MigrationInv, BatchCovers
<1>5. Migrated => Migrated'
  BY <1>1 DEF Migrated
<1> QED
  BY <1>2, <1>4, <1>5

LEMMA MigrationRuns ==
    ASSUME MigrationInv, run_migrations
    PROVE  MigrationInv'
<1>1. CASE phase = "migrate" /\ MigrationStep /\ UNCHANGED process_vars
  <2>1. HalfWay' /\ BatchCovers'
    BY <1>1, FindStep, WriteStep DEF MigrationInv, MigrationStep
  <2> QED
    BY <1>1, <2>1 DEF MigrationInv, process_vars
<1>2. CASE Goes("migrate", "reclaim") /\ MigrationsOver
  <2>1. Migrated
    BY <1>2, OverIsMigrated DEF MigrationsOver, MigrationInv
  <2>2. UNCHANGED <<origin, walks, digests>> /\ migrating' = NotMigrating
    BY <1>2 DEF MigrationsOver
  <2>3. HalfWay'
    BY <2>2 DEF MigrationInv, HalfWay
  <2>4. BatchCovers'
    BY <2>2 DEF NotMigrating, BatchCovers
  <2>5. Migrated'
    BY <2>1, <2>2 DEF Migrated
  <2> QED
    BY <1>2, <2>3, <2>4, <2>5 DEF Goes, MigrationInv
<1> QED
  BY <1>1, <1>2 DEF run_migrations

\* A start begins the migrations again, and a death leaves them where they were.
LEMMA MigrationBreaks ==
    ASSUME MigrationInv, Boots \/ Dies
    PROVE  MigrationInv'
<1>1. /\ UNCHANGED <<origin, walks, digests>>
      /\ phase' \in {"migrate", "down"}
      /\ DOMAIN migrating' = {"at", "batch", "last"} /\ migrating'.at \in {"find", "off"}
  BY DEF Boots, Dies, MigrationsBegin, NotMigrating
<1>2. HalfWay' /\ BatchCovers'
  BY <1>1 DEF MigrationInv, HalfWay, BatchCovers
<1>3. \A j \in Jobs : job'[j] = "idle"
  BY DEF Boots, Dies, NoJob, MigrationInv
<1> QED
  BY <1>1, <1>2, <1>3 DEF MigrationInv

LEMMA MigrationKept == MigrationInv /\ [Next]_vars => MigrationInv'
<1> SUFFICES ASSUME MigrationInv, [Next]_vars PROVE MigrationInv'
  OBVIOUS
<1>1. CASE UNCHANGED migration_vars
  <2>1. HalfWay' /\ BatchCovers' /\ (Migrated => Migrated')
    BY <1>1, MigrationStutter
  <2>2. CASE reclaim_local_leases \/ LoadsSettings \/ MarksApplied \/ StopBegins \/ Stop
    BY <2>1, <2>2 DEF MigrationInv, reclaim_local_leases, LoadsSettings, MarksApplied,
       StopBegins, Stop, SchedulerStops, drain_jobs, TasksCancelled, TasksGathered,
       GraceEnds, StoreCloses, NoJob, Goes
  <2>3. CASE Warns \/ Logs \/ Owner \/ UNCHANGED vars
    BY <2>1, <2>3 DEF MigrationInv, Warns, Logs, Owner, vars, process_vars
  <2>4. ASSUME NEW j \in Jobs,
               JobStarts(j) \/ JobEnds(j) \/ JobReleases(j) \/ LeaseExpires(j)
        PROVE  MigrationInv'
    BY <2>1, <2>4 DEF MigrationInv, JobStarts, JobEnds, JobReleases, LeaseExpires
  <2> QED
    BY <2>2, <2>3, <2>4, MigrationRuns, MigrationBreaks DEF Next
<1>2. CASE ~UNCHANGED migration_vars
  <2>1. run_migrations \/ Boots \/ Dies
    BY <1>2 DEF Next, reclaim_local_leases, LoadsSettings, MarksApplied, StopBegins, Stop,
       SchedulerStops, drain_jobs, TasksCancelled, TasksGathered, GraceEnds, StoreCloses, Warns,
       Logs, Owner, JobStarts, JobEnds, JobReleases, LeaseExpires, vars
  <2> QED
    BY <2>1, MigrationRuns, MigrationBreaks
<1> QED
  BY <1>1, <1>2

\* No job runs before every document is what one run of the migrations makes of it, for
\* any documents, shows, weeks, files and size of batch, and however many starts died
\* among the migrations before (migrate.py:27-199, main.py:120-122).
THEOREM MigratedFirst == Spec => []MigratedBeforeJobs
<1>1. MigrationInv => MigratedBeforeJobs
  BY DEF MigrationInv, MigratedBeforeJobs
<1> QED
  BY <1>1, MigrationInit, MigrationKept, PTL DEF Spec
=============================================================================
