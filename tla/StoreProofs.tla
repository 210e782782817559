---------------------------- MODULE StoreProofs -----------------------------
(***************************************************************************)
(* Proofs about what is kept in the store.  First the two protocols over   *)
(* single documents, which rest on the store's refusal of old revisions:   *)
(* the job lease, for any set of runs and any lifetime, and update_doc,    *)
(* for any number of overlapping calls, tries and sends.  Then the search  *)
(* index beside the texts it copies, for any episodes, texts and pages.    *)
(***************************************************************************)
EXTENDS JobLease, UpdateDoc, Corpus, FiniteSetTheorems, TLAPS

-----------------------------------------------------------------------------
(* The lease.  LeaseSafety is not inductive: a takeover or a late renewal  *)
(* would break it if the write could be against a document it was not      *)
(* decided on.  LeaseInv says what each write on the way still knows of    *)
(* the document.                                                           *)

\* A stamp on the way is no older than the one its run counts on.
StampsAreNewer == \A r \in Runs : put[r] # "none" => stamp[r] >= valid[r]

\* An update against the current revision is by the owner or of an expired lease.
CurrentUpdates == \A r \in current : lease.owner = r \/ lease.left = 0

\* A delete against the current revision is by the owner, after its block.
CurrentDeletes == \A r \in deleting : lease.owner = r /\ main[r] = "delete"

\* The sweep deletes the lease of a process that is gone, and its run is over.
SweepOfGone == reclaiming => lease.owner \in gone
GoneIsDone == \A r \in gone : main[r] = "done"

LeaseInv ==
    /\ TypeOK
    /\ LeaseSafety
    /\ StampsAreNewer
    /\ CurrentUpdates
    /\ CurrentDeletes
    /\ SweepOfGone
    /\ GoneIsDone

-----------------------------------------------------------------------------
\* Counting down stays within the lifetime and keeps the order.
LEMMA LessFacts ==
    ASSUME NEW a \in 0..TTL, NEW b \in 0..TTL
    PROVE  /\ Less(a) \in 0..TTL
           /\ a >= b => Less(a) >= Less(b)
           /\ Less(a) <= a
           /\ Less(a) > 0 => a > 0
BY LeaseAssumption, SMT DEF Less

\* The type invariant: every step keeps every variable in its range.
LEMMA TypeStep == TypeOK /\ [Next]_vars => TypeOK'
<1> SUFFICES ASSUME TypeOK, [Next]_vars PROVE TypeOK'
  OBVIOUS
<1>a. 0 \in 0..TTL /\ TTL \in 0..TTL
  BY LeaseAssumption
<1>b. \A r \in Runs : [owner |-> r, left |-> stamp[r]]
                          \in [owner : Runs \cup {NoRun}, left : 0..TTL]
  BY DEF TypeOK
<1>1. ASSUME NEW r \in Runs, AcquireRead(r) PROVE TypeOK'
  BY <1>1, <1>a DEF TypeOK, AcquireRead, Send, Goto
<1>2. ASSUME NEW r \in Runs, Acquired(r) PROVE TypeOK'
  BY <1>2, <1>a, <1>b DEF TypeOK, Acquired, Land, Store, Answered, Goto, BeatGoes
<1>3. ASSUME NEW r \in Runs, AcquireUnheard(r) PROVE TypeOK'
  BY <1>3, <1>a, <1>b DEF TypeOK, AcquireUnheard, Land, Store, Answered, Goto
<1>4. ASSUME NEW r \in Runs, NotAcquired(r) PROVE TypeOK'
  BY <1>4, <1>a DEF TypeOK, NotAcquired, Answered, Goto
<1>5. ASSUME NEW r \in Runs, RenewRead(r) PROVE TypeOK'
  BY <1>5, <1>a DEF TypeOK, RenewRead, Send, BeatGoes
<1>6. ASSUME NEW r \in Runs, Renewed(r) PROVE TypeOK'
  BY <1>6, <1>a, <1>b DEF TypeOK, Renewed, Land, Store, Answered, BeatGoes
<1>7. ASSUME NEW r \in Runs, RenewUnheard(r) PROVE TypeOK'
  BY <1>7, <1>a, <1>b DEF TypeOK, RenewUnheard, Land, Store, Answered, BeatGoes
<1>8. ASSUME NEW r \in Runs, NotRenewed(r) PROVE TypeOK'
  BY <1>8, <1>a DEF TypeOK, NotRenewed, Answered, BeatGoes
<1>9. ASSUME NEW r \in Runs, BeatMissed(r) PROVE TypeOK'
  BY <1>9, <1>a DEF TypeOK, BeatMissed, BeatGoes
<1>10. ASSUME NEW r \in Runs, BodyEnds(r) PROVE TypeOK'
  BY <1>10, <1>a DEF TypeOK, BodyEnds, Cancel, Answered, Goto, BeatGoes
<1>11. ASSUME NEW r \in Runs, ReleaseRead(r) PROVE TypeOK'
  BY <1>11, <1>a DEF TypeOK, ReleaseRead, Goto
<1>12. ASSUME NEW r \in Runs, Released(r) PROVE TypeOK'
  BY <1>12, <1>a DEF TypeOK, Released, Store, NoLease, Goto
<1>13. ASSUME NEW r \in Runs, NotReleased(r) PROVE TypeOK'
  BY <1>13, <1>a DEF TypeOK, NotReleased, Goto
<1>14. ASSUME NEW r \in Runs, ProcessEnds(r) PROVE TypeOK'
  BY <1>14, <1>a DEF TypeOK, ProcessEnds, Cancel, Answered, Goto, BeatGoes
<1>15. ASSUME NEW r \in Runs, LateLands(r) PROVE TypeOK'
  BY <1>15, <1>a, <1>b DEF TypeOK, LateLands, Land, Store, Answered
<1>16. ASSUME NEW r \in Runs, LateLost(r) PROVE TypeOK'
  BY <1>16, <1>a DEF TypeOK, LateLost, Answered
<1>17a. ASSUME ReclaimRead PROVE TypeOK'
  BY <1>17a DEF TypeOK, ReclaimRead
<1>17b. ASSUME Reclaim PROVE TypeOK'
  <2>1. NoLease \in [owner : Runs \cup {NoRun}, left : 0..TTL]
    BY <1>a DEF NoLease
  <2> QED
    BY <1>17b, <2>1 DEF TypeOK, Reclaim, Store
<1>18. ASSUME Tick PROVE TypeOK'
  <2>1. \A k \in 0..TTL : Less(k) \in 0..TTL
    BY LessFacts
  <2>2. lease' \in [owner : Runs \cup {NoRun}, left : 0..TTL]
    BY <1>18, <2>1 DEF TypeOK, Tick
  <2>3. stamp' \in [Runs -> 0..TTL] /\ valid' \in [Runs -> 0..TTL]
    BY <1>18, <2>1 DEF TypeOK, Tick
  <2>4. beat' \in [Runs -> {"off", "asleep", "due", "put", "lost"}]
    BY <1>18 DEF TypeOK, Tick
  <2> QED
    BY <1>18, <2>2, <2>3, <2>4 DEF TypeOK, Tick
<1>19. ASSUME UNCHANGED vars PROVE TypeOK'
  BY <1>19 DEF TypeOK, vars
<1> QED
  BY <1>1, <1>2, <1>3, <1>4, <1>5, <1>6, <1>7, <1>8, <1>9, <1>10, <1>11, <1>12, <1>13, <1>14, <1>15, <1>16, <1>17a, <1>17b, <1>18, <1>19 DEF Next, RunStep

\* A write the store takes is never against the unexpired lease of another run.
LEMMA TakesNothing ==
    ASSUME LeaseInv, NEW r \in Runs, Takes(r)
    PROVE  /\ \A q \in Runs \ {r} : ~(main[q] = "running" /\ valid[q] > 0)
           /\ lease.left > 0 /\ lease.owner # NoRun => lease.owner = r
<1>1. lease.left > 0 /\ lease.owner # NoRun => lease.owner = r
  BY DEF Takes, Free, LeaseInv, CurrentUpdates
<1>2. ASSUME NEW q \in Runs \ {r}, main[q] = "running", valid[q] > 0 PROVE FALSE
  <2>1. lease.owner = q /\ lease.left >= valid[q]
    BY <1>2 DEF LeaseInv, LeaseSafety
  <2>2. lease.left \in 0..TTL /\ valid[q] \in 0..TTL
    BY DEF LeaseInv, TypeOK
  <2>3. lease.left > 0
    BY <1>2, <2>1, <2>2
  <2> QED
    BY <1>1, <2>1, <2>3, LeaseAssumption
<1> QED
  BY <1>1, <1>2

\* What LeaseInv adds to the types.
Knowledge ==
    /\ LeaseSafety
    /\ StampsAreNewer
    /\ CurrentUpdates
    /\ CurrentDeletes
    /\ SweepOfGone
    /\ GoneIsDone

\* Every step keeps the invariant.
LEMMA LeaseInvStep == LeaseInv /\ [Next]_vars => LeaseInv'
<1> SUFFICES ASSUME LeaseInv, [Next]_vars PROVE LeaseInv'
  OBVIOUS
<1>0. TypeOK'
  BY TypeStep DEF LeaseInv
<1> SUFFICES Knowledge'
  BY <1>0 DEF LeaseInv, Knowledge
<1> USE DEF Knowledge
<1>1. ASSUME NEW r \in Runs, AcquireRead(r) PROVE Knowledge'
  BY <1>1, <1>0, LeaseAssumption
     DEF LeaseInv, TypeOK, LeaseSafety, StampsAreNewer, CurrentUpdates,
         CurrentDeletes, SweepOfGone, GoneIsDone, AcquireRead, Send, Goto, Free
<1>2. ASSUME NEW r \in Runs, NotAcquired(r) PROVE Knowledge'
  BY <1>2, <1>0, LeaseAssumption
     DEF LeaseInv, TypeOK, LeaseSafety, StampsAreNewer, CurrentUpdates,
         CurrentDeletes, SweepOfGone, GoneIsDone, NotAcquired, Answered, Goto
<1>3. ASSUME NEW r \in Runs, RenewRead(r) PROVE Knowledge'
  BY <1>3, <1>0, LeaseAssumption
     DEF LeaseInv, TypeOK, LeaseSafety, StampsAreNewer, CurrentUpdates,
         CurrentDeletes, SweepOfGone, GoneIsDone, RenewRead, Send, BeatGoes
<1>4. ASSUME NEW r \in Runs, NotRenewed(r) PROVE Knowledge'
  BY <1>4, <1>0, LeaseAssumption
     DEF LeaseInv, TypeOK, LeaseSafety, StampsAreNewer, CurrentUpdates,
         CurrentDeletes, SweepOfGone, GoneIsDone, NotRenewed, Answered, BeatGoes
<1>5. ASSUME NEW r \in Runs, BeatMissed(r) PROVE Knowledge'
  BY <1>5, <1>0, LeaseAssumption
     DEF LeaseInv, TypeOK, LeaseSafety, StampsAreNewer, CurrentUpdates,
         CurrentDeletes, SweepOfGone, GoneIsDone, BeatMissed, BeatGoes
<1>6. ASSUME NEW r \in Runs, BodyEnds(r) PROVE Knowledge'
  BY <1>6, <1>0, LeaseAssumption
     DEF LeaseInv, TypeOK, LeaseSafety, StampsAreNewer, CurrentUpdates,
         CurrentDeletes, SweepOfGone, GoneIsDone, BodyEnds, Cancel, Answered, Goto, BeatGoes
<1>7. ASSUME NEW r \in Runs, ReleaseRead(r) PROVE Knowledge'
  BY <1>7, <1>0, LeaseAssumption
     DEF LeaseInv, TypeOK, LeaseSafety, StampsAreNewer, CurrentUpdates,
         CurrentDeletes, SweepOfGone, GoneIsDone, ReleaseRead, Goto
<1>8. ASSUME NEW r \in Runs, NotReleased(r) PROVE Knowledge'
  BY <1>8, <1>0, LeaseAssumption
     DEF LeaseInv, TypeOK, LeaseSafety, StampsAreNewer, CurrentUpdates,
         CurrentDeletes, SweepOfGone, GoneIsDone, NotReleased, Goto
<1>9. ASSUME NEW r \in Runs, ProcessEnds(r) PROVE Knowledge'
  BY <1>9, <1>0, LeaseAssumption
     DEF LeaseInv, TypeOK, LeaseSafety, StampsAreNewer, CurrentUpdates,
         CurrentDeletes, SweepOfGone, GoneIsDone, ProcessEnds, Cancel, Answered, Goto, BeatGoes
<1>10. ASSUME NEW r \in Runs, LateLost(r) PROVE Knowledge'
  BY <1>10, <1>0, LeaseAssumption
     DEF LeaseInv, TypeOK, LeaseSafety, StampsAreNewer, CurrentUpdates,
         CurrentDeletes, SweepOfGone, GoneIsDone, LateLost, Answered
<1>11. ASSUME NEW r \in Runs, Acquired(r) PROVE Knowledge'
  <2>1. \A q \in Runs \ {r} : ~(main[q] = "running" /\ valid[q] > 0)
    BY <1>11, TakesNothing DEF Acquired, Land
  <2>2. LeaseSafety' /\ StampsAreNewer'
    BY <1>11, <2>1, <1>0
       DEF LeaseInv, TypeOK, LeaseSafety, StampsAreNewer, Takes, Acquired, Land, Store, Answered, Goto, BeatGoes
  <2>3. CurrentUpdates' /\ CurrentDeletes' /\ SweepOfGone' /\ GoneIsDone'
    BY <1>11
       DEF LeaseInv, CurrentUpdates, CurrentDeletes, SweepOfGone, GoneIsDone, Acquired, Land, Store, Answered, Goto
  <2> QED
    BY <2>2, <2>3
<1>12. ASSUME NEW r \in Runs, AcquireUnheard(r) PROVE Knowledge'
  <2>1. \A q \in Runs \ {r} : ~(main[q] = "running" /\ valid[q] > 0)
    BY <1>12, TakesNothing DEF AcquireUnheard, Land
  <2>2. LeaseSafety' /\ StampsAreNewer'
    BY <1>12, <2>1, <1>0
       DEF LeaseInv, TypeOK, LeaseSafety, StampsAreNewer, Takes, AcquireUnheard, Land, Store, Answered, Goto, BeatGoes
  <2>3. CurrentUpdates' /\ CurrentDeletes' /\ SweepOfGone' /\ GoneIsDone'
    BY <1>12
       DEF LeaseInv, CurrentUpdates, CurrentDeletes, SweepOfGone, GoneIsDone, AcquireUnheard, Land, Store, Answered, Goto
  <2> QED
    BY <2>2, <2>3
<1>13. ASSUME NEW r \in Runs, Renewed(r) PROVE Knowledge'
  <2>1. \A q \in Runs \ {r} : ~(main[q] = "running" /\ valid[q] > 0)
    BY <1>13, TakesNothing DEF Renewed, Land
  <2>2. LeaseSafety' /\ StampsAreNewer'
    BY <1>13, <2>1, <1>0
       DEF LeaseInv, TypeOK, LeaseSafety, StampsAreNewer, Takes, Renewed, Land, Store, Answered, BeatGoes
  <2>3. CurrentUpdates' /\ CurrentDeletes' /\ SweepOfGone' /\ GoneIsDone'
    BY <1>13
       DEF LeaseInv, CurrentUpdates, CurrentDeletes, SweepOfGone, GoneIsDone, Renewed, Land, Store, Answered
  <2> QED
    BY <2>2, <2>3
<1>14. ASSUME NEW r \in Runs, RenewUnheard(r) PROVE Knowledge'
  <2>1. \A q \in Runs \ {r} : ~(main[q] = "running" /\ valid[q] > 0)
    BY <1>14, TakesNothing DEF RenewUnheard, Land
  <2>2. LeaseSafety' /\ StampsAreNewer'
    BY <1>14, <2>1, <1>0
       DEF LeaseInv, TypeOK, LeaseSafety, StampsAreNewer, Takes, RenewUnheard, Land, Store, Answered, BeatGoes
  <2>3. CurrentUpdates' /\ CurrentDeletes' /\ SweepOfGone' /\ GoneIsDone'
    BY <1>14
       DEF LeaseInv, CurrentUpdates, CurrentDeletes, SweepOfGone, GoneIsDone, RenewUnheard, Land, Store, Answered
  <2> QED
    BY <2>2, <2>3
<1>15. ASSUME NEW r \in Runs, LateLands(r) PROVE Knowledge'
  <2>1. \A q \in Runs \ {r} : ~(main[q] = "running" /\ valid[q] > 0)
    BY <1>15, TakesNothing DEF LateLands, Land
  <2>2. LeaseSafety' /\ StampsAreNewer'
    BY <1>15, <2>1, <1>0
       DEF LeaseInv, TypeOK, LeaseSafety, StampsAreNewer, Takes, LateLands, Land, Store, Answered, BeatGoes
  <2>3. CurrentUpdates' /\ CurrentDeletes' /\ SweepOfGone' /\ GoneIsDone'
    BY <1>15
       DEF LeaseInv, CurrentUpdates, CurrentDeletes, SweepOfGone, GoneIsDone, LateLands, Land, Store, Answered
  <2> QED
    BY <2>2, <2>3
<1>16. ASSUME NEW r \in Runs, Released(r) PROVE Knowledge'
  BY <1>16, <1>0
     DEF LeaseInv, TypeOK, LeaseSafety, StampsAreNewer, CurrentUpdates,
         CurrentDeletes, SweepOfGone, GoneIsDone, Released, Store, Goto
<1>17. ASSUME ReclaimRead PROVE Knowledge'
  BY <1>17
     DEF LeaseInv, LeaseSafety, StampsAreNewer, CurrentUpdates, CurrentDeletes,
         SweepOfGone, GoneIsDone, ReclaimRead
<1>18. ASSUME Reclaim PROVE Knowledge'
  BY <1>18
     DEF LeaseInv, LeaseSafety, StampsAreNewer, CurrentUpdates, CurrentDeletes,
         SweepOfGone, GoneIsDone, Reclaim, Store
<1>19. ASSUME Tick PROVE Knowledge'
  <2>1. \A r \in Runs : /\ valid'[r] = Less(valid[r]) /\ stamp'[r] = Less(stamp[r])
    BY <1>19 DEF Tick
  <2>2. lease'.owner = lease.owner /\ lease'.left = Less(lease.left)
    BY <1>19 DEF Tick, LeaseInv, TypeOK
  <2>3. LeaseSafety'
    BY <1>19, <2>1, <2>2, LessFacts DEF LeaseInv, TypeOK, LeaseSafety, Tick
  <2>4. StampsAreNewer'
    BY <1>19, <2>1, LessFacts DEF LeaseInv, TypeOK, StampsAreNewer, Tick
  <2>5. CurrentUpdates'
    BY <1>19, <2>2 DEF LeaseInv, CurrentUpdates, Tick, Less
  <2>6. CurrentDeletes' /\ SweepOfGone' /\ GoneIsDone'
    BY <1>19, <2>2 DEF LeaseInv, CurrentDeletes, SweepOfGone, GoneIsDone, Tick
  <2> QED
    BY <2>3, <2>4, <2>5, <2>6
<1>20. ASSUME UNCHANGED vars PROVE Knowledge'
  BY <1>20 DEF LeaseInv, LeaseSafety, StampsAreNewer, CurrentUpdates,
     CurrentDeletes, SweepOfGone, GoneIsDone, vars
<1> QED
  BY <1>1, <1>2, <1>3, <1>4, <1>5, <1>6, <1>7, <1>8, <1>9, <1>10, <1>11, <1>12, <1>13, <1>14, <1>15,
     <1>16, <1>17, <1>18, <1>19, <1>20 DEF Next, RunStep

-----------------------------------------------------------------------------
LEMMA LeaseInvInit == Init => LeaseInv
<1> SUFFICES ASSUME Init PROVE LeaseInv
  OBVIOUS
<1>1. TypeOK
  <2>1. 0 \in 0..TTL
    BY LeaseAssumption
  <2>2. lease \in [owner : Runs \cup {NoRun}, left : 0..TTL]
    BY <2>1 DEF Init, NoLease
  <2>3. current = {} /\ deleting = {} /\ gone = {} /\ reclaiming \in BOOLEAN
    BY DEF Init
  <2> QED
    BY <2>1, <2>2, <2>3 DEF Init, TypeOK
<1>2. LeaseSafety /\ StampsAreNewer /\ CurrentUpdates /\ CurrentDeletes /\ GoneIsDone
  BY DEF Init, LeaseSafety, StampsAreNewer, CurrentUpdates, CurrentDeletes, GoneIsDone
<1>3. SweepOfGone
  BY DEF Init, SweepOfGone
<1> QED
  BY <1>1, <1>2, <1>3 DEF LeaseInv

LEMMA LeaseInvariant == Spec => []LeaseInv
BY LeaseInvInit, LeaseInvStep, PTL DEF Spec

\* Every variable of the lease keeps to its type, for any runs and any lifetime.
THEOREM LeaseTypes == Spec => []TypeOK
<1>1. LeaseInv => TypeOK
  BY DEF LeaseInv
<1> QED
  BY <1>1, LeaseInvariant, PTL

\* A run inside its block and within its expiry is the one the document names, for
\* any number of runs, whichever of their requests fail, land late or go unheard.
THEOREM LeaseIsSafe == Spec => []LeaseSafety
<1>1. LeaseInv => LeaseSafety
  BY DEF LeaseInv
<1> QED
  BY <1>1, LeaseInvariant, PTL

-----------------------------------------------------------------------------
\* An unexpired lease keeps its owner or is freed, and it is freed only by the
\* owner's own release or when the owner's process is gone.
LEMMA OwnerStep ==
    ASSUME LeaseInv, [Next]_vars, lease.left > 0, lease.owner # NoRun
    PROVE  \/ lease'.owner = lease.owner
           \/ lease'.owner = NoRun /\ main[lease.owner] \in {"delete", "done"}
<1>1. ASSUME NEW r \in Runs,
             \/ Acquired(r) \/ AcquireUnheard(r) \/ Renewed(r) \/ RenewUnheard(r)
             \/ LateLands(r)
      PROVE  lease'.owner = lease.owner
  <2>1. Land(r)
    BY <1>1 DEF Acquired, AcquireUnheard, Renewed, RenewUnheard, LateLands
  <2>2. lease.owner = r
    BY <2>1, TakesNothing DEF Land
  <2> QED
    BY <2>1, <2>2 DEF Land, Store
<1>2. ASSUME NEW r \in Runs, Released(r)
      PROVE  lease'.owner = NoRun /\ main[lease.owner] = "delete"
  BY <1>2 DEF Released, Store, NoLease, LeaseInv, CurrentDeletes
<1>3. ASSUME Reclaim
      PROVE  lease'.owner = NoRun /\ main[lease.owner] = "done"
  BY <1>3 DEF Reclaim, Store, NoLease, LeaseInv, SweepOfGone, GoneIsDone
<1>4. ASSUME NEW r \in Runs,
             \/ AcquireRead(r) \/ NotAcquired(r) \/ RenewRead(r)
             \/ NotRenewed(r) \/ BeatMissed(r) \/ BodyEnds(r) \/ ReleaseRead(r)
             \/ NotReleased(r) \/ ProcessEnds(r) \/ LateLost(r)
      PROVE  lease'.owner = lease.owner
  BY <1>4 DEF AcquireRead, NotAcquired, RenewRead, NotRenewed, BeatMissed, BodyEnds,
              ReleaseRead, NotReleased, ProcessEnds, LateLost
<1>5. ASSUME ReclaimRead \/ UNCHANGED vars PROVE lease'.owner = lease.owner
  BY <1>5 DEF ReclaimRead, vars
<1>6. ASSUME Tick PROVE lease'.owner = lease.owner
  BY <1>6 DEF Tick, LeaseInv, TypeOK
<1> QED
  BY <1>1, <1>2, <1>3, <1>4, <1>5, <1>6 DEF Next, RunStep

\* No step takes an unexpired lease from a run that goes on running, for any number
\* of runs.
THEOREM LeaseIsKept == Spec => LiveLeaseKept
<1>1. LeaseInv /\ [Next]_vars
         => \A r \in Runs :
               lease.owner = r /\ lease.left > 0 /\ main[r] = "running"
                  => lease'.owner = r \/ main'[r] # "running"
  BY OwnerStep, LeaseAssumption
<1> QED
  BY <1>1, LeaseInvariant, PTL DEF Spec, LiveLeaseKept

-----------------------------------------------------------------------------
\* The holder, where there is one, is the owner of an unexpired lease.
LEMMA HolderOwns ==
    LeaseInv /\ Holder # NoRun => /\ Holder \in Runs /\ main[Holder] = "running"
                                  /\ lease.owner = Holder /\ lease.left > 0
<1> SUFFICES ASSUME LeaseInv, Holder # NoRun
             PROVE  /\ Holder \in Runs /\ main[Holder] = "running"
                    /\ lease.owner = Holder /\ lease.left > 0
  OBVIOUS
<1>1. Holder \in Runs /\ Holds(Holder)
  BY DEF Holder
<1>2. lease.owner = Holder /\ lease.left >= valid[Holder]
  BY <1>1 DEF LeaseInv, LeaseSafety, Holds
<1>3. lease.left \in 0..TTL /\ valid[Holder] \in 0..TTL
  BY <1>1 DEF LeaseInv, TypeOK
<1> QED
  BY <1>1, <1>2, <1>3 DEF Holds

\* The lease, with all that can go wrong around it, implements the exclusion of
\* JobExclusion: the job never passes from one run straight to another.
THEOREM LeaseExcludes == Spec => ImplementsExclusion
<1>1. Init => Exclusion!Init
  BY DEF Init, Exclusion!Init, Holder, Holds
<1>2. ASSUME LeaseInv, LeaseInv', [Next]_vars
      PROVE  [Exclusion!Next]_Holder
  <2>0. (LeaseInv /\ Holder # NoRun => /\ Holder \in Runs /\ main[Holder] = "running"
                                       /\ lease.owner = Holder /\ lease.left > 0)'
    BY HolderOwns, PTL
  <2>1. CASE Holder' = NoRun
    BY <2>1 DEF Exclusion!Next, Exclusion!Drop
  <2>2. CASE Holder' # NoRun /\ Holder = NoRun
    <3>1. Holder' \in Runs
      BY <1>2, <2>0, <2>2
    <3> QED
      BY <2>2, <3>1 DEF Exclusion!Next, Exclusion!Take
  <2>3. CASE Holder' # NoRun /\ Holder # NoRun
    <3>1. lease.owner = Holder /\ lease.left > 0 /\ main[Holder] = "running"
      BY <1>2, <2>3, HolderOwns
    <3>2. lease'.owner = Holder'
      BY <1>2, <2>0, <2>3
    <3>3. Holder' = Holder
      BY <1>2, <2>3, <3>1, <3>2, OwnerStep
    <3> QED
      BY <3>3
  <2> QED
    BY <2>1, <2>2, <2>3
<1> QED
  BY <1>1, <1>2, LeaseInvariant, PTL
     DEF Spec, ImplementsExclusion, Exclusion!Spec

-----------------------------------------------------------------------------
(* update_doc.  Everything rests on one observation: a copy the store      *)
(* would still take says what the document says, with one call's change    *)
(* added.                                                                  *)

\* A content with c's change added.
Changed(content, c) == [content EXCEPT ![c] = @ + 1]

\* A copy in the caller's hands is the document with the change on it, unless the
\* document has moved on.
CopiesHonest ==
    \A c \in Calls :
        /\ copy[c].rev <= doc.rev
        /\ at[c] = "put" /\ copy[c].rev = doc.rev
              => copy[c].content = Changed(doc.content, c)

\* So is one on its way to the store, and its call was left without an answer.
LateHonest ==
    \A d \in late :
        \E c \in unheard : d.content = Changed(doc.content, c)

\* A call that goes on has tries left, and sends when it is at a put.
RoomLeft ==
    \A c \in Calls :
        /\ at[c] \in {"get", "put"} => tries[c] < MaxTries
        /\ at[c] = "put" => sends[c] < MaxSends

UpdateInv ==
    /\ UpdateTypeOK
    /\ RoomLeft
    /\ CopiesHonest
    /\ LateHonest
    /\ NoUpdateLost
    /\ AppliedOnceWhenAnswered

-----------------------------------------------------------------------------
\* Adding a change adds one to one counter.
LEMMA ChangedFacts ==
    ASSUME NEW f \in [Calls -> Nat], NEW c \in Calls
    PROVE  /\ Changed(f, c) \in [Calls -> Nat]
           /\ Changed(f, c)[c] = f[c] + 1
           /\ \A b \in Calls \ {c} : Changed(f, c)[b] = f[b]
BY DEF Changed

\* What is sent over a document of the revision it carries is the document with c's
\* change, under the next revision.
LEMMA LandsFacts ==
    ASSUME doc \in Document, NEW d \in Document, Lands(d),
           NEW c \in Calls, d.content = Changed(doc.content, c)
    PROVE  /\ doc' \in Document
           /\ doc'.rev = doc.rev + 1
           /\ doc'.content = Changed(doc.content, c)
           /\ late' = {}
BY DEF Lands, Document

\* Whoever's copy lands, and whatever its call makes of it, the invariant holds of the
\* document it leaves: every copy made before is outdated.
LEMMA AfterLanding ==
    ASSUME UpdateInv, UpdateTypeOK', RoomLeft',
           NEW d \in Document, Lands(d),
           NEW c \in Calls, d.content = Changed(doc.content, c),
           copy' = copy,
           unheard \subseteq unheard',
           \A b \in Calls : at'[b] = "done" => at[b] = "done" \/ b = c,
           \A b \in Calls \ unheard' :
               IF b = c THEN at[b] # "done" /\ at'[b] = "done"
                        ELSE at'[b] = "done" <=> at[b] = "done"
    PROVE  UpdateInv'
<1>1. /\ doc \in Document
      /\ doc.rev \in Nat /\ doc.content \in [Calls -> Nat]
      /\ \A b \in Calls : copy[b].rev \in Nat
  BY DEF UpdateInv, UpdateTypeOK, Document
<1>2. /\ doc'.rev = doc.rev + 1
      /\ doc'.content = Changed(doc.content, c) /\ late' = {}
  BY <1>1, LandsFacts
<1>3. /\ doc'.content[c] = doc.content[c] + 1
      /\ \A b \in Calls \ {c} : doc'.content[b] = doc.content[b]
  BY <1>1, <1>2, ChangedFacts
<1>4. CopiesHonest'
  <2> SUFFICES ASSUME NEW b \in Calls PROVE copy[b].rev < doc'.rev
    BY <1>1, <1>2 DEF CopiesHonest, UpdateTypeOK, Document
  <2>1. copy[b].rev <= doc.rev
    BY DEF UpdateInv, CopiesHonest
  <2> QED
    BY <1>1, <1>2, <2>1
<1>5. LateHonest'
  BY <1>2 DEF LateHonest
<1>6. NoUpdateLost'
  <2> SUFFICES ASSUME NEW b \in Calls, at'[b] = "done" PROVE doc'.content[b] > 0
    BY DEF NoUpdateLost
  <2>1. CASE b = c
    BY <1>1, <1>3, <2>1
  <2>2. CASE b # c
    BY <1>3, <2>2 DEF UpdateInv, NoUpdateLost
  <2> QED
    BY <2>1, <2>2
<1>7. AppliedOnceWhenAnswered'
  <2> SUFFICES ASSUME NEW b \in Calls \ unheard'
               PROVE  doc'.content[b] = IF at'[b] = "done" THEN 1 ELSE 0
    BY DEF AppliedOnceWhenAnswered
  <2>1. doc.content[b] = IF at[b] = "done" THEN 1 ELSE 0
    BY DEF UpdateInv, AppliedOnceWhenAnswered
  <2>2. CASE b = c
    BY <1>3, <2>1, <2>2
  <2>3. CASE b # c
    BY <1>3, <2>1, <2>3
  <2> QED
    BY <2>2, <2>3
<1> QED
  BY <1>4, <1>5, <1>6, <1>7 DEF UpdateInv

LEMMA ReadStep ==
    ASSUME UpdateInv, NEW c \in Calls, Read(c)
    PROVE  UpdateInv'
<1> DEFINE d == [doc EXCEPT !.content[c] = doc.content[c] + 1]
<1>1. /\ at[c] = "get" /\ at' = [at EXCEPT ![c] = "put"]
      /\ copy' = [copy EXCEPT ![c] = d] /\ sends' = [sends EXCEPT ![c] = 0]
      /\ UNCHANGED <<doc, tries, late, unheard>>
  BY DEF Read, Moves
<1>2. d \in Document /\ d.rev = doc.rev /\ d.content = Changed(doc.content, c)
  <2>1. doc \in Document /\ doc.content \in [Calls -> Nat]
    BY DEF UpdateInv, UpdateTypeOK, Document
  <2>2. d = [doc EXCEPT !.content = Changed(doc.content, c)]
    BY <2>1 DEF Document, Changed
  <2>3. Changed(doc.content, c) \in [Calls -> Nat]
    BY <2>1, ChangedFacts
  <2> HIDE DEF d
  <2> QED
    BY <2>1, <2>2, <2>3 DEF Document
<1>3. doc.rev \in Nat
  BY DEF UpdateInv, UpdateTypeOK, Document
<1> HIDE DEF d
<1>4. UpdateTypeOK'
  BY <1>1, <1>2, UpdateAssumption DEF UpdateInv, UpdateTypeOK
<1>5. RoomLeft'
  BY <1>1, UpdateAssumption DEF UpdateInv, UpdateTypeOK, RoomLeft
<1>6. CopiesHonest'
  <2> SUFFICES ASSUME NEW b \in Calls
               PROVE  /\ copy'[b].rev <= doc.rev
                      /\ at'[b] = "put" /\ copy'[b].rev = doc.rev
                            => copy'[b].content = Changed(doc.content, b)
    BY <1>1 DEF CopiesHonest
  <2>1. CASE b = c
    BY <1>1, <1>2, <1>3, <2>1 DEF UpdateInv, UpdateTypeOK
  <2>2. CASE b # c
    BY <1>1, <2>2 DEF UpdateInv, UpdateTypeOK, CopiesHonest
  <2> QED
    BY <2>1, <2>2
<1>7. LateHonest'
  BY <1>1 DEF UpdateInv, LateHonest
<1>8. NoUpdateLost' /\ AppliedOnceWhenAnswered'
  BY <1>1 DEF UpdateInv, UpdateTypeOK, NoUpdateLost, AppliedOnceWhenAnswered
<1> QED
  BY <1>4, <1>5, <1>6, <1>7, <1>8 DEF UpdateInv

LEMMA AnsweredStep ==
    ASSUME UpdateInv, NEW c \in Calls, PutAnswered(c)
    PROVE  UpdateInv'
<1>1. /\ at[c] = "put" /\ Lands(copy[c]) /\ at' = [at EXCEPT ![c] = "done"]
      /\ UNCHANGED <<copy, tries, sends, unheard>>
  BY DEF PutAnswered, Moves
<1>2. copy[c] \in Document /\ copy[c].content = Changed(doc.content, c)
  BY <1>1 DEF Lands, UpdateInv, UpdateTypeOK, CopiesHonest
<1>3. doc' \in Document /\ late' = {}
  BY <1>1, <1>2, LandsFacts DEF UpdateInv, UpdateTypeOK
<1>4. UpdateTypeOK'
  BY <1>1, <1>3 DEF UpdateInv, UpdateTypeOK
<1>5. at'[c] = "done" /\ \A b \in Calls \ {c} : at'[b] = at[b]
  BY <1>1 DEF UpdateInv, UpdateTypeOK
<1>6. RoomLeft'
  BY <1>1 DEF UpdateInv, UpdateTypeOK, RoomLeft
<1> QED
  BY <1>1, <1>2, <1>4, <1>5, <1>6, AfterLanding

\* Steps that leave the document, the copies and what is late alone.
LEMMA StandsStill ==
    ASSUME UpdateInv, UpdateTypeOK', RoomLeft', UNCHANGED <<doc, copy, late>>,
           unheard \subseteq unheard',
           \A b \in Calls : at'[b] = "put" => at[b] = "put",
           \A b \in Calls : at'[b] = "done" <=> at[b] = "done"
    PROVE  UpdateInv'
<1>1. CopiesHonest'
  BY DEF UpdateInv, CopiesHonest
<1>2. LateHonest'
  BY DEF UpdateInv, LateHonest
<1>3. NoUpdateLost' /\ AppliedOnceWhenAnswered'
  BY DEF UpdateInv, NoUpdateLost, AppliedOnceWhenAnswered
<1> QED
  BY <1>1, <1>2, <1>3 DEF UpdateInv

LEMMA RefusedStep ==
    ASSUME UpdateInv, NEW c \in Calls, Refused(c)
    PROVE  UpdateInv'
<1> DEFINE place == IF tries[c] + 1 = MaxTries THEN "conflict" ELSE "get"
<1>1. /\ at' = [at EXCEPT ![c] = place] /\ tries' = [tries EXCEPT ![c] = @ + 1]
      /\ at[c] = "put" /\ UNCHANGED <<doc, copy, sends, late, unheard>>
  BY DEF Refused, Moves
<1>2. tries[c] \in Nat /\ tries[c] < MaxTries
  BY <1>1 DEF UpdateInv, UpdateTypeOK, RoomLeft
<1>3. place \in {"get", "conflict"} /\ (place = "get" => tries[c] + 1 < MaxTries)
  BY <1>2, UpdateAssumption
<1> HIDE DEF place
<1>4. UpdateTypeOK' /\ RoomLeft'
  BY <1>1, <1>2, <1>3, UpdateAssumption DEF UpdateInv, UpdateTypeOK, RoomLeft
<1>5. /\ \A b \in Calls : at'[b] = "put" => at[b] = "put"
      /\ \A b \in Calls : at'[b] = "done" <=> at[b] = "done"
  BY <1>1, <1>3 DEF UpdateInv, UpdateTypeOK
<1> QED
  BY <1>1, <1>4, <1>5, StandsStill

LEMMA UnansweredStep ==
    ASSUME UpdateInv, NEW c \in Calls, Unanswered(c)
    PROVE  UpdateInv'
<1> DEFINE place == IF sends[c] + 1 = MaxSends THEN "error" ELSE "put"
<1>1. /\ at' = [at EXCEPT ![c] = place] /\ sends' = [sends EXCEPT ![c] = @ + 1]
      /\ at[c] = "put" /\ unheard' = unheard \cup {c} /\ UNCHANGED <<copy, tries>>
  BY DEF Unanswered, Moves
<1>2. sends[c] \in Nat /\ sends[c] < MaxSends /\ copy[c] \in Document
  BY <1>1 DEF UpdateInv, UpdateTypeOK, RoomLeft
<1>3. place \in {"put", "error"} /\ (place = "put" => sends[c] + 1 < MaxSends)
  BY <1>2, UpdateAssumption
<1> HIDE DEF place
<1>4. /\ \A b \in Calls : at'[b] = "put" => at[b] = "put"
      /\ \A b \in Calls : at'[b] = "done" <=> at[b] = "done"
  BY <1>1, <1>3 DEF UpdateInv, UpdateTypeOK
<1>5. RoomLeft'
  BY <1>1, <1>2, <1>3 DEF UpdateInv, UpdateTypeOK, RoomLeft
<1>6. /\ at' \in [Calls -> {"get", "put", "done", "conflict", "error"}]
      /\ sends' \in [Calls -> 0..MaxSends] /\ unheard' \in SUBSET Calls
  BY <1>1, <1>2, <1>3, UpdateAssumption DEF UpdateInv, UpdateTypeOK
<1>7. CASE Lands(copy[c])
  <2>1. copy[c].content = Changed(doc.content, c)
    BY <1>1, <1>7 DEF Lands, UpdateInv, CopiesHonest
  <2>2. doc' \in Document /\ late' = {}
    BY <1>2, <1>7, <2>1, LandsFacts DEF UpdateInv, UpdateTypeOK
  <2>3. UpdateTypeOK'
    BY <1>1, <1>6, <2>2 DEF UpdateInv, UpdateTypeOK
  <2> QED
    BY <1>1, <1>2, <1>4, <1>5, <1>7, <2>1, <2>3, AfterLanding
<1>8. CASE copy[c].rev = doc.rev /\ late' = late \cup {copy[c]} /\ UNCHANGED doc
  <2>1. UpdateTypeOK'
    BY <1>1, <1>2, <1>6, <1>8 DEF UpdateInv, UpdateTypeOK
  <2>2. CopiesHonest'
    BY <1>1, <1>4, <1>8 DEF UpdateInv, CopiesHonest
  <2>3. copy[c].content = Changed(doc.content, c)
    BY <1>1, <1>8 DEF UpdateInv, CopiesHonest
  <2>4. LateHonest'
    BY <1>1, <1>8, <2>3 DEF UpdateInv, LateHonest
  <2>5. NoUpdateLost' /\ AppliedOnceWhenAnswered'
    BY <1>1, <1>4, <1>8 DEF UpdateInv, NoUpdateLost, AppliedOnceWhenAnswered
  <2> QED
    BY <1>5, <2>1, <2>2, <2>4, <2>5 DEF UpdateInv
<1>9. CASE UNCHANGED <<doc, late>>
  <2>1. UpdateTypeOK'
    BY <1>1, <1>6, <1>9 DEF UpdateInv, UpdateTypeOK
  <2> QED
    BY <1>1, <1>4, <1>5, <1>9, <2>1, StandsStill
<1> QED
  BY <1>7, <1>8, <1>9 DEF Unanswered

LEMMA LateLandsStep ==
    ASSUME UpdateInv, LatePutLands
    PROVE  UpdateInv'
<1>1. PICK d \in late : Lands(d)
  BY DEF LatePutLands
<1>2. UNCHANGED <<at, copy, tries, sends, unheard>>
  BY DEF LatePutLands
<1>3. PICK c \in unheard : d.content = Changed(doc.content, c)
  BY DEF UpdateInv, LateHonest
<1>4. d \in Document /\ c \in Calls
  BY DEF UpdateInv, UpdateTypeOK
<1>5. doc' \in Document /\ late' = {}
  BY <1>1, <1>3, <1>4, LandsFacts DEF UpdateInv, UpdateTypeOK
<1>6. UpdateTypeOK' /\ RoomLeft'
  BY <1>2, <1>5 DEF UpdateInv, UpdateTypeOK, RoomLeft
<1> QED
  BY <1>1, <1>2, <1>3, <1>4, <1>6, AfterLanding

LEMMA StoreFailsStep ==
    ASSUME UpdateInv, NEW c \in Calls, StoreFails(c)
    PROVE  UpdateInv'
<1>1. /\ at' = [at EXCEPT ![c] = "error"] /\ at[c] \in {"get", "put"}
      /\ UNCHANGED <<doc, copy, tries, sends, late, unheard>>
  BY DEF StoreFails, Moves
<1>2. UpdateTypeOK' /\ RoomLeft'
  BY <1>1 DEF UpdateInv, UpdateTypeOK, RoomLeft
<1>3. /\ \A b \in Calls : at'[b] = "put" => at[b] = "put"
      /\ \A b \in Calls : at'[b] = "done" <=> at[b] = "done"
  BY <1>1 DEF UpdateInv, UpdateTypeOK
<1> QED
  BY <1>1, <1>2, <1>3, StandsStill

-----------------------------------------------------------------------------
LEMMA UpdateInvInit == UpdateInit => UpdateInv
<1> SUFFICES ASSUME UpdateInit PROVE UpdateInv
  OBVIOUS
<1>1. doc \in Document /\ doc.content = [c \in Calls |-> 0] /\ doc.rev = 0
  BY DEF UpdateInit, Document
<1>2. UpdateTypeOK /\ RoomLeft
  BY <1>1, UpdateAssumption DEF UpdateInit, UpdateTypeOK, RoomLeft
<1>3. CopiesHonest /\ LateHonest
  BY <1>1 DEF UpdateInit, CopiesHonest, LateHonest
<1>4. NoUpdateLost /\ AppliedOnceWhenAnswered
  BY <1>1 DEF UpdateInit, NoUpdateLost, AppliedOnceWhenAnswered
<1> QED
  BY <1>2, <1>3, <1>4 DEF UpdateInv

LEMMA UpdateInvStep == UpdateInv /\ [UpdateNext]_update_vars => UpdateInv'
<1> SUFFICES ASSUME UpdateInv, [UpdateNext]_update_vars PROVE UpdateInv'
  OBVIOUS
<1>1. ASSUME NEW c \in Calls, Read(c) PROVE UpdateInv'
  BY <1>1, ReadStep
<1>2. ASSUME NEW c \in Calls, PutAnswered(c) PROVE UpdateInv'
  BY <1>2, AnsweredStep
<1>3. ASSUME NEW c \in Calls, Refused(c) PROVE UpdateInv'
  BY <1>3, RefusedStep
<1>4. ASSUME NEW c \in Calls, Unanswered(c) PROVE UpdateInv'
  BY <1>4, UnansweredStep
<1>5. ASSUME NEW c \in Calls, StoreFails(c) PROVE UpdateInv'
  BY <1>5, StoreFailsStep
<1>6. CASE LatePutLands
  BY <1>6, LateLandsStep
<1>7. CASE UNCHANGED update_vars
  BY <1>7 DEF update_vars, UpdateInv, UpdateTypeOK, RoomLeft, CopiesHonest, LateHonest,
              NoUpdateLost, AppliedOnceWhenAnswered
<1> QED
  BY <1>1, <1>2, <1>3, <1>4, <1>5, <1>6, <1>7 DEF UpdateNext, Step

LEMMA UpdateInvariant == UpdateSpec => []UpdateInv
BY UpdateInvInit, UpdateInvStep, PTL DEF UpdateSpec

-----------------------------------------------------------------------------
\* Every call stays within its tries and its sends, its copy a document.
THEOREM UpdateTypes == UpdateSpec => []UpdateTypeOK
<1>1. UpdateInv => UpdateTypeOK
  BY DEF UpdateInv
<1> QED
  BY <1>1, UpdateInvariant, PTL

\* No call's change is overwritten by another call's put (update_doc never forces a
\* write through).
THEOREM UpdatesAreKept == UpdateSpec => []NoUpdateLost
<1>1. UpdateInv => NoUpdateLost
  BY DEF UpdateInv
<1> QED
  BY <1>1, UpdateInvariant, PTL

\* Where every put is answered, a change is in the document once if its call returned
\* and not at all if it raised.
THEOREM AnsweredUpdatesApplyOnce == UpdateSpec => []AppliedOnceWhenAnswered
<1>1. UpdateInv => AppliedOnceWhenAnswered
  BY DEF UpdateInv
<1> QED
  BY <1>1, UpdateInvariant, PTL

\* A copy that lands changes the document by one call's change.
LEMMA LandingChanges ==
    ASSUME UpdateInv, NEW d \in Document, Lands(d),
           NEW c \in Calls, d.content = Changed(doc.content, c)
    PROVE  Atomic!Next
BY LandsFacts DEF UpdateInv, UpdateTypeOK, Atomic!Next, Atomic!Change, Changed

LEMMA AtomicStep ==
    ASSUME UpdateInv, [UpdateNext]_update_vars
    PROVE  [Atomic!Next]_(doc.content)
<1>1. ASSUME NEW c \in Calls, at[c] = "put", Lands(copy[c])
      PROVE  Atomic!Next
  <2>1. copy[c] \in Document /\ copy[c].content = Changed(doc.content, c)
    BY <1>1 DEF Lands, UpdateInv, UpdateTypeOK, CopiesHonest
  <2> QED
    BY <1>1, <2>1, LandingChanges
<1>2. CASE LatePutLands
  <2>1. PICK d \in late : Lands(d)
    BY <1>2 DEF LatePutLands
  <2>2. PICK c \in unheard : d.content = Changed(doc.content, c)
    BY DEF UpdateInv, LateHonest
  <2>3. d \in Document /\ c \in Calls
    BY DEF UpdateInv, UpdateTypeOK
  <2> QED
    BY <2>1, <2>2, <2>3, LandingChanges
<1>3. ASSUME NEW c \in Calls, PutAnswered(c) PROVE Atomic!Next
  BY <1>1, <1>3 DEF PutAnswered
<1>4. ASSUME NEW c \in Calls, Unanswered(c) PROVE Atomic!Next \/ doc' = doc
  BY <1>1, <1>4 DEF Unanswered
<1>5. ASSUME NEW c \in Calls, Read(c) \/ Refused(c) \/ StoreFails(c) PROVE doc' = doc
  BY <1>5 DEF Read, Refused, StoreFails
<1>6. CASE UNCHANGED update_vars
  BY <1>6 DEF update_vars
<1> QED
  BY <1>2, <1>3, <1>4, <1>5, <1>6 DEF UpdateNext, Step

\* Overlapping calls, refusals, repeats and late arrivals notwithstanding, the document
\* goes through the same changes as if every update were one step.
THEOREM UpdatesAreAtomic == UpdateSpec => ImplementsAtomic
<1>1. UpdateInit => Atomic!Init
  BY DEF UpdateInit, Atomic!Init
<1> QED
  BY <1>1, AtomicStep, UpdateInvariant, PTL DEF UpdateSpec, ImplementsAtomic, Atomic!Spec

-----------------------------------------------------------------------------
(* Enough tries.  With an answer to every put, the revision counts the calls that *)
(* returned, and a call is refused only when it has gone up since the call read.  *)

\* The calls that returned.
Returned == {c \in Calls : at[c] = "done"}

\* Each refusal of a call is owed to another call's return: to one before the copy in
\* hand was read, or to one since.
RefusedByOthers ==
    unheard = {} =>
        /\ late = {}
        /\ doc.rev = Cardinality(Returned)
        /\ \A c \in Calls :
              /\ tries[c] <= doc.rev
              /\ at[c] = "put" => tries[c] <= copy[c].rev
              /\ at[c] = "conflict" => tries[c] = MaxTries

\* A step that returns none, and counts no refusal, keeps the count.
LEMMA NoneReturns ==
    ASSUME UpdateInv, RefusedByOthers, doc' = doc, late' = late,
           unheard' = unheard, copy' = copy, tries' = tries,
           \A b \in Calls : /\ at'[b] = "done" <=> at[b] = "done"
                            /\ at'[b] \in {"put", "conflict"} => at'[b] = at[b]
    PROVE  RefusedByOthers'
<1>1. Returned' = Returned
  BY DEF Returned
<1> QED
  BY <1>1 DEF RefusedByOthers

LEMMA ReadKeepsCount ==
    ASSUME UpdateInv, RefusedByOthers, NEW c \in Calls, Read(c)
    PROVE  RefusedByOthers'
<1> DEFINE d == [doc EXCEPT !.content[c] = doc.content[c] + 1]
<1>1. /\ at[c] = "get" /\ at' = [at EXCEPT ![c] = "put"]
      /\ copy' = [copy EXCEPT ![c] = d]
      /\ UNCHANGED <<doc, tries, late, unheard>>
  BY DEF Read, Moves
<1>2. d.rev = doc.rev
  BY DEF UpdateInv, UpdateTypeOK, Document
<1> HIDE DEF d
<1>3. Returned' = Returned
  BY <1>1 DEF Returned, UpdateInv, UpdateTypeOK
<1>4. /\ copy'[c].rev = doc.rev
      /\ \A b \in Calls \ {c} : copy'[b] = copy[b] /\ at'[b] = at[b]
      /\ at'[c] = "put"
  BY <1>1, <1>2 DEF UpdateInv, UpdateTypeOK
<1> QED
  BY <1>1, <1>3, <1>4 DEF RefusedByOthers

LEMMA ReturnCounts ==
    ASSUME UpdateInv, RefusedByOthers, IsFiniteSet(Calls), NEW c \in Calls, PutAnswered(c)
    PROVE  RefusedByOthers'
<1>1. /\ at[c] = "put" /\ Lands(copy[c]) /\ at' = [at EXCEPT ![c] = "done"]
      /\ UNCHANGED <<copy, tries, sends, unheard>>
  BY DEF PutAnswered, Moves
<1>2. copy[c] \in Document /\ copy[c].content = Changed(doc.content, c)
  BY <1>1 DEF Lands, UpdateInv, UpdateTypeOK, CopiesHonest
<1>3. doc.rev \in Nat /\ doc'.rev = doc.rev + 1 /\ late' = {}
  BY <1>1, <1>2, LandsFacts DEF UpdateInv, UpdateTypeOK, Document
<1>4. c \notin Returned /\ Returned' = Returned \cup {c}
  BY <1>1 DEF Returned, UpdateInv, UpdateTypeOK
<1>5. IsFiniteSet(Returned)
  BY FS_Subset DEF Returned
<1>6. Cardinality(Returned') = Cardinality(Returned) + 1
  BY <1>4, <1>5, FS_AddElement
<1>7. \A b \in Calls : /\ at'[b] \in {"put", "conflict"} => at'[b] = at[b]
                       /\ tries[b] \in Nat
  BY <1>1 DEF UpdateInv, UpdateTypeOK
<1> QED
  BY <1>1, <1>3, <1>6, <1>7 DEF RefusedByOthers

\* A refusal: the revision has gone up since c read.
LEMMA RefusalIsOwed ==
    ASSUME UpdateInv, RefusedByOthers, NEW c \in Calls, Refused(c)
    PROVE  RefusedByOthers'
<1> DEFINE place == IF tries[c] + 1 = MaxTries THEN "conflict" ELSE "get"
<1>1. /\ at' = [at EXCEPT ![c] = place] /\ tries' = [tries EXCEPT ![c] = @ + 1]
      /\ at[c] = "put" /\ copy[c].rev # doc.rev
      /\ UNCHANGED <<doc, copy, sends, late, unheard>>
  BY DEF Refused, Moves
<1>2. copy[c].rev \in Nat /\ doc.rev \in Nat /\ copy[c].rev < doc.rev /\ tries[c] \in Nat
  <2>1. copy[c] \in Document /\ doc \in Document /\ tries[c] \in Nat
    BY UpdateAssumption DEF UpdateInv, UpdateTypeOK
  <2>2. copy[c].rev <= doc.rev
    BY DEF UpdateInv, CopiesHonest
  <2> QED
    BY <1>1, <2>1, <2>2 DEF Document
<1>3. place \in {"get", "conflict"} /\ (place = "conflict" => tries[c] + 1 = MaxTries)
  OBVIOUS
<1> HIDE DEF place
<1>4. Returned' = Returned
  BY <1>1, <1>3 DEF Returned, UpdateInv, UpdateTypeOK
<1>5. /\ at'[c] = place /\ tries'[c] = tries[c] + 1
      /\ \A b \in Calls \ {c} : at'[b] = at[b] /\ tries'[b] = tries[b]
  BY <1>1 DEF UpdateInv, UpdateTypeOK
<1> QED
  BY <1>1, <1>2, <1>3, <1>4, <1>5 DEF RefusedByOthers

LEMMA RefusedByOthersStep ==
    ASSUME UpdateInv, RefusedByOthers, IsFiniteSet(Calls), [UpdateNext]_update_vars
    PROVE  RefusedByOthers'
<1>1. ASSUME NEW c \in Calls, Unanswered(c) PROVE RefusedByOthers'
  BY <1>1 DEF Unanswered, RefusedByOthers
<1>2. ASSUME NEW c \in Calls, StoreFails(c) PROVE RefusedByOthers'
  <2>1. /\ at' = [at EXCEPT ![c] = "error"] /\ at[c] \in {"get", "put"}
        /\ UNCHANGED <<doc, copy, tries, late, unheard>>
    BY <1>2 DEF StoreFails, Moves
  <2> QED
    BY <2>1, NoneReturns DEF UpdateInv, UpdateTypeOK
<1>3. CASE LatePutLands
  <2>1. late # {} /\ unheard' = unheard
    BY <1>3 DEF LatePutLands
  <2> QED
    BY <2>1 DEF RefusedByOthers
<1>4. CASE UNCHANGED update_vars
  BY <1>4, NoneReturns DEF update_vars
<1> QED
  BY <1>1, <1>2, <1>3, <1>4, ReadKeepsCount, ReturnCounts, RefusalIsOwed DEF UpdateNext, Step

\* With an answer to every put, as many tries as there are overlapping calls let them
\* all through: nobody ends in a conflict (max_retries of update_doc, base.py:257-268).
THEOREM TriesAreEnough ==
    ASSUME IsFiniteSet(Calls)
    PROVE  UpdateSpec => []EnoughTries
<1>1. UpdateInit => RefusedByOthers
  <2> SUFFICES ASSUME UpdateInit PROVE RefusedByOthers
    OBVIOUS
  <2>1. doc.rev = 0 /\ late = {} /\ Returned = {}
    BY DEF UpdateInit, Returned
  <2>2. \A c \in Calls : tries[c] = 0 /\ at[c] = "get"
    BY DEF UpdateInit
  <2> QED
    BY <2>1, <2>2, FS_EmptySet DEF RefusedByOthers
<1>2. UpdateInv /\ RefusedByOthers => EnoughTries
  <2> SUFFICES ASSUME UpdateInv, RefusedByOthers, unheard = {},
                      Cardinality(Calls) <= MaxTries,
                      NEW c \in Calls, at[c] = "conflict"
               PROVE  FALSE
    BY DEF EnoughTries
  <2>1. c \notin Returned /\ Returned \subseteq Calls \ {c}
    BY DEF Returned
  <2>2. /\ IsFiniteSet(Calls \ {c})
        /\ Cardinality(Calls \ {c}) = Cardinality(Calls) - 1
        /\ Cardinality(Calls) \in Nat
    BY FS_RemoveElement, FS_CardinalityType
  <2>3. Cardinality(Returned) <= Cardinality(Calls \ {c}) /\ Cardinality(Returned) \in Nat
    BY <2>1, <2>2, FS_Subset, FS_CardinalityType
  <2>4. MaxTries <= Cardinality(Returned) /\ MaxTries \in Nat
    BY UpdateAssumption DEF RefusedByOthers
  <2> QED
    BY <2>2, <2>3, <2>4
<1>3. ASSUME UpdateInv, RefusedByOthers, [UpdateNext]_update_vars PROVE RefusedByOthers'
  BY <1>3, RefusedByOthersStep
<1> QED
  BY <1>1, <1>2, <1>3, UpdateInvariant, PTL DEF UpdateSpec

-----------------------------------------------------------------------------
(* The search index.  A row is made of two readings of an episode, of the  *)
(* document in its page and later of the text, and signed with the first.  *)
(* The invariant says the same of a row in the index, of one that is yet   *)
(* to be written and of a document that was read: what the signature says  *)
(* is not ahead of the document, and if it is not behind it either, the    *)
(* text is the document's.                                                 *)

EpisodeDoc == [here : BOOLEAN, text : Nat, at : Nat, expired : Nat]

IndexRow == [sig : (Nat \X Nat) \cup {NONE}, text : Nat, extra : BOOLEAN]

\* Told, of a document at hand.
Telling(d) == d.text = IF d.expired = 0 THEN d.at ELSE 0

\* Whom the promise leaves aside.
Unsure == torn \cup {e \in Episodes : Expiring(e)}

\* What a signed text says of the document d as it is now.
Tells(d, unsure, sig, text) ==
    sig # NONE =>
        /\ sig \in Nat \X Nat /\ sig[1] <= d.at /\ sig[2] <= d.expired
        /\ (sig = signature(d) /\ Telling(d) /\ ~unsure) => text = d.text

\* What may happen to a document d: its text stays; or changes, and it does not tell so or is
\* left aside; or it goes on to a signature it never had.
Evolves(d, before, c, after) ==
    \/ signature(c) = signature(d) /\ c.text = d.text /\ (before => after)
    \/ signature(c) = signature(d) /\ (after \/ ~Telling(c))
    \/ d.at < c.at /\ d.expired = c.expired
    \/ d.at = c.at /\ d.expired < c.expired

\* The documents: a text to be named is later than the one named.
TextsInv ==
    /\ stored \in Nat
    /\ edoc \in [Episodes -> EpisodeDoc]
    /\ pending \in [Episodes -> Nat]
    /\ \A e \in Episodes :
          /\ edoc[e].at <= stored
          /\ pending[e] # 0 => edoc[e].at < pending[e] /\ pending[e] <= stored
    /\ ret \in Ret
    /\ ret.at = "mark" => ret.e \in Episodes

RowsTell(rows) == \A e \in Episodes : Tells(edoc[e], e \in Unsure, rows[e].sig, rows[e].text)

IndexTells == index \in [Episodes -> IndexRow] /\ RowsTell(index)

PageTells ==
    \A read \in sync.page :
        Tells(edoc[read.e], read.e \in Unsure, signature(read.doc), read.doc.text)

SyncTypes ==
    sync \in [at : {"idle", "load"}, rebuild : BOOLEAN,
              known : [Episodes -> (Nat \X Nat) \cup {NONE}], skip : Nat, size : Nat,
              page : SUBSET [e : Episodes, doc : EpisodeDoc], rows : [Episodes -> IndexRow]]

IndexInv ==
    /\ SyncTypes
    /\ index = NONE \/ IndexTells
    /\ sync.at = "load" /\ ~sync.rebuild => IndexTells
    /\ RowsTell(sync.rows)
    /\ PageTells

CorpusInv == TextsInv /\ IndexInv

-----------------------------------------------------------------------------
\* What is told stays told while the document evolves.
LEMMA TellingKeeps ==
    ASSUME NEW d \in EpisodeDoc, NEW c \in EpisodeDoc, NEW before \in BOOLEAN,
           NEW after \in BOOLEAN, Evolves(d, before, c, after),
           NEW sig, NEW text, Tells(d, before, sig, text)
    PROVE  Tells(c, after, sig, text)
<1> SUFFICES ASSUME sig # NONE PROVE Tells(c, after, sig, text)
  BY DEF Tells
<1>1. PICK a \in Nat, x \in Nat : sig = <<a, x>>
  BY DEF Tells
<1>2. /\ d.text \in Nat /\ d.at \in Nat /\ d.expired \in Nat
      /\ c.text \in Nat /\ c.at \in Nat /\ c.expired \in Nat
  BY DEF EpisodeDoc
<1>3. a <= d.at /\ x <= d.expired
  BY <1>1 DEF Tells
<1>4. d.at <= c.at /\ d.expired <= c.expired
  BY <1>2 DEF Evolves, signature
<1>5. ASSUME a = c.at, x = c.expired, Telling(c), ~after PROVE text = c.text
  <2>1. a = d.at /\ x = d.expired
    BY <1>2, <1>3, <1>4, <1>5
  <2>2. c.text = d.text /\ ~before
    BY <1>2, <1>5, <2>1 DEF Evolves
  <2>3. Telling(d)
    BY <1>5, <2>1, <2>2 DEF Telling
  <2> QED
    BY <1>1, <2>1, <2>2, <2>3 DEF Tells, signature
<1> QED
  BY <1>1, <1>2, <1>3, <1>4, <1>5 DEF Tells, signature

\* A document tells of itself.
LEMMA TellsOfItself ==
    ASSUME NEW d \in EpisodeDoc, NEW unsure
    PROVE  Tells(d, unsure, signature(d), d.text)
BY DEF Tells, signature, EpisodeDoc

\* Every step keeps the documents in order and lets each of them evolve.
LEMMA TextsStep ==
    ASSUME TextsInv, [CorpusNext]_corpus_vars
    PROVE  /\ TextsInv'
           /\ \A f \in Episodes : Evolves(edoc[f], f \in Unsure, edoc'[f], f \in Unsure')
<1> DEFINE Goal == /\ TextsInv'
                   /\ \A f \in Episodes :
                         Evolves(edoc[f], f \in Unsure, edoc'[f], f \in Unsure')
<1>0. /\ stored \in Nat /\ edoc \in [Episodes -> EpisodeDoc] /\ pending \in [Episodes -> Nat]
      /\ \A f \in Episodes :
            /\ edoc[f].at <= stored
            /\ pending[f] # 0 => edoc[f].at < pending[f] /\ pending[f] <= stored
      /\ ret \in Ret /\ (ret.at = "mark" => ret.e \in Episodes)
      /\ \A f \in Episodes : /\ edoc[f].here \in BOOLEAN /\ edoc[f].text \in Nat
                             /\ edoc[f].at \in Nat /\ edoc[f].expired \in Nat
  BY DEF TextsInv, EpisodeDoc
<1>1. ASSUME UNCHANGED <<docs, ret, torn>> PROVE Goal
  BY <1>0, <1>1 DEF docs, TextsInv, Evolves, Unsure, Expiring
<1>2. ASSUME NEW e \in Episodes, Ingest(e) PROVE Goal
  <2>1. /\ edoc' = [edoc EXCEPT ![e].here = TRUE]
        /\ UNCHANGED <<stored, pending, ret, torn>>
    BY <1>2 DEF Ingest
  <2>2. \A f \in Episodes :
           /\ edoc'[f] \in EpisodeDoc /\ edoc'[f].at = edoc[f].at
           /\ edoc'[f].text = edoc[f].text /\ signature(edoc'[f]) = signature(edoc[f])
    BY <1>0, <2>1 DEF EpisodeDoc, signature
  <2>3. Unsure' = Unsure
    BY <2>1 DEF Unsure, Expiring
  <2>4. edoc' \in [Episodes -> EpisodeDoc]
    BY <1>0, <2>1, <2>2
  <2> QED
    BY <1>0, <2>1, <2>2, <2>3, <2>4 DEF TextsInv, Evolves
<1>3. ASSUME NEW e \in Episodes, SaveText(e) PROVE Goal
  <2>1. /\ edoc' = [edoc EXCEPT ![e].text = stored + 1] /\ stored' = stored + 1
        /\ pending' = [pending EXCEPT ![e] = stored + 1]
        /\ UNCHANGED <<ret, torn>>
    BY <1>3 DEF SaveText
  <2>2. \A f \in Episodes :
           /\ edoc'[f] \in EpisodeDoc /\ edoc'[f].at = edoc[f].at
           /\ signature(edoc'[f]) = signature(edoc[f])
           /\ f # e => edoc'[f] = edoc[f] /\ pending'[f] = pending[f]
    BY <1>0, <2>1 DEF EpisodeDoc, signature
  <2>3. edoc'[e].text = stored + 1 /\ pending'[e] = stored + 1
    BY <1>0, <2>1 DEF EpisodeDoc
  <2>4. ~Telling(edoc'[e])
    BY <1>0, <2>2, <2>3 DEF Telling
  <2>5. Unsure' = Unsure
    BY <2>1 DEF Unsure, Expiring
  <2>6. edoc' \in [Episodes -> EpisodeDoc] /\ pending' \in [Episodes -> Nat]
    BY <1>0, <2>1, <2>2
  <2> QED
    BY <1>0, <2>1, <2>2, <2>3, <2>4, <2>5, <2>6 DEF TextsInv, Evolves
<1>4. ASSUME NEW e \in Episodes, NameText(e) PROVE Goal
  <2>1. /\ edoc' = [edoc EXCEPT ![e].at = pending[e]] /\ pending[e] # 0
        /\ pending' = [pending EXCEPT ![e] = 0]
        /\ UNCHANGED <<stored, ret, torn>>
    BY <1>4 DEF NameText
  <2>2. \A f \in Episodes : /\ edoc'[f] \in EpisodeDoc
                            /\ f # e => edoc'[f] = edoc[f] /\ pending'[f] = pending[f]
    BY <1>0, <2>1 DEF EpisodeDoc
  <2>3. edoc'[e].at = pending[e] /\ edoc'[e].expired = edoc[e].expired /\ pending'[e] = 0
    BY <1>0, <2>1 DEF EpisodeDoc
  <2>4. Unsure' = Unsure
    BY <2>1 DEF Unsure, Expiring
  <2>5. edoc' \in [Episodes -> EpisodeDoc] /\ pending' \in [Episodes -> Nat]
    BY <1>0, <2>1, <2>2
  <2> QED
    BY <1>0, <2>1, <2>2, <2>3, <2>4, <2>5 DEF TextsInv, Evolves
<1>5. ASSUME DaysPass PROVE Goal
  BY <1>0, <1>5 DEF DaysPass, TextsInv, Evolves, Unsure, Expiring
<1>6. ASSUME RetentionBegins PROVE Goal
  <2>1. /\ UNCHANGED <<stored, edoc, pending, torn>> /\ ret.at = "idle"
        /\ ret' \in Ret /\ ret'.at = "texts"
    BY <1>6 DEF RetentionBegins, docs, Ret, NoRet, Batch
  <2>2. Unsure \subseteq Unsure'
    BY <2>1 DEF Unsure, Expiring
  <2> QED
    BY <1>0, <2>1, <2>2 DEF TextsInv, Evolves
<1>7. ASSUME NEW e \in Episodes, DeleteText(e) PROVE Goal
  <2>1. /\ edoc' = [edoc EXCEPT ![e].text = 0] /\ ret.at = "texts"
        /\ ret' \in Ret /\ ret'.at = "mark" /\ ret'.e = e
        /\ UNCHANGED <<stored, pending, torn>>
    BY <1>0, <1>7 DEF DeleteText, Ret
  <2>2. \A f \in Episodes :
           /\ edoc'[f] \in EpisodeDoc /\ edoc'[f].at = edoc[f].at
           /\ signature(edoc'[f]) = signature(edoc[f])
           /\ f # e => edoc'[f] = edoc[f]
    BY <1>0, <2>1 DEF EpisodeDoc, signature
  <2>3. e \in Unsure' /\ Unsure \subseteq Unsure'
    BY <2>1 DEF Unsure, Expiring
  <2>4. edoc' \in [Episodes -> EpisodeDoc]
    BY <1>0, <2>1, <2>2
  <2> QED
    BY <1>0, <2>1, <2>2, <2>3, <2>4 DEF TextsInv, Evolves
<1>8. ASSUME NEW todo \in SUBSET Episodes PROVE Rest(todo) \in Ret /\ Rest(todo).at # "mark"
  BY DEF Rest, Ret, NoRet
<1>9. ASSUME MarkExpired PROVE Goal
  <2> DEFINE e == ret.e
  <2>1. /\ edoc' = [edoc EXCEPT ![e].expired = @ + 1] /\ e \in Episodes /\ ret.at = "mark"
        /\ ret' \in Ret /\ ret'.at # "mark"
        /\ UNCHANGED <<stored, pending, torn>>
    BY <1>0, <1>8, <1>9 DEF MarkExpired, Ret
  <2>2. \A f \in Episodes : /\ edoc'[f] \in EpisodeDoc /\ edoc'[f].at = edoc[f].at
                            /\ f # e => edoc'[f] = edoc[f]
    BY <1>0, <2>1 DEF EpisodeDoc
  <2>3. edoc'[e].expired = edoc[e].expired + 1
    BY <1>0, <2>1 DEF EpisodeDoc
  <2>4. \A f \in Unsure : f # e => f \in Unsure'
    BY <2>1 DEF Unsure, Expiring
  <2>5. edoc' \in [Episodes -> EpisodeDoc]
    BY <1>0, <2>1, <2>2
  <2> HIDE DEF e
  <2>6. ASSUME NEW f \in Episodes
        PROVE  Evolves(edoc[f], f \in Unsure, edoc'[f], f \in Unsure')
    <3>1. CASE f = e
      BY <1>0, <2>2, <2>3, <3>1 DEF Evolves
    <3>2. CASE f # e
      BY <2>2, <2>4, <3>2 DEF Evolves
    <3> QED
      BY <3>1, <3>2
  <2> QED
    BY <1>0, <2>1, <2>2, <2>5, <2>6 DEF TextsInv
<1>10. ASSUME ExpireFails PROVE Goal
  <2>1. /\ UNCHANGED <<stored, edoc, pending>>
        /\ ret' \in Ret /\ ret'.at # "mark"
        /\ \/ ret.at = "texts" /\ torn' = torn
           \/ ret.at = "mark" /\ torn' = torn \cup {ret.e}
    <3>1. ret.todo \in SUBSET Episodes /\ ret.at \in {"idle", "texts", "mark"}
      BY <1>0 DEF Ret
    <3>2. /\ Rest(ret.todo) \in Ret /\ Rest(ret.todo).at # "mark"
          /\ \A e : Rest(ret.todo \ {e}) \in Ret /\ Rest(ret.todo \ {e}).at # "mark"
      BY <1>8, <3>1
    <3> QED
      BY <1>10, <3>2 DEF ExpireFails, docs
  <2>2. Unsure \subseteq Unsure'
    BY <2>1 DEF Unsure, Expiring
  <2> QED
    BY <1>0, <2>1, <2>2 DEF TextsInv, Evolves
<1>11. ASSUME Crash PROVE Goal
  <2>1. /\ UNCHANGED <<stored, edoc>> /\ pending' = [f \in Episodes |-> 0]
        /\ ret' = NoRet
        /\ torn' = IF ret.at = "mark" THEN torn \cup {ret.e} ELSE torn
    BY <1>11 DEF Crash
  <2>2. Unsure \subseteq Unsure'
    BY <2>1 DEF Unsure, Expiring
  <2>3. ret' \in Ret /\ ret'.at # "mark"
    BY <2>1 DEF Ret, NoRet
  <2> QED
    BY <1>0, <2>1, <2>2, <2>3 DEF TextsInv, Evolves
<1> QED
  BY <1>1, <1>2, <1>3, <1>4, <1>5, <1>6, <1>7, <1>9, <1>10, <1>11
  DEF CorpusNext, RetentionStep, SyncStep, SyncBegins, LoadRow, PageDone, corpus_vars

\* A page is a number of documents as they are.
LEMMA PageFacts ==
    ASSUME TextsInv, NEW skip
    PROVE  /\ Page(skip) \subseteq Episodes /\ Cardinality(Page(skip)) \in Nat
           /\ {[e |-> e, doc |-> edoc[e]] : e \in Page(skip)}
                 \in SUBSET [e : Episodes, doc : EpisodeDoc]
<1>1. Page(skip) \subseteq Episodes
  BY DEF Page
<1>2. Cardinality(Page(skip)) \in Nat
  BY <1>1, CorpusAssumption, FS_Subset, FS_CardinalityType
<1> QED
  BY <1>1, <1>2 DEF TextsInv

\* A page just read tells of the documents, and nothing else changes with it.
LEMMA ReadingTells ==
    ASSUME TextsInv, NEW state, NEW skip \in Nat, sync' = ReadPage(state, skip),
           UNCHANGED <<edoc, ret, torn>>,
           state \in [at : {"idle", "load"}, rebuild : BOOLEAN,
                      known : [Episodes -> (Nat \X Nat) \cup {NONE}], skip : Nat,
                      size : Nat, page : SUBSET [e : Episodes, doc : EpisodeDoc],
                      rows : [Episodes -> IndexRow]]
    PROVE  /\ SyncTypes' /\ PageTells'
           /\ sync'.at = "load" /\ sync'.rebuild = state.rebuild /\ sync'.rows = state.rows
<1> DEFINE page == {[e |-> e, doc |-> edoc[e]] : e \in Page(skip)}
<1>1. sync' = [state EXCEPT !.at = "load", !.skip = skip,
                            !.size = Cardinality(Page(skip)), !.page = page]
  BY DEF ReadPage
<1>2. page \in SUBSET [e : Episodes, doc : EpisodeDoc] /\ Cardinality(Page(skip)) \in Nat
  BY PageFacts
<1>3. \A read \in page : read.e \in Episodes /\ read.doc = edoc[read.e]
  BY PageFacts
<1> HIDE DEF page
<1>4. /\ SyncTypes' /\ sync'.page = page
      /\ sync'.at = "load" /\ sync'.rebuild = state.rebuild /\ sync'.rows = state.rows
  BY <1>1, <1>2 DEF SyncTypes
<1>5. \A read \in page :
         Tells(edoc[read.e], read.e \in Unsure', signature(read.doc), read.doc.text)
  <2> SUFFICES ASSUME NEW read \in page
               PROVE  Tells(edoc[read.e], read.e \in Unsure', signature(read.doc),
                            read.doc.text)
    OBVIOUS
  <2>1. edoc[read.e] \in EpisodeDoc /\ read.doc = edoc[read.e]
    BY <1>3 DEF TextsInv
  <2> QED
    BY <2>1, TellsOfItself
<1> QED
  BY <1>4, <1>5 DEF PageTells

\* A row made of a document read and of the text of now tells of the document of now.
LEMMA RowIsTrue ==
    ASSUME TextsInv, SyncTypes, PageTells, NEW read \in sync.page
    PROVE  LET e == read.e
           IN  Tells(edoc[e], e \in Unsure, Signed(read),
                     IF Fetches(read.doc) THEN edoc[e].text ELSE 0)
<1> DEFINE e == read.e
           d == edoc[e]
           text == IF Fetches(read.doc) THEN d.text ELSE 0
<1>1. read.e \in Episodes /\ read.doc \in EpisodeDoc
  BY DEF SyncTypes
<1>2. Tells(d, e \in Unsure, signature(read.doc), read.doc.text)
  BY DEF PageTells
<1>3. d \in EpisodeDoc
  BY <1>1 DEF TextsInv
<1> HIDE DEF d, e
<1>4. signature(read.doc) \in Nat \X Nat /\ signature(read.doc) # NONE
  BY <1>1, CorpusAssumption DEF signature, EpisodeDoc
<1>5. ASSUME signature(read.doc) = signature(d), Telling(d), e \notin Unsure
      PROVE  text = d.text
  <2>1. read.doc.at = d.at /\ read.doc.expired = d.expired /\ read.doc.text = d.text
    BY <1>2, <1>4, <1>5 DEF Tells, signature
  <2> QED
    BY <1>1, <1>3, <1>5, <2>1 DEF Telling, Fetches, EpisodeDoc
<1>6. Tells(d, e \in Unsure, signature(read.doc), text)
  BY <1>2, <1>4, <1>5 DEF Tells
<1> QED
  BY <1>6 DEF Signed, d, e

\* The work of the index.
LEMMA IndexStep ==
    ASSUME CorpusInv, [CorpusNext]_corpus_vars
    PROVE  IndexInv'
<1>0. TextsInv /\ IndexInv
  BY DEF CorpusInv
<1>a. /\ TextsInv'
      /\ \A f \in Episodes : Evolves(edoc[f], f \in Unsure, edoc'[f], f \in Unsure')
  BY <1>0, TextsStep
<1>b. \A f \in Episodes : edoc[f] \in EpisodeDoc /\ edoc'[f] \in EpisodeDoc
  BY <1>0, <1>a DEF TextsInv
<1>c. ASSUME NEW f \in Episodes, NEW sig, NEW text,
             Tells(edoc[f], f \in Unsure, sig, text)
      PROVE  Tells(edoc'[f], f \in Unsure', sig, text)
  <2> DEFINE d == edoc[f]
             c == edoc'[f]
             before == f \in Unsure
             after == f \in Unsure'
  <2>1. /\ d \in EpisodeDoc /\ c \in EpisodeDoc
        /\ before \in BOOLEAN /\ after \in BOOLEAN
        /\ Evolves(d, before, c, after) /\ Tells(d, before, sig, text)
    BY <1>a, <1>b, <1>c
  <2> HIDE DEF d, c, before, after
  <2>2. Tells(c, after, sig, text)
    BY <2>1, TellingKeeps
  <2> QED
    BY <2>2 DEF c, after
<1>d. ASSUME NEW rows, RowsTell(rows)
      PROVE  \A f \in Episodes : Tells(edoc'[f], f \in Unsure', rows[f].sig, rows[f].text)
  BY <1>c, <1>d DEF RowsTell
<1>e. ASSUME index' = index
      PROVE  (index = NONE \/ IndexTells)' /\ (IndexTells => IndexTells')
  BY <1>0, <1>d, <1>e DEF IndexInv, IndexTells, RowsTell
<1>f. /\ NoSync.at = "idle"
      /\ NoSync \in [at : {"idle", "load"}, rebuild : BOOLEAN,
                     known : [Episodes -> (Nat \X Nat) \cup {NONE}], skip : Nat,
                     size : Nat, page : SUBSET [e : Episodes, doc : EpisodeDoc],
                     rows : [Episodes -> IndexRow]]
      /\ NoSync.rows = [e \in Episodes |-> NoRow] /\ NoRow.sig = NONE /\ NoSync.page = {}
  BY DEF NoSync, NoRow, IndexRow
<1>g. \A d, u, text : Tells(d, u, NONE, text)
  BY DEF Tells
<1>h. ASSUME sync' = NoSync
      PROVE  SyncTypes' /\ sync'.at = "idle" /\ RowsTell(sync.rows)' /\ PageTells'
  BY <1>f, <1>g, <1>h DEF SyncTypes, RowsTell, PageTells
<1>1. CASE UNCHANGED <<index, sync>>
  <2>1. SyncTypes' /\ RowsTell(sync.rows)'
    BY <1>0, <1>1, <1>d DEF IndexInv, SyncTypes, RowsTell
  <2>2. PageTells'
    <3>1. \A read \in sync.page :
             Tells(edoc'[read.e], read.e \in Unsure', signature(read.doc), read.doc.text)
      BY <1>0, <1>c DEF IndexInv, PageTells, SyncTypes
    <3> QED
      BY <1>1, <3>1 DEF PageTells
  <2> QED
    BY <1>0, <1>1, <1>e, <2>1, <2>2 DEF IndexInv
<1>2. CASE Crash
  BY <1>2, <1>e, <1>h DEF Crash, IndexInv
<1>3. CASE \E rebuild \in BOOLEAN : SyncBegins(rebuild)
  <2>1. PICK rebuild \in BOOLEAN : SyncBegins(rebuild)
    BY <1>3
  <2> DEFINE state == [NoSync EXCEPT !.rebuild = rebuild, !.known =
                          IF rebuild THEN @ ELSE [e \in Episodes |-> index[e].sig]]
  <2>2. /\ sync' = ReadPage(state, 0) /\ (index = NONE => rebuild)
        /\ UNCHANGED <<docs, ret, index, torn>>
    BY <2>1 DEF SyncBegins
  <2>3. ~rebuild => IndexTells
    BY <1>0, <2>2 DEF IndexInv
  <2>4. /\ state \in [at : {"idle", "load"}, rebuild : BOOLEAN,
                      known : [Episodes -> (Nat \X Nat) \cup {NONE}], skip : Nat,
                      size : Nat, page : SUBSET [e : Episodes, doc : EpisodeDoc],
                      rows : [Episodes -> IndexRow]]
        /\ state.rebuild = rebuild /\ state.rows = NoSync.rows
    BY <1>f, <2>3 DEF IndexTells, IndexRow
  <2> HIDE DEF state
  <2>5. /\ SyncTypes' /\ PageTells' /\ sync'.rebuild = rebuild
        /\ sync'.rows = NoSync.rows
    BY <1>0, <2>2, <2>4, ReadingTells DEF docs
  <2>6. RowsTell(sync.rows)'
    BY <1>f, <1>g, <2>5 DEF RowsTell
  <2> QED
    BY <1>e, <2>2, <2>3, <2>5, <2>6 DEF IndexInv
<1>4. CASE \E read \in sync.page : LoadRow(read)
  <2>1. PICK read \in sync.page : LoadRow(read)
    BY <1>4
  <2> DEFINE e == read.e
             row == [sig   |-> Signed(read),
                     text  |-> IF Fetches(read.doc) THEN edoc[e].text ELSE 0,
                     extra |-> sync.rebuild /\ sync.rows[e].sig # NONE]
  <2>2. /\ UNCHANGED <<docs, ret, index, torn>>
        /\ \/ sync' = [sync EXCEPT !.page = @ \ {read}]
           \/ sync' = [sync EXCEPT !.page = @ \ {read}, !.rows[e] = row]
    BY <2>1 DEF LoadRow
  <2>3. Unsure' = Unsure /\ edoc' = edoc
    BY <2>2 DEF Unsure, Expiring, docs
  <2>4. Tells(edoc[e], e \in Unsure, row.sig, row.text)
    BY <1>0, RowIsTrue DEF IndexInv
  <2>5. e \in Episodes /\ row \in IndexRow
    <3>1. read.e \in Episodes /\ read.doc \in EpisodeDoc
      BY <1>0 DEF IndexInv, SyncTypes
    <3>2. Signed(read) \in Nat \X Nat /\ edoc[e].text \in Nat
      BY <1>b, <3>1 DEF Signed, signature, EpisodeDoc
    <3> QED
      BY <3>1, <3>2 DEF IndexRow
  <2> HIDE DEF row, e
  <2>6. /\ SyncTypes' /\ sync'.at = sync.at /\ sync'.rebuild = sync.rebuild
        /\ sync'.page \subseteq sync.page
        /\ sync'.rows = sync.rows \/ sync'.rows = [sync.rows EXCEPT ![e] = row]
    <3>1. SyncTypes
      BY <1>0 DEF IndexInv
    <3>2. CASE sync' = [sync EXCEPT !.page = @ \ {read}]
      BY <3>1, <3>2 DEF SyncTypes
    <3>3. CASE sync' = [sync EXCEPT !.page = @ \ {read}, !.rows[e] = row]
      <4>1. sync' = [sync EXCEPT !.page = @ \ {read}, !.rows = [@ EXCEPT ![e] = row]]
        BY <3>3
      <4>2. [sync.rows EXCEPT ![e] = row] \in [Episodes -> IndexRow]
        BY <2>5, <3>1 DEF SyncTypes
      <4> QED
        BY <3>1, <4>1, <4>2 DEF SyncTypes
    <3> QED
      BY <2>2, <3>2, <3>3
  <2>7. PageTells'
    BY <1>0, <2>3, <2>6 DEF IndexInv, PageTells
  <2>8. RowsTell(sync'.rows)
    <3>1. sync.rows \in [Episodes -> IndexRow] /\ RowsTell(sync.rows)
      BY <1>0 DEF IndexInv, SyncTypes
    <3> QED
      BY <2>4, <2>5, <2>6, <3>1 DEF RowsTell
  <2>9. RowsTell(sync.rows)'
    BY <2>3, <2>8 DEF RowsTell
  <2> QED
    BY <1>0, <1>e, <2>2, <2>6, <2>7, <2>9 DEF IndexInv
<1>5. CASE PageDone
  <2> DEFINE skip == sync.skip + sync.size
             last == sync.size < BATCH \/ Page(skip) = {}
             next == [sync EXCEPT !.rows = IF sync.rebuild THEN @ ELSE NoSync.rows]
             merged == [e \in Episodes |->
                           IF sync.rows[e].sig = NONE THEN index[e]
                           ELSE [sync.rows[e] EXCEPT !.extra = index[e].extra]]
  <2>1. /\ sync.at = "load"
        /\ sync' = IF last THEN NoSync ELSE ReadPage(next, skip)
        /\ index' = IF ~sync.rebuild THEN merged ELSE IF last THEN sync.rows ELSE index
        /\ UNCHANGED <<docs, ret, torn>>
    BY <1>5 DEF PageDone
  <2>2. Unsure' = Unsure /\ edoc' = edoc
    BY <2>1 DEF Unsure, Expiring, docs
  <2>3. /\ sync.skip \in Nat /\ sync.size \in Nat /\ sync.rows \in [Episodes -> IndexRow]
        /\ sync.rebuild \in BOOLEAN /\ RowsTell(sync.rows)
        /\ (~sync.rebuild => IndexTells)
    BY <1>0, <2>1 DEF IndexInv, SyncTypes
  <2>4. ASSUME IndexTells
        PROVE  merged \in [Episodes -> IndexRow] /\ RowsTell(merged)
    <3>1. ASSUME NEW e \in Episodes
          PROVE  /\ merged[e] \in IndexRow
                 /\ \/ merged[e] = index[e]
                    \/ /\ merged[e].sig = sync.rows[e].sig
                       /\ merged[e].text = sync.rows[e].text
      BY <2>3, <2>4 DEF IndexTells, IndexRow
    <3>2. merged \in [Episodes -> IndexRow]
      BY <3>1
    <3> HIDE DEF merged
    <3>3. ASSUME NEW e \in Episodes
          PROVE  Tells(edoc[e], e \in Unsure, merged[e].sig, merged[e].text)
      BY <2>3, <2>4, <3>1 DEF IndexTells, RowsTell
    <3> QED
      BY <3>2, <3>3 DEF RowsTell
  <2>5. (index = NONE \/ IndexTells)' /\ (~sync.rebuild => IndexTells')
    <3>1. ~sync.rebuild => IndexTells'
      BY <2>1, <2>2, <2>3, <2>4 DEF IndexTells, RowsTell
    <3>2. sync.rebuild /\ last => IndexTells'
      BY <2>1, <2>2, <2>3 DEF IndexTells, RowsTell
    <3>3. sync.rebuild /\ ~last => index' = index
      BY <2>1
    <3> QED
      BY <1>e, <2>3, <3>1, <3>2, <3>3
  <2>6. CASE last
    BY <1>h, <2>1, <2>5, <2>6 DEF IndexInv
  <2>7. CASE ~last
    <3>1. skip \in Nat
      BY <2>3
    <3>2. /\ next.rebuild = sync.rebuild
          /\ next.rows = IF sync.rebuild THEN sync.rows ELSE NoSync.rows
          /\ next \in [at : {"idle", "load"}, rebuild : BOOLEAN,
                       known : [Episodes -> (Nat \X Nat) \cup {NONE}], skip : Nat,
                       size : Nat, page : SUBSET [e : Episodes, doc : EpisodeDoc],
                       rows : [Episodes -> IndexRow]]
      BY <1>0, <1>f DEF IndexInv, SyncTypes
    <3>3. sync' = ReadPage(next, skip)
      BY <2>1, <2>7
    <3> HIDE DEF next, skip
    <3>4. /\ SyncTypes' /\ PageTells' /\ sync'.rebuild = sync.rebuild
          /\ sync'.rows = IF sync.rebuild THEN sync.rows ELSE NoSync.rows
      BY <1>0, <2>1, <3>1, <3>2, <3>3, ReadingTells DEF docs
    <3>5. RowsTell(sync.rows)'
      BY <1>f, <1>g, <2>2, <2>3, <3>4 DEF RowsTell
    <3> QED
      BY <2>5, <3>4, <3>5 DEF IndexInv
  <2> QED
    BY <2>6, <2>7
<1> QED
  BY <1>1, <1>2, <1>3, <1>4, <1>5
  DEF CorpusNext, RetentionStep, SyncStep, corpus_vars, docs, Ingest, SaveText, NameText,
      DaysPass, RetentionBegins, DeleteText, MarkExpired, ExpireFails

\* Whatever is stored, aged, deleted, refused or cut short beside it, a sync passes over no
\* row that is wrong (search.py:237-240).
THEOREM PassedOverIsRight == CorpusSpec => []SignaturesTell
<1>1. CorpusInit => CorpusInv
  <2> SUFFICES ASSUME CorpusInit PROVE CorpusInv
    OBVIOUS
  <2>1. TextsInv
    BY DEF CorpusInit, TextsInv, EpisodeDoc, Ret, NoRet
  <2>2. sync = NoSync /\ index = NONE
    BY DEF CorpusInit
  <2>3. SyncTypes /\ sync.at = "idle" /\ sync.page = {}
    BY <2>2 DEF SyncTypes, NoSync, NoRow, IndexRow
  <2>4. RowsTell(sync.rows)
    BY <2>2 DEF NoSync, NoRow, RowsTell, Tells
  <2> QED
    BY <2>1, <2>2, <2>3, <2>4 DEF CorpusInv, IndexInv, PageTells
<1>2. CorpusInv /\ [CorpusNext]_corpus_vars => CorpusInv'
  BY TextsStep, IndexStep DEF CorpusInv
<1>3. CorpusInv => SignaturesTell
  <2> SUFFICES ASSUME CorpusInv, index # NONE, NEW e \in Episodes,
                      index[e].sig = signature(edoc[e]), Told(e), e \notin torn,
                      ~Expiring(e)
               PROVE  index[e].text = edoc[e].text
    BY DEF SignaturesTell
  <2>1. e \notin Unsure /\ Telling(edoc[e])
    BY DEF Unsure, Telling, Told
  <2>2. Tells(edoc[e], e \in Unsure, index[e].sig, index[e].text)
    BY DEF CorpusInv, IndexInv, IndexTells, RowsTell
  <2>3. signature(edoc[e]) # NONE
    BY CorpusAssumption DEF CorpusInv, TextsInv, EpisodeDoc, signature
  <2> QED
    BY <2>1, <2>2, <2>3 DEF Tells
<1> QED
  BY <1>1, <1>2, <1>3, PTL DEF CorpusSpec
=============================================================================
