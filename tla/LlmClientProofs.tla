--------------------------- MODULE LlmClientProofs ---------------------------
(***************************************************************************)
(* Of the model client, for any tiers, chains, cooldown and number of      *)
(* overlapping callers, outages and rejections: what it takes for a call   *)
(* to report its tier unavailable.  Two accounts are kept.  A cooldown     *)
(* and the time since its failure add up to no more than a cooldown, so    *)
(* that what is stepped over had failed within one.  And the endpoints a   *)
(* call has still to try, has tried or had seen fail are all of its chain. *)
(***************************************************************************)
EXTENDS LlmClient, WellFoundedInduction, TLAPS

CooldownsFit ==
    /\ cooling \in [Aliases -> Nat] /\ since \in [Aliases -> Nat]
    /\ \A a \in Aliases : cooling[a] + since[a] <= ENDPOINT_COOLDOWN

Fields == {"at", "tier", "walk", "tried", "recent", "failures", "doomed", "fallback",
           "left", "bullets"}

\* All endpoints of the chain of call k are accounted for.
Accounted(k) ==
    /\ k.walk \subseteq active_chain(k.tier)
    /\ k.walk \cup k.tried \cup k.recent = active_chain(k.tier)
    /\ k.at = "asked" => k.walk # {}
    /\ k.at = "unavailable" => k.walk = {} /\ k.tried # {}

CallFits(k) ==
    /\ DOMAIN k = Fields
    /\ k.at # "idle" => k.tier \in Tiers
    /\ k.at \in {"asked", "unavailable"} => Accounted(k)

ClientInv ==
    /\ CooldownsFit
    /\ DOMAIN call = Callers
    /\ \A c \in Callers : CallFits(call[c])

-----------------------------------------------------------------------------
\* A set of positions that is not empty has a least one.
LEMMA MinIsIn ==
    ASSUME NEW S, S \subseteq Nat, S # {}
    PROVE  Min(S) \in S
<1>1. \E x \in S : \A y \in S : ~(<<y, x>> \in OpToRel(<, Nat))
  BY NatLessThanWellFounded, WFMin
<1>2. PICK x \in S : \A y \in S : ~(y < x)
  BY <1>1 DEF OpToRel
<1>3. \A y \in S : x =< y
  BY <1>2
<1> QED
  BY <1>3 DEF Min

\* The validator's promise: no chain is empty.
LEMMA ChainIsSome ==
    ASSUME NEW t \in Tiers
    PROVE  active_chain(t) # {} /\ active_chain(t) \subseteq Nat
<1>1. PICK i \in 1..Len(Configured[t]) :
         allow_cloud_fallback[t] \/ Configured[t][i] \notin Cloud
  BY LlmAssumption
<1>2. Len(Configured[t]) \in Nat
  BY LlmAssumption
<1>3. i \in active_chain(t)
  BY <1>1 DEF active_chain
<1>4. active_chain(t) \subseteq 1..Len(Configured[t])
  BY DEF active_chain
<1> QED
  BY <1>2, <1>3, <1>4

\* A call starts with a walk that leaves out only what failed within a cooldown.
LEMMA StartFits ==
    ASSUME CooldownsFit, NEW t \in Tiers, NEW left, NEW bullets
    PROVE  CallFits(Started(t, left, bullets))
<1> DEFINE k == Started(t, left, bullets)
           recent == {i \in active_chain(t) : since[<<t, i>>] < ENDPOINT_COOLDOWN}
<1>1. Walk(t) # {} /\ Walk(t) \subseteq active_chain(t)
  BY ChainIsSome DEF Walk
<1>2. Walk(t) \cup recent = active_chain(t)
  <2> SUFFICES ASSUME NEW i \in active_chain(t), i \notin Walk(t)
               PROVE  since[<<t, i>>] < ENDPOINT_COOLDOWN
    BY <1>1
  <2>1. cooling[<<t, i>>] # 0
    BY DEF Walk
  <2>2. <<t, i>> \in Aliases
    BY DEF Aliases
  <2>3. ENDPOINT_COOLDOWN \in Nat
    BY LlmAssumption
  <2> QED
    BY <2>1, <2>2, <2>3 DEF CooldownsFit
<1>3. /\ DOMAIN k = Fields /\ k.at = "asked" /\ k.tier = t
      /\ k.walk = Walk(t) /\ k.tried = {} /\ k.recent = recent
  BY <1>1 DEF Started, Idle, Fields
<1> HIDE DEF k, recent
<1>4. CallFits(k)
  BY <1>1, <1>2, <1>3 DEF CallFits, Accounted
<1> QED
  BY <1>4 DEF k

\* An exception takes the endpoint asked from those still to try to those tried.
LEMMA MoveFits ==
    ASSUME ClientInv, NEW c \in Callers, call[c].at = "asked"
    PROVE  CallFits(MovedOn(c))
<1> DEFINE k == MovedOn(c)
           rest == call[c].walk \ {Current(c)}
<1>1. CallFits(call[c]) /\ Accounted(call[c]) /\ call[c].tier \in Tiers
  BY DEF ClientInv, CallFits
<1>2. Current(c) \in call[c].walk
  BY <1>1, ChainIsSome, MinIsIn DEF Accounted, Current
<1>3. /\ DOMAIN k = Fields /\ k.tier = call[c].tier
      /\ k.walk = rest /\ k.tried = call[c].tried \cup {Current(c)}
      /\ k.recent = call[c].recent
      /\ k.at = IF rest = {} THEN "unavailable" ELSE "asked"
  BY <1>1 DEF MovedOn, CallFits, Fields
<1> HIDE DEF k
<1>4. Accounted(k)
  BY <1>1, <1>2, <1>3 DEF Accounted
<1>5. CallFits(k)
  BY <1>1, <1>3, <1>4 DEF CallFits
<1> QED
  BY <1>5 DEF k

-----------------------------------------------------------------------------
\* One caller's step, the table untouched.
LEMMA CallStep ==
    ASSUME ClientInv, UNCHANGED <<cooling, since>>, NEW c \in Callers, NEW k,
           call' = [call EXCEPT ![c] = k], CallFits(k)
    PROVE  ClientInv'
<1>1. CooldownsFit'
  BY DEF ClientInv, CooldownsFit, Aliases, active_chain
<1>2. DOMAIN call' = Callers /\ \A b \in Callers : call'[b] = IF b = c THEN k ELSE call[b]
  BY DEF ClientInv
<1>3. \A b \in Callers : CallFits(call'[b])
  BY <1>2 DEF ClientInv
<1> QED
  BY <1>1, <1>2, <1>3 DEF ClientInv

\* A failure that is noted starts a cooldown, and the time since it.
LEMMA CoolStep ==
    ASSUME ClientInv, NEW c \in Callers, call[c].at = "asked", Cools(c)
    PROVE  ClientInv'
<1>1. ENDPOINT_COOLDOWN \in Nat
  BY LlmAssumption
<1>2. CooldownsFit'
  <2>1. /\ cooling' = [cooling EXCEPT ![Alias(c)] = ENDPOINT_COOLDOWN]
        /\ since' = [since EXCEPT ![Alias(c)] = 0]
    BY DEF Cools
  <2>2. /\ cooling' \in [Aliases -> Nat] /\ since' \in [Aliases -> Nat]
        /\ \A a \in Aliases : \/ cooling'[a] = ENDPOINT_COOLDOWN /\ since'[a] = 0
                              \/ cooling'[a] = cooling[a] /\ since'[a] = since[a]
    BY <1>1, <2>1 DEF ClientInv, CooldownsFit
  <2>3. \A a \in Aliases : cooling'[a] + since'[a] <= ENDPOINT_COOLDOWN
    BY <1>1, <2>2 DEF ClientInv, CooldownsFit
  <2> QED
    BY <2>2, <2>3 DEF CooldownsFit, Aliases, active_chain
<1>3. DOMAIN call' = Callers
      /\ \A b \in Callers : call'[b] = IF b = c THEN MovedOn(c) ELSE call[b]
  BY DEF Cools, ClientInv
<1>4. \A b \in Callers : CallFits(call'[b])
  BY <1>3, MoveFits DEF ClientInv
<1> QED
  BY <1>2, <1>3, <1>4 DEF ClientInv

LEMMA AnswerStep ==
    ASSUME ClientInv, NEW c \in Callers, Answers(c)
    PROVE  ClientInv'
<1>1. CooldownsFit'
  <2>1. cooling' = [cooling EXCEPT ![Alias(c)] = 0] /\ UNCHANGED since
    BY DEF Answers
  <2>2. /\ cooling' \in [Aliases -> Nat] /\ since' \in [Aliases -> Nat]
        /\ \A a \in Aliases : cooling'[a] \in {cooling[a], 0} /\ since'[a] = since[a]
    BY <2>1 DEF ClientInv, CooldownsFit
  <2>3. \A a \in Aliases : cooling'[a] + since'[a] <= ENDPOINT_COOLDOWN
    <3> SUFFICES ASSUME NEW a \in Aliases
                 PROVE  cooling'[a] + since'[a] <= ENDPOINT_COOLDOWN
      OBVIOUS
    <3>1. /\ cooling[a] \in Nat /\ since[a] \in Nat
          /\ cooling[a] + since[a] <= ENDPOINT_COOLDOWN
      BY DEF ClientInv, CooldownsFit
    <3>2. ENDPOINT_COOLDOWN \in Nat
      BY LlmAssumption
    <3> QED
      BY <2>2, <3>1, <3>2
  <2> QED
    BY <2>2, <2>3 DEF CooldownsFit, Aliases, active_chain
<1>2. PICK bullets :
         call' = [call EXCEPT ![c].at = "record", ![c].fallback = Fallback(c),
                              ![c].bullets = bullets]
  BY DEF Answers
<1>3. /\ DOMAIN call' = Callers
      /\ \A b \in Callers \ {c} : call'[b] = call[b]
      /\ DOMAIN call'[c] = Fields /\ call'[c].at = "record"
      /\ call'[c].tier = call[c].tier
  BY <1>2 DEF ClientInv, CallFits, Fields
<1>4. call[c].tier \in Tiers
  BY DEF Answers, ClientInv, CallFits
<1>5. \A b \in Callers : CallFits(call'[b])
  BY <1>3, <1>4 DEF ClientInv, CallFits
<1> QED
  BY <1>1, <1>3, <1>5 DEF ClientInv

LEMMA ProceedsStep ==
    ASSUME ClientInv, NEW c \in Callers, Proceeds(c)
    PROVE  ClientInv'
<1>0. CallFits(call[c]) /\ CallFits(Idle)
  BY DEF ClientInv, CallFits, Idle, Fields
<1>1. CASE Answers(c)
  BY <1>1, AnswerStep
<1>2. CASE Invalid(c)
  <2> DEFINE again == [call[c] EXCEPT !.failures = call[c].failures + 1,
                                      !.doomed = ~up[Asked(c)]]
  <2>1. call[c].at = "asked" /\ UNCHANGED <<cooling, since>>
    BY <1>2 DEF Invalid
  <2>2. CallFits(again) /\ CallFits(MovedOn(c))
    BY <1>0, <2>1, MoveFits DEF CallFits, Accounted, Fields
  <2>3. CASE call[c].failures + 1 > validation_retries
    <3>1. call' = [call EXCEPT ![c] = MovedOn(c)]
      BY <1>2, <2>3 DEF Invalid
    <3> QED
      BY <2>1, <2>2, <3>1, CallStep
  <2>4. CASE ~(call[c].failures + 1 > validation_retries)
    <3>1. call' = [call EXCEPT ![c] = again]
      BY <1>2, <2>4 DEF Invalid
    <3> HIDE DEF again
    <3> QED
      BY <2>1, <2>2, <3>1, CallStep
  <2> QED
    BY <2>3, <2>4
<1>3. CASE Fails(c) \/ Rejects(c)
  BY <1>3, CoolStep DEF Fails, Rejects
<1>4. CASE Errs(c)
  BY <1>4, MoveFits, CallStep DEF Errs
<1>5. CASE Recorded(c)
  <2> DEFINE next == Started(call[c].tier, call[c].left - 1, call[c].bullets)
             k == IF call[c].left = 0 \/ (call[c].left = 1 /\ ~call[c].bullets)
                  THEN Idle ELSE next
  <2>1. call' = [call EXCEPT ![c] = k] /\ UNCHANGED <<cooling, since>>
    BY <1>5 DEF Recorded
  <2>2. call[c].tier \in Tiers
    BY <1>0, <1>5 DEF Recorded, CallFits
  <2>3. CallFits(next)
    BY <2>2, StartFits DEF ClientInv
  <2>4. CallFits(k)
    BY <1>0, <2>3
  <2> HIDE DEF k
  <2> QED
    BY <2>1, <2>4, CallStep
<1>6. CASE GivesUp(c)
  BY <1>0, <1>6, CallStep DEF GivesUp
<1> QED
  BY <1>1, <1>2, <1>3, <1>4, <1>5, <1>6 DEF Proceeds

LEMMA BeginStep ==
    ASSUME ClientInv, NEW c \in Callers, Begin(c)
    PROVE  ClientInv'
<1>1. PICK t \in Tiers :
         \E left \in {0} \cup IF t \in MapReduced THEN {Min({Pieces, MAX_CHUNKS})} ELSE {} :
            call' = [call EXCEPT ![c] = Started(t, left, left = 0)]
  BY DEF Begin
<1>2. PICK left : call' = [call EXCEPT ![c] = Started(t, left, left = 0)]
  BY <1>1
<1> DEFINE k == Started(t, left, left = 0)
<1>3. CallFits(k)
  <2> DEFINE bullets == left = 0
  <2> HIDE DEF bullets
  <2>1. CallFits(Started(t, left, bullets))
    BY StartFits DEF ClientInv
  <2> QED
    BY <2>1 DEF bullets
<1>4. call' = [call EXCEPT ![c] = k] /\ UNCHANGED <<cooling, since>>
  BY <1>2 DEF Begin
<1> HIDE DEF k
<1> QED
  BY <1>3, <1>4, CallStep

\* A doomed request changes nothing of what its call has to try.
LEMMA DownStep ==
    ASSUME ClientInv, NEW e \in Endpoints, GoesDown(e)
    PROVE  ClientInv'
<1>1. CooldownsFit'
  BY DEF GoesDown, ClientInv, CooldownsFit
<1>2. \A c \in Callers : CallFits(call'[c])
  <2> SUFFICES ASSUME NEW c \in Callers PROVE CallFits(call'[c])
    OBVIOUS
  <2> DEFINE doomed == call[c].doomed \/ (call[c].at = "asked" /\ Asked(c) = e)
  <2>1. call'[c] = [call[c] EXCEPT !.doomed = doomed]
    BY DEF GoesDown
  <2>2. CallFits(call[c])
    BY DEF ClientInv
  <2> HIDE DEF doomed
  <2> QED
    BY <2>1, <2>2 DEF CallFits, Accounted, Fields
<1> QED
  BY <1>1, <1>2 DEF GoesDown, ClientInv

LEMMA TickStep ==
    ASSUME ClientInv, Tick
    PROVE  ClientInv'
<1>1. CooldownsFit'
  <2>1. ENDPOINT_COOLDOWN \in Nat
    BY LlmAssumption
  <2>2. ASSUME NEW a \in Aliases
        PROVE  /\ Elapsed(a) \in Nat /\ Min({ENDPOINT_COOLDOWN, since[a] + 1}) \in Nat
               /\ Elapsed(a) + Min({ENDPOINT_COOLDOWN, since[a] + 1}) <= ENDPOINT_COOLDOWN
    <3>1. cooling[a] \in Nat /\ since[a] \in Nat
          /\ cooling[a] + since[a] <= ENDPOINT_COOLDOWN
      BY DEF ClientInv, CooldownsFit
    <3>2. Elapsed(a) = IF cooling[a] = 0 THEN 0 ELSE cooling[a] - 1
      BY <3>1 DEF Elapsed, Max
    <3>3. Min({ENDPOINT_COOLDOWN, since[a] + 1}) =
             IF since[a] + 1 <= ENDPOINT_COOLDOWN THEN since[a] + 1 ELSE ENDPOINT_COOLDOWN
      BY <2>1, <3>1 DEF Min
    <3> QED
      BY <2>1, <3>1, <3>2, <3>3
  <2> QED
    BY <2>2 DEF Tick, CooldownsFit
<1> QED
  BY <1>1 DEF Tick, ClientInv

LEMMA ClientInvInit == Init => ClientInv
<1> SUFFICES ASSUME Init PROVE ClientInv
  OBVIOUS
<1>1. CooldownsFit
  BY LlmAssumption DEF Init, CooldownsFit
<1>2. CallFits(Idle)
  BY DEF CallFits, Idle, Fields
<1> QED
  BY <1>1, <1>2 DEF Init, ClientInv

LEMMA ClientInvStep == ClientInv /\ [Next]_vars => ClientInv'
<1> SUFFICES ASSUME ClientInv, [Next]_vars PROVE ClientInv'
  OBVIOUS
<1>1. ASSUME NEW e \in Endpoints, ComesUp(e) PROVE ClientInv'
  BY <1>1 DEF ComesUp, ClientInv, CooldownsFit
<1>2. CASE UNCHANGED vars
  BY <1>2 DEF vars, ClientInv, CooldownsFit
<1> QED
  BY <1>1, <1>2, BeginStep, ProceedsStep, DownStep, TickStep DEF Next

\* A tier is reported unavailable only by a call that asked an endpoint, and when each
\* endpoint of the chain has failed the call or had failed within a cooldown of its start:
\* neither the shared table nor what other callers put into it makes slow unavailable
\* (client.py:187-204, 242-355).
THEOREM UnavailableIsEarned == Spec => []UnavailableMeansFailed
<1>1. ClientInv => UnavailableMeansFailed
  BY DEF ClientInv, CallFits, Accounted, UnavailableMeansFailed
<1> QED
  BY <1>1, ClientInvInit, ClientInvStep, PTL DEF Spec
=============================================================================
