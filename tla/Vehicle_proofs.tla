--------------------------- MODULE Vehicle_proofs ---------------------------
(***************************************************************************)
(* Proofs about what is made of the vehicle's telemetry: the short ones    *)
(* about Climate, for every number of requests in flight and every range   *)
(* of setpoints, and after them those about ActivityHistory, for every     *)
(* set of states, Gap, length of the hour and bound on the time, the       *)
(* points and the failures.  Nothing ties the two: each theorem names its  *)
(* own specification.                                                      *)
(***************************************************************************)
EXTENDS Climate, ActivityHistory, FiniteSetTheorems, WellFoundedInduction, TLAPS

(***************************************************************************)
(* Climate: the rate limit                                                 *)
(***************************************************************************)

\* The inductive invariant: the outstanding slots of a window are among those
\* it took, so a refund of one finds it counted.
RateInv ==
    /\ used \in 0..Limit /\ armed \in BOOLEAN
    /\ inflight \subseteq Request \X Commands /\ taken \in Nat /\ late \in Nat
    /\ Cardinality(inflight) <= taken
    /\ LimitIsExact

\* All a step can do to the limit.
RateMove ==
    \/ \E slot \in Request \X Commands : Reserve(slot) \/ Refund(slot)
    \/ \E slots : Answered(slots)
    \/ used' = 0 /\ armed' = FALSE /\ inflight' = {} /\ taken' = 0 /\ late' = 0
    \/ UNCHANGED rateVars

LEMMA RateMoves == ASSUME [ClimateNext]_climateVars PROVE RateMove
  <1> USE DEF RateMove
  <1>1. ASSUME NEW r \in Request PROVE <<r, "toggle">> \in Request \X Commands /\ <<r, "push">> \in Request \X Commands
    BY DEF Commands
  <1>2. ASSUME NEW r \in Request, CommandStep(r) PROVE RateMove
    <2>1. CASE Shown(r) BY <1>1, <2>1, Zenon DEF Shown
    <2>2. CASE Pushed(r) BY <1>1, <2>2, Zenon DEF Pushed
    <2>3. CASE Accepted(r) BY <2>3, Zenon DEF Accepted
    <2>4. CASE Refunded(r) BY <1>1, <2>4, Zenon DEF Refunded
    <2>5. CASE Read(r) \/ Rejected(r) \/ Stepped(r) BY <2>5, Zenon DEF Read, Rejected, Stepped
    <2> QED BY <1>2, <2>1, <2>2, <2>3, <2>4, <2>5 DEF CommandStep
  <1>3. ASSUME NEW r \in Request, Switch(r) \/ Step(r) \/ Cut(r) PROVE RateMove
    BY <1>1, <1>3, Zenon DEF Switch, Step, Cut
  <1>4. CASE ResetRequests BY <1>4, Zenon DEF ResetRequests
  <1>5. CASE LockExpires \/ FallAsleep BY <1>5, Zenon DEF LockExpires, FallAsleep
  <1>6. ASSUME NEW power \in Powers, PowerFrame(power) PROVE RateMove
    BY <1>6, Zenon DEF PowerFrame
  <1>7. ASSUME NEW value \in Setpoints, SetpointFrame(value) PROVE RateMove
    BY <1>7, Zenon DEF SetpointFrame
  <1>8. CASE UNCHANGED climateVars BY <1>8 DEF climateVars
  <1> QED BY <1>2, <1>3, <1>4, <1>5, <1>6, <1>7, <1>8, Zenon DEF ClimateNext

LEMMA HeldIsFinite ==
    ASSUME inflight \subseteq Request \X Commands
    PROVE  IsFiniteSet(inflight) /\ Cardinality(inflight) \in Nat
  <1>1. IsFiniteSet({"toggle", "push"})
    <2>1. {"toggle", "push"} = ({} \cup {"toggle"}) \cup {"push"}
      OBVIOUS
    <2>2. IsFiniteSet({} \cup {"toggle"})
      BY FS_EmptySet, FS_AddElement
    <2>3. IsFiniteSet(({} \cup {"toggle"}) \cup {"push"})
      BY <2>2, FS_AddElement
    <2> QED BY <2>1, <2>3, Zenon
  <1>2. IsFiniteSet(Request \X Commands)
    BY <1>1, ClimateAssumption, FS_Product DEF Commands
  <1> QED BY <1>2, FS_Subset, FS_CardinalityType

LEMMA RateKept == ASSUME RateInv, RateMove PROVE RateInv'
  <1> USE DEF RateInv, LimitIsExact, SpentSlotsComeBack, SlotsAreCounted, Limit
  <1>0. IsFiniteSet(inflight) /\ Cardinality(inflight) \in Nat
    BY HeldIsFinite
  <1>1. ASSUME NEW slot \in Request \X Commands, Reserve(slot) PROVE RateInv'
    <2>1. Cardinality(inflight') <= Cardinality(inflight) + 1
      <3>1. inflight' = inflight \cup {slot}
        BY <1>1 DEF Reserve
      <3>2. Cardinality(inflight') = IF slot \in inflight THEN Cardinality(inflight) ELSE Cardinality(inflight) + 1
        BY <1>0, <3>1, FS_AddElement, Zenon
      <3> QED BY <1>0, <3>2
    <2>2. inflight' \subseteq Request \X Commands
      BY <1>1 DEF Reserve
    <2>3. Cardinality(inflight') \in Nat
      BY <1>0, <1>1, FS_AddElement, FS_CardinalityType DEF Reserve
    <2> QED BY <1>0, <1>1, <2>1, <2>2, <2>3 DEF Reserve
  <1>2. ASSUME NEW slot \in Request \X Commands, Refund(slot) PROVE RateInv'
    <2>1. CASE slot \in inflight
      <3>1. Cardinality(inflight') = Cardinality(inflight) - 1 /\ Cardinality(inflight) # 0
        BY <1>0, <1>2, <2>1, FS_RemoveElement, FS_EmptySet DEF Refund, Returned
      <3>2. inflight' \subseteq inflight /\ taken' = taken - 1 /\ UNCHANGED <<late, armed>>
        BY <1>2, <2>1 DEF Refund, Returned
      <3> QED BY <1>0, <1>2, <3>1, <3>2 DEF Refund
    <2>2. CASE slot \notin inflight
      BY <1>0, <1>2, <2>2 DEF Refund, Returned
    <2> QED BY <2>1, <2>2
  <1>3. ASSUME NEW slots, Answered(slots) PROVE RateInv'
    <2>1. inflight' \subseteq inflight /\ UNCHANGED <<used, armed, taken, late>>
      BY <1>3 DEF Answered
    <2>2. Cardinality(inflight') <= Cardinality(inflight) /\ Cardinality(inflight') \in Nat
      BY <1>0, <2>1, FS_Subset, FS_CardinalityType
    <2> QED BY <1>0, <2>1, <2>2
  <1>4. CASE used' = 0 /\ armed' = FALSE /\ inflight' = {} /\ taken' = 0 /\ late' = 0
    <2>1. Cardinality(inflight') = 0
      BY <1>4, FS_EmptySet, Zenon
    <2>2. taken' = 0 /\ late' = 0 /\ used' = 0 /\ armed' \in BOOLEAN /\ inflight' \subseteq Request \X Commands
      BY <1>4
    <2> QED BY <2>1, <2>2
  <1>5. CASE UNCHANGED rateVars
    BY <1>5 DEF rateVars
  <1> QED BY <1>1, <1>2, <1>3, <1>4, <1>5 DEF RateMove

LEMMA RateInvariant == ClimateSpec => []RateInv
  <1>1. ClimateInit => RateInv
    <2> SUFFICES ASSUME ClimateInit PROVE RateInv
      OBVIOUS
    <2>1. Cardinality(inflight) = 0
      BY FS_EmptySet, Zenon DEF ClimateInit
    <2>2. taken = 0 /\ late = 0 /\ used = 0 /\ armed \in BOOLEAN /\ inflight \subseteq Request \X Commands
      BY DEF ClimateInit
    <2> QED BY <2>1, <2>2 DEF RateInv, LimitIsExact, SpentSlotsComeBack, SlotsAreCounted, Limit
  <1>2. RateInv /\ [ClimateNext]_climateVars => RateInv'
    BY RateMoves, RateKept
  <1> QED BY <1>1, <1>2, PTL DEF ClimateSpec

\* A spent slot has a reset armed; a refunded slot is not charged; a window lets
\* no more commands through than its limit and the refunds it got for slots of
\* an earlier one (__rate_limit_reserve, __rate_limit_refund, __reset_requests).
THEOREM LimitStaysExact == ClimateSpec => []LimitIsExact
  <1>1. RateInv => LimitIsExact
    BY DEF RateInv
  <1> QED BY <1>1, RateInvariant, PTL

(***************************************************************************)
(* Climate: type correctness                                               *)
(***************************************************************************)

\* What ClimateTypeOK says beside the limit.
CommandTypes ==
    /\ shown \in Powers \cup {NoState, "pending"}
    /\ awaited \in Powers \cup {NoState}
    /\ request \in [Request -> [step : CommandSteps \cup {"idle", "stepping"},
                                from : Powers \cup {NoState}, value : Setpoints]]
    /\ setpoint \in Setpoints
    /\ dirty \in BOOLEAN /\ cut \in BOOLEAN

LEMMA InitCommandTypes == ClimateInit => CommandTypes
  <1> SUFFICES ASSUME ClimateInit PROVE CommandTypes
    OBVIOUS
  <1>1. dirty \in BOOLEAN /\ cut \in BOOLEAN
    BY Zenon DEF ClimateInit
  <1>2. request \in [Request -> [step : CommandSteps \cup {"idle", "stepping"},
                                 from : Powers \cup {NoState}, value : Setpoints]]
    BY ClimateAssumption DEF ClimateInit, Idle, Setpoints
  <1> QED BY <1>1, <1>2, Zenon DEF ClimateInit, CommandTypes

LEMMA StepCommandTypes == CommandTypes /\ [ClimateNext]_climateVars => CommandTypes'
  <1> SUFFICES ASSUME CommandTypes, [ClimateNext]_climateVars PROVE CommandTypes'
    OBVIOUS
  <1> USE ClimateAssumption
          DEF CommandTypes, lockVars, tempVars, Powers, CommandSteps, Idle, Setpoints
  <1>1. ASSUME NEW r \in Request, CommandStep(r) PROVE CommandTypes'
    <2>1. CASE Shown(r) BY <2>1 DEF Shown, Await
    <2>2. CASE Read(r) BY <2>2 DEF Read
    <2>3. CASE Pushed(r)
      <3>1. 0 \in 0..MaxSetpoint
        BY ClimateAssumption
      <3>2. [request[r] EXCEPT !.step = "posting", !.value = 0] \in
                [step : CommandSteps \cup {"idle", "stepping"}, from : Powers \cup {NoState}, value : Setpoints]
        BY <3>1
      <3>3. request' = [request EXCEPT ![r] = [request[r] EXCEPT !.step = "posting", !.value = 0]]
        BY <2>3 DEF Pushed
      <3> QED BY <2>3, <3>2, <3>3 DEF Pushed
    <2>4. CASE Accepted(r)
      <3>1. Other(request[r].from) \in Powers BY DEF Other
      <3> QED BY <2>4, <3>1 DEF Accepted
    <2>5. CASE Rejected(r) BY <2>5 DEF Rejected, Await
    <2>6. CASE Refunded(r) BY <2>6 DEF Refunded
    <2>7. CASE Stepped(r) BY <2>7 DEF Stepped
    <2> QED BY <1>1, <2>1, <2>2, <2>3, <2>4, <2>5, <2>6, <2>7 DEF CommandStep
  <1>2. ASSUME NEW r \in Request, Switch(r) PROVE CommandTypes'
    BY <1>2 DEF Switch, Other
  <1>3. ASSUME NEW r \in Request, Step(r) PROVE CommandTypes'
    BY <1>3 DEF Step, Await
  <1>4. ASSUME NEW r \in Request, Cut(r) PROVE CommandTypes'
    BY <1>4 DEF Cut
  <1>5. CASE ResetRequests BY <1>5 DEF ResetRequests
  <1>6. ASSUME NEW power \in Powers, PowerFrame(power) PROVE CommandTypes'
    BY <1>6 DEF PowerFrame
  <1>7. ASSUME NEW value \in Setpoints, SetpointFrame(value) PROVE CommandTypes'
    BY <1>7 DEF SetpointFrame
  <1>8. CASE LockExpires \/ FallAsleep BY <1>8 DEF LockExpires, FallAsleep
  <1>9. CASE UNCHANGED climateVars BY <1>9 DEF climateVars
  <1> QED BY <1>1, <1>2, <1>3, <1>4, <1>5, <1>6, <1>7, <1>8, <1>9 DEF ClimateNext

\* Every state of every behaviour is well typed.
THEOREM ClimateTypeCorrect == ClimateSpec => []ClimateTypeOK
  <1>1. RateInv /\ CommandTypes => ClimateTypeOK
    BY DEF RateInv, CommandTypes, ClimateTypeOK
  <1>2. ClimateSpec => []CommandTypes
    BY InitCommandTypes, StepCommandTypes, PTL DEF ClimateSpec
  <1> QED BY <1>1, <1>2, RateInvariant, PTL

(***************************************************************************)
(* Climate: the value lock                                                 *)
(***************************************************************************)

\* While a command's target is awaited, no frame, answer, expiry or other
\* command makes the button show anything but the placeholder or that target.
THEOREM StaleFramesHidden == ClimateSpec => []StaleFramesStayHidden
  <1>1. ClimateInit => StaleFramesStayHidden
    BY DEF ClimateInit, StaleFramesStayHidden
  <1>2. StaleFramesStayHidden /\ [ClimateNext]_climateVars => StaleFramesStayHidden'
    <2> SUFFICES ASSUME StaleFramesStayHidden, [ClimateNext]_climateVars PROVE StaleFramesStayHidden'
      OBVIOUS
    <2> USE DEF StaleFramesStayHidden, lockVars
    <2>1. ASSUME NEW r \in Request, CommandStep(r) PROVE StaleFramesStayHidden'
      BY <2>1 DEF CommandStep, Shown, Read, Pushed, Accepted, Rejected, Refunded, Stepped
    <2>2. ASSUME NEW r \in Request, Switch(r) \/ Step(r) \/ Cut(r) PROVE StaleFramesStayHidden'
      BY <2>2 DEF Switch, Step, Cut
    <2>3. CASE ResetRequests \/ LockExpires \/ FallAsleep
      BY <2>3 DEF ResetRequests, LockExpires, FallAsleep
    <2>4. ASSUME NEW power \in Powers, PowerFrame(power) PROVE StaleFramesStayHidden'
      BY <2>4 DEF PowerFrame
    <2>5. ASSUME NEW value \in Setpoints, SetpointFrame(value) PROVE StaleFramesStayHidden'
      BY <2>5 DEF SetpointFrame
    <2>6. CASE UNCHANGED climateVars BY <2>6 DEF climateVars
    <2> QED BY <2>1, <2>2, <2>3, <2>4, <2>5, <2>6 DEF ClimateNext
  <1> QED BY <1>1, <1>2, PTL DEF ClimateSpec

(***************************************************************************)
(* Instants                                                                *)
(***************************************************************************)

\* A set of instants has an earliest.
LEMMA HasLeast ==
    ASSUME NEW T, T \subseteq Nat, T # {}
    PROVE  \E m \in T : \A n \in T : m <= n
  <1>1. \E n \in T : \A m \in T : ~(<<m, n>> \in OpToRel(<, Nat))
    BY NatLessThanWellFounded, WFMin
  <1>2. \A m, n \in T : <<m, n>> \in OpToRel(<, Nat) <=> m < n
    BY DEF OpToRel
  <1> HIDE DEF OpToRel
  <1>3. \E n \in T : \A m \in T : ~(m < n)
    BY <1>1, <1>2, Zenon
  <1>4. \A m, n \in T : ~(m < n) <=> n <= m
    OBVIOUS
  <1> QED BY <1>3, <1>4

\* If none is after some instant, it has a latest.
LEMMA HasGreatest ==
    ASSUME NEW S, S \subseteq Nat, S # {}, NEW top \in Nat, \A n \in S : n <= top
    PROVE  \E m \in S : \A n \in S : n <= m
  <1> DEFINE Below == {top - n : n \in S}
  <1>1. Below \subseteq Nat /\ Below # {}
    <2>1. \A n \in S : top - n \in Nat
      OBVIOUS
    <2> QED BY <2>1
  <1>2. PICK b \in Below : \A c \in Below : b <= c
    BY <1>1, HasLeast
  <1>3. PICK m \in S : b = top - m
    BY <1>2
  <1>4. \A n \in S : top - m <= top - n
    BY <1>2, <1>3
  <1> QED BY <1>3, <1>4

\* What holds at lo, and from one number to the next, holds up to hi.
LEMMA StepByStep ==
    ASSUME NEW lo \in Int, NEW hi \in Int, NEW S,
           lo \in S, \A t \in lo .. hi - 1 : t \in S => t + 1 \in S
    PROVE  \A t \in lo .. hi : t \in S
  <1> DEFINE Misses == {n \in Nat : lo + n <= hi /\ lo + n \notin S}
  <1>1. SUFFICES ASSUME Misses # {} PROVE FALSE
    <2> SUFFICES ASSUME NEW t \in lo .. hi, t \notin S PROVE Misses # {}
      OBVIOUS
    <2>1. t - lo \in Nat /\ lo + (t - lo) = t
      OBVIOUS
    <2>2. t - lo \in Misses
      BY <2>1
    <2> QED BY <2>2
  <1>2. PICK m \in Misses : \A n \in Misses : m <= n
    BY <1>1, HasLeast
  <1>3. m # 0
    BY <1>2
  <1>4. m - 1 \in Nat /\ m - 1 \notin Misses
    BY <1>2, <1>3
  <1>5. lo + (m - 1) \in S /\ lo + (m - 1) \in lo .. hi - 1
    BY <1>2, <1>4
  <1>6. lo + (m - 1) + 1 \in S
    BY <1>5
  <1> QED BY <1>2, <1>6

\* A function may be defined from its value at the instant before.
IsStepwise(f, first, G, lo, hi, A) ==
    /\ f \in [lo .. hi -> A] /\ f[lo] = first
    /\ \A t \in lo .. hi : t # lo => f[t] = G[<<t, f[t - 1]>>]

LEMMA Recursion ==
    ASSUME NEW A, NEW first \in A, NEW lo \in Int, NEW hi \in Int, lo <= hi,
           NEW G \in [(lo .. hi) \X A -> A]
    PROVE  \E f : IsStepwise(f, first, G, lo, hi, A)
  <1> DEFINE Good(f, h) ==
                 f = [t \in lo .. h |-> IF t = lo THEN first ELSE G[<<t, f[t - 1]>>]]
             S == {h \in lo .. hi : \E f \in [lo .. h -> A] : Good(f, h)}
  <1>1. lo \in S
    <2> DEFINE f == [t \in lo .. lo |-> first]
    <2>1. f \in [lo .. lo -> A]
      OBVIOUS
    <2>2. Good(f, lo)
      OBVIOUS
    <2> HIDE DEF f, Good
    <2> QED BY <2>1, <2>2
  <1>2. ASSUME NEW h \in lo .. hi - 1, h \in S
        PROVE  h + 1 \in S
    <2>1. PICK f \in [lo .. h -> A] : Good(f, h)
      BY <1>2
    <2> DEFINE g == [t \in lo .. h + 1 |-> IF t = h + 1 THEN G[<<t, f[h]>>] ELSE f[t]]
    <2>2. g \in [lo .. h + 1 -> A]
      BY <2>1
    <2>3. ASSUME NEW t \in lo .. h + 1
          PROVE  g[t] = IF t = lo THEN first ELSE G[<<t, g[t - 1]>>]
      <3>1. CASE t = h + 1
        BY <3>1
      <3>2. CASE t \in lo .. h
        <4>1. f[t] = IF t = lo THEN first ELSE G[<<t, f[t - 1]>>]
          BY <2>1, <3>2
        <4>2. g[t] = f[t]
          BY <3>2
        <4>3. t # lo => t - 1 \in lo .. h /\ t - 1 # h + 1
          BY <3>2
        <4>4. t # lo => g[t - 1] = f[t - 1]
          BY <4>3
        <4> HIDE DEF g
        <4> QED BY <4>1, <4>2, <4>4
      <3> QED BY <3>1, <3>2
    <2>4. Good(g, h + 1)
      <3> HIDE DEF g
      <3> QED BY <2>2, <2>3
    <2> HIDE DEF g, Good
    <2> QED BY <2>2, <2>4
  <1> HIDE DEF Good
  <1>3. hi \in S
    <2> HIDE DEF S
    <2>1. \A t \in lo .. hi : t \in S
      BY <1>1, <1>2, StepByStep
    <2> QED BY <2>1
  <1>4. PICK f \in [lo .. hi -> A] : Good(f, hi)
    BY <1>3
  <1>5. f[lo] = first /\ \A t \in lo .. hi : t # lo => f[t] = G[<<t, f[t - 1]>>]
    BY <1>4 DEF Good
  <1>6. IsStepwise(f, first, G, lo, hi, A)
    BY <1>5 DEF IsStepwise
  <1> QED BY <1>6

(***************************************************************************)
(* Histories and the sums of their steps                                   *)
(***************************************************************************)

\* What a read returns: points of the time there is, one for an instant.
History(points) ==
    /\ \A p \in points : p.at \in 0 .. Horizon
    /\ \A p, q \in points : p.at = q.at => p = q

\* The samples of a counter.
Series(points) == History(points) /\ \A p \in points : p.value \in Nat

LEMMA PartOfHistory ==
    ASSUME NEW P, NEW Q, Q \subseteq P
    PROVE  (History(P) => History(Q)) /\ (Series(P) => Series(Q))
  BY DEF History, Series

LEMMA LatestIs ==
    ASSUME NEW P, History(P), P # {}
    PROVE  Latest(P) \in P /\ \A q \in P : q.at <= Latest(P).at
  <1>0. Horizon \in Nat
    BY HistoryAssumption
  <1>1. Instants(P) \subseteq 0 .. Horizon /\ Instants(P) # {}
    BY DEF History, Instants
  <1>2. Instants(P) \subseteq Nat /\ \A n \in Instants(P) : n <= Horizon
    BY <1>0, <1>1
  <1>3. \E m \in Instants(P) : \A n \in Instants(P) : n <= m
    BY <1>0, <1>1, <1>2, HasGreatest
  <1>4. \E p \in P : \A q \in P : q.at <= p.at
    BY <1>3 DEF Instants
  <1> QED BY <1>4 DEF Latest

LEMMA EarliestIs ==
    ASSUME NEW P, History(P), P # {}
    PROVE  Earliest(P) \in P /\ \A q \in P : Earliest(P).at <= q.at
  <1>1. Instants(P) \subseteq 0 .. Horizon /\ Instants(P) # {}
    BY DEF History, Instants
  <1>2. Instants(P) \subseteq Nat
    BY <1>1, HistoryAssumption
  <1>3. \E m \in Instants(P) : \A n \in Instants(P) : m <= n
    BY <1>1, <1>2, HasLeast
  <1>4. \E p \in P : \A q \in P : p.at <= q.at
    BY <1>3 DEF Instants
  <1> QED BY <1>4 DEF Earliest

LEMMA LatestUnique ==
    ASSUME NEW P, History(P), NEW p \in P, \A q \in P : q.at <= p.at
    PROVE  Latest(P) = p
  <1>1. Latest(P) \in P /\ p.at <= Latest(P).at /\ Latest(P).at <= p.at
    BY LatestIs
  <1>2. p.at \in Int /\ Latest(P).at \in Int
    BY <1>1, HistoryAssumption DEF History
  <1>3. Latest(P).at = p.at
    BY <1>1, <1>2
  <1> QED BY <1>1, <1>3 DEF History

LEMMA AtIs ==
    ASSUME NEW P, History(P), NEW t
    PROVE  /\ t \in Instants(P) => At(P, t) \in P /\ At(P, t).at = t
           /\ \A p \in P : p.at = t => t \in Instants(P) /\ At(P, t) = p
  BY DEF History, Instants, At

\* The points up to an instant are those before it and the one at it.
LEMMA BeforeNext ==
    ASSUME NEW P, History(P), NEW t \in Int
    PROVE  /\ t \notin Instants(P) => Before(P, t + 1) = Before(P, t)
           /\ t \in Instants(P) => /\ Before(P, t + 1) # {}
                                   /\ Before(P, t + 1) = Before(P, t) \cup {At(P, t)}
                                   /\ Latest(Before(P, t + 1)) = At(P, t)
  <1>0. \A p \in P : p.at \in Int
    BY HistoryAssumption DEF History
  <1>1. ASSUME t \notin Instants(P) PROVE Before(P, t + 1) = Before(P, t)
    <2>1. \A p \in P : p.at # t
      BY <1>1 DEF Instants
    <2> QED BY <1>0, <2>1 DEF Before
  <1>2. ASSUME t \in Instants(P)
        PROVE  /\ Before(P, t + 1) # {}
               /\ Before(P, t + 1) = Before(P, t) \cup {At(P, t)}
               /\ Latest(Before(P, t + 1)) = At(P, t)
    <2>1. At(P, t) \in P /\ At(P, t).at = t /\ \A p \in P : p.at = t => p = At(P, t)
      BY <1>2, AtIs
    <2>2. Before(P, t + 1) = Before(P, t) \cup {At(P, t)}
      BY <1>0, <2>1 DEF Before
    <2>3. At(P, t) \in Before(P, t + 1) /\ \A q \in Before(P, t + 1) : q.at <= At(P, t).at
      BY <1>0, <2>1 DEF Before
    <2>4. History(Before(P, t + 1))
      BY PartOfHistory DEF Before
    <2> QED BY <2>2, <2>3, <2>4, LatestUnique
  <1> QED BY <1>1, <1>2

LEMMA BeforeIsHistory ==
    ASSUME NEW P, NEW t
    PROVE  /\ Before(P, t) \subseteq P
           /\ History(P) => History(Before(P, t))
           /\ Series(P) => Series(Before(P, t))
  BY PartOfHistory DEF Before

LEMMA StepUpIs ==
    ASSUME NEW P, Series(P), NEW t \in Int
    PROVE  /\ StepUp(P, t) \in Nat
           /\ t \notin Instants(P) \/ Before(P, t) = {} => StepUp(P, t) = 0
           /\ t \in Instants(P) /\ Before(P, t) # {}
              => /\ At(P, t).value \in Nat /\ Latest(Before(P, t)).value \in Nat
                 /\ StepUp(P, t) >= At(P, t).value - Latest(Before(P, t)).value
                 /\ \/ StepUp(P, t) = 0
                    \/ StepUp(P, t) = At(P, t).value - Latest(Before(P, t)).value
  <1>1. ASSUME t \in Instants(P), Before(P, t) # {}
        PROVE  At(P, t).value \in Nat /\ Latest(Before(P, t)).value \in Nat
    <2>1. At(P, t) \in P
      BY <1>1, AtIs DEF Series
    <2>2. Latest(Before(P, t)) \in P
      BY <1>1, BeforeIsHistory, LatestIs DEF Series
    <2> QED BY <2>1, <2>2 DEF Series
  <1> QED BY <1>1 DEF StepUp

\* The sum, instant by instant.
IsSum(P, times, sum) ==
    /\ sum[0] = 0 /\ \A t \in 0 .. Horizon : sum[t] \in Nat
    /\ \A t \in 1 .. Horizon :
          /\ t \in times => sum[t] = sum[t - 1] + StepUp(P, t)
          /\ t \notin times => sum[t] = sum[t - 1]
    /\ Rise(P, times) = sum[Horizon]

LEMMA RiseIs ==
    ASSUME NEW P, Series(P), NEW times
    PROVE  \E sum : IsSum(P, times, sum)
  <1>0. Horizon \in Nat
    BY HistoryAssumption
  <1> DEFINE up(t) == IF t \in times THEN StepUp(P, t) ELSE 0
             G == [x \in (0 .. Horizon) \X Nat |-> x[2] + up(x[1])]
             Def(f) == f = [t \in 0 .. Horizon |-> IF t = 0 THEN 0 ELSE f[t - 1] + up(t)]
             sum == CHOOSE f : Def(f)
  <1>1. \A t \in 0 .. Horizon : up(t) \in Nat
    BY StepUpIs
  <1> HIDE DEF up
  <1>2. G \in [(0 .. Horizon) \X Nat -> Nat]
    BY <1>1
  <1>3. \A t \in 0 .. Horizon, n \in Nat : G[<<t, n>>] = n + up(t)
    OBVIOUS
  <1> HIDE DEF G
  <1>4. PICK f : IsStepwise(f, 0, G, 0, Horizon, Nat)
    <2>1. 0 \in Int /\ Horizon \in Int /\ 0 <= Horizon /\ 0 \in Nat
      BY <1>0
    <2> QED BY <1>2, <2>1, Recursion
  <1>5. ASSUME NEW t \in 0 .. Horizon
        PROVE  f[t] = IF t = 0 THEN 0 ELSE f[t - 1] + up(t)
    <2>1. ASSUME t # 0 PROVE f[t] = f[t - 1] + up(t)
      <3>1. t - 1 \in 0 .. Horizon
        BY <1>0, <2>1
      <3>2. f[t - 1] \in Nat
        BY <1>4, <3>1 DEF IsStepwise
      <3>3. f[t] = G[<<t, f[t - 1]>>]
        BY <1>4, <2>1 DEF IsStepwise
      <3> QED BY <1>3, <3>2, <3>3
    <2> QED BY <1>4, <2>1 DEF IsStepwise
  <1>6. Def(f)
    BY <1>4, <1>5 DEF IsStepwise
  <1> HIDE DEF Def
  <1>7. Def(sum)
    BY <1>6
  <1>8. Rise(P, times) = sum[Horizon]
    BY DEF Rise, Def, up
  <1> HIDE DEF sum
  <1>9. \A t \in 0 .. Horizon : sum[t] = IF t = 0 THEN 0 ELSE sum[t - 1] + up(t)
    BY <1>7 DEF Def
  <1>10. sum[0] = 0
    BY <1>0, <1>9
  <1>11. \A t \in 1 .. Horizon : sum[t] = sum[t - 1] + up(t)
    BY <1>0, <1>9
  <1>12. \A t \in 0 .. Horizon : sum[t] \in Nat
    <2> DEFINE S == {t \in 0 .. Horizon : sum[t] \in Nat}
    <2>1. 0 \in S
      BY <1>0, <1>10
    <2>2. ASSUME NEW t \in 0 .. Horizon - 1, t \in S PROVE t + 1 \in S
      <3>1. t + 1 \in 1 .. Horizon /\ (t + 1) - 1 = t
        BY <1>0
      <3>2. sum[t + 1] = sum[t] + up(t + 1)
        BY <1>11, <3>1
      <3>3. up(t + 1) \in Nat
        BY <1>1, <3>1, <1>0
      <3> QED BY <2>2, <3>1, <3>2, <3>3
    <2> HIDE DEF S
    <2>3. \A t \in 0 .. Horizon : t \in S
      BY <1>0, <2>1, <2>2, StepByStep
    <2> QED BY <2>3 DEF S
  <1>13. IsSum(P, times, sum)
    <2>1. \A t \in 1 .. Horizon :
             /\ t \in times => sum[t] = sum[t - 1] + StepUp(P, t)
             /\ t \notin times => sum[t] = sum[t - 1]
      <3> SUFFICES ASSUME NEW t \in 1 .. Horizon
                   PROVE  /\ t \in times => sum[t] = sum[t - 1] + StepUp(P, t)
                          /\ t \notin times => sum[t] = sum[t - 1]
        OBVIOUS
      <3>1. sum[t] = sum[t - 1] + up(t) /\ sum[t - 1] \in Nat
        BY <1>0, <1>11, <1>12
      <3> QED BY <3>1 DEF up
    <2> QED BY <1>8, <1>10, <1>12, <2>1 DEF IsSum
  <1> QED BY <1>13

LEMMA RiseIsNat ==
    ASSUME NEW P, Series(P), NEW times
    PROVE  Rise(P, times) \in Nat
  <1>1. PICK sum : IsSum(P, times, sum)
    BY RiseIs
  <1> QED BY <1>1, HistoryAssumption DEF IsSum

\* Only the instants of samples matter.
LEMMA RiseSame ==
    ASSUME NEW P, Series(P), NEW times, NEW others,
           \A t \in Instants(P) : t \in times <=> t \in others
    PROVE  Rise(P, times) = Rise(P, others)
  <1>1. PICK sum : IsSum(P, times, sum)
    BY RiseIs
  <1>2. PICK ot : IsSum(P, others, ot)
    BY RiseIs
  <1> DEFINE S == {t \in 0 .. Horizon : sum[t] = ot[t]}
  <1>3. 0 \in S
    BY <1>1, <1>2, HistoryAssumption DEF IsSum
  <1>4. ASSUME NEW t \in 0 .. Horizon - 1, t \in S PROVE t + 1 \in S
    <2>1. t + 1 \in 1 .. Horizon /\ (t + 1) - 1 = t /\ t \in 0 .. Horizon
      BY HistoryAssumption
    <2>2. sum[t] = ot[t] /\ sum[t] \in Nat
      BY <1>1, <1>4, <2>1 DEF IsSum
    <2>3. t + 1 \notin Instants(P) => StepUp(P, t + 1) = 0
      BY StepUpIs
    <2>4. t + 1 \in times => sum[t + 1] = sum[t] + StepUp(P, t + 1)
      BY <1>1, <2>1 DEF IsSum
    <2>5. t + 1 \notin times => sum[t + 1] = sum[t]
      BY <1>1, <2>1 DEF IsSum
    <2>6. t + 1 \in others => ot[t + 1] = ot[t] + StepUp(P, t + 1)
      BY <1>2, <2>1 DEF IsSum
    <2>7. t + 1 \notin others => ot[t + 1] = ot[t]
      BY <1>2, <2>1 DEF IsSum
    <2>8. sum[t + 1] = ot[t + 1]
      BY <2>2, <2>3, <2>4, <2>5, <2>6, <2>7
    <2> QED BY <2>1, <2>8, HistoryAssumption
  <1> HIDE DEF S
  <1>5. \A t \in 0 .. Horizon : t \in S
    <2>1. 0 \in Int /\ Horizon \in Int
      BY HistoryAssumption
    <2> QED BY <1>3, <1>4, <2>1, StepByStep
  <1>6. sum[Horizon] = ot[Horizon]
    BY <1>5, HistoryAssumption DEF S
  <1> QED BY <1>1, <1>2, <1>6 DEF IsSum

\* The sum over two sets of times is that over both.
LEMMA RiseSplits ==
    ASSUME NEW P, Series(P), NEW times, NEW others, times \cap others = {}
    PROVE  Rise(P, times) + Rise(P, others) = Rise(P, times \cup others)
  <1>1. PICK sum : IsSum(P, times, sum)
    BY RiseIs
  <1>2. PICK ot : IsSum(P, others, ot)
    BY RiseIs
  <1>3. PICK both : IsSum(P, times \cup others, both)
    BY RiseIs
  <1> DEFINE S == {t \in 0 .. Horizon : sum[t] + ot[t] = both[t]}
  <1>4. 0 \in S
    BY <1>1, <1>2, <1>3, HistoryAssumption DEF IsSum
  <1>5. ASSUME NEW t \in 0 .. Horizon - 1, t \in S PROVE t + 1 \in S
    <2>1. t + 1 \in 1 .. Horizon /\ (t + 1) - 1 = t /\ t \in 0 .. Horizon
      BY HistoryAssumption
    <2>2. sum[t] + ot[t] = both[t] /\ sum[t] \in Nat /\ ot[t] \in Nat /\ both[t] \in Nat
      BY <1>1, <1>2, <1>3, <1>5, <2>1 DEF IsSum
    <2>3. StepUp(P, t + 1) \in Nat
      BY StepUpIs
    <2>4. /\ t + 1 \in times => sum[t + 1] = sum[t] + StepUp(P, t + 1)
          /\ t + 1 \notin times => sum[t + 1] = sum[t]
      BY <1>1, <2>1 DEF IsSum
    <2>5. /\ t + 1 \in others => ot[t + 1] = ot[t] + StepUp(P, t + 1)
          /\ t + 1 \notin others => ot[t + 1] = ot[t]
      BY <1>2, <2>1 DEF IsSum
    <2>6. /\ t + 1 \in times \cup others => both[t + 1] = both[t] + StepUp(P, t + 1)
          /\ t + 1 \notin times \cup others => both[t + 1] = both[t]
      BY <1>3, <2>1 DEF IsSum
    <2>7. sum[t + 1] + ot[t + 1] = both[t + 1]
      BY <2>2, <2>3, <2>4, <2>5, <2>6
    <2> QED BY <2>1, <2>7, HistoryAssumption
  <1> HIDE DEF S
  <1>6. \A t \in 0 .. Horizon : t \in S
    <2>1. 0 \in Int /\ Horizon \in Int
      BY HistoryAssumption
    <2> QED BY <1>4, <1>5, <2>1, StepByStep
  <1>7. sum[Horizon] + ot[Horizon] = both[Horizon]
    BY <1>6, HistoryAssumption DEF S
  <1> QED BY <1>1, <1>2, <1>3, <1>7 DEF IsSum

\* If between any two samples the counter goes up by no more than D does, the sum of the
\* steps is no more than D goes up by from a to b.
LEMMA RiseBound ==
    ASSUME NEW P, Series(P), NEW times, NEW D, NEW a \in Nat, NEW b \in Nat,
           a <= b,
           \A t \in a .. b : D[t] \in Nat,
           \A t, u \in a .. b : t <= u => D[t] <= D[u],
           \A p \in P : p.at \in a .. b,
           \A p, q \in P : p.at <= q.at => q.value - p.value <= D[q.at] - D[p.at]
    PROVE  Rise(P, times) <= D[b] - D[a]
  <1>1. PICK sum : IsSum(P, times, sum)
    BY RiseIs
  <1> DEFINE Last(t) == Latest(Before(P, t + 1))
             Fits(t) == IF Before(P, t + 1) = {} THEN sum[t] = 0
                        ELSE sum[t] <= D[Last(t).at] - D[a]
             S == {t \in 0 .. Horizon : Fits(t)}
  <1>0. Horizon \in Nat
    BY HistoryAssumption
  <1>2. \A t \in Int : Before(P, t) # {} =>
            /\ Latest(Before(P, t)) \in P
            /\ \A q \in Before(P, t) : q.at <= Latest(Before(P, t)).at
            /\ Latest(Before(P, t)).at < t
    <2> SUFFICES ASSUME NEW t \in Int, Before(P, t) # {}
                 PROVE  /\ Latest(Before(P, t)) \in P
                        /\ \A q \in Before(P, t) : q.at <= Latest(Before(P, t)).at
                        /\ Latest(Before(P, t)).at < t
      OBVIOUS
    <2>1. History(Before(P, t))
      BY BeforeIsHistory DEF Series
    <2>2. /\ Latest(Before(P, t)) \in Before(P, t)
          /\ \A q \in Before(P, t) : q.at <= Latest(Before(P, t)).at
      BY <2>1, LatestIs
    <2> QED BY <2>2 DEF Before
  <1>3. \A p \in P : p.at \in Int /\ p.at \in a .. b /\ D[p.at] \in Nat /\ D[a] <= D[p.at] /\ D[p.at] <= D[b]
    <2> SUFFICES ASSUME NEW p \in P
                 PROVE  p.at \in Int /\ p.at \in a .. b /\ D[p.at] \in Nat /\ D[a] <= D[p.at] /\ D[p.at] <= D[b]
      OBVIOUS
    <2>1. p.at \in a .. b /\ a \in a .. b /\ b \in a .. b
      OBVIOUS
    <2> QED BY <2>1
  <1>4. 0 \in S
    <2>1. sum[0] = 0 /\ D[a] \in Nat
      BY <1>1 DEF IsSum
    <2>2. ASSUME Before(P, 0 + 1) # {} PROVE D[Last(0).at] - D[a] >= 0
      <3>1. Last(0) \in P
        BY <1>2, <2>2
      <3> QED BY <1>3, <2>1, <3>1
    <2> QED BY <1>0, <2>1, <2>2
  <1>5. ASSUME NEW t \in 0 .. Horizon - 1, t \in S PROVE t + 1 \in S
    <2>1. t + 1 \in 1 .. Horizon /\ (t + 1) - 1 = t /\ t \in 0 .. Horizon /\ t + 1 \in Int
      BY <1>0
    <2>2. Fits(t) /\ sum[t] \in Nat
      BY <1>1, <1>5, <2>1 DEF IsSum
    <2>3. /\ t + 1 \in times => sum[t + 1] = sum[t] + StepUp(P, t + 1)
          /\ t + 1 \notin times => sum[t + 1] = sum[t]
      BY <1>1, <2>1 DEF IsSum
    <2>4. CASE t + 1 \notin Instants(P)
      <3>1. StepUp(P, t + 1) = 0
        BY <2>1, <2>4, StepUpIs
      <3>2. Before(P, t + 1 + 1) = Before(P, t + 1)
        BY <2>1, <2>4, BeforeNext DEF Series
      <3>3. sum[t + 1] = sum[t]
        BY <2>2, <2>3, <3>1
      <3> QED BY <2>1, <2>2, <3>2, <3>3
    <2>5. CASE t + 1 \in Instants(P)
      <3>1. /\ Before(P, t + 1 + 1) # {}
            /\ Last(t + 1) = At(P, t + 1)
        BY <2>1, <2>5, BeforeNext DEF Series
      <3>2. At(P, t + 1) \in P /\ At(P, t + 1).at = t + 1
        BY <2>5, AtIs DEF Series
      <3>3. D[t + 1] \in Nat /\ D[a] <= D[t + 1] /\ D[a] \in Nat
        BY <1>3, <3>2
      <3>4. CASE Before(P, t + 1) = {}
        <4>1. StepUp(P, t + 1) = 0
          BY <2>1, <3>4, StepUpIs
        <4>2. sum[t + 1] = 0
          BY <2>2, <2>3, <3>4, <4>1
        <4>3. sum[t + 1] <= D[Last(t + 1).at] - D[a]
          BY <3>1, <3>2, <3>3, <4>2
        <4> QED BY <2>1, <3>1, <4>3
      <3>5. CASE Before(P, t + 1) # {}
        <4>1. Last(t) \in P /\ Last(t).at < t + 1
          BY <1>2, <2>1, <3>5
        <4>2. D[Last(t).at] \in Nat /\ D[Last(t).at] <= D[t + 1]
          <5>1. Last(t).at \in a .. b /\ t + 1 \in a .. b
            BY <1>3, <3>2, <4>1
          <5> QED BY <1>3, <4>1, <5>1
        <4>3. At(P, t + 1).value - Last(t).value <= D[t + 1] - D[Last(t).at]
          <5>1. Last(t).at <= At(P, t + 1).at
            BY <1>3, <3>2, <4>1
          <5> QED BY <3>2, <4>1, <5>1
        <4>4. /\ At(P, t + 1).value \in Nat /\ Last(t).value \in Nat
              /\ \/ StepUp(P, t + 1) = 0
                 \/ StepUp(P, t + 1) = At(P, t + 1).value - Last(t).value
          BY <2>1, <2>5, <3>5, StepUpIs
        <4>5. sum[t] <= D[Last(t).at] - D[a]
          BY <2>2, <3>5
        <4> HIDE DEF Last
        <4>6. sum[t + 1] <= D[t + 1] - D[a]
          BY <2>2, <2>3, <3>3, <4>2, <4>3, <4>4, <4>5
        <4> USE DEF Last
        <4>7. sum[t + 1] <= D[Last(t + 1).at] - D[a]
          BY <3>1, <3>2, <4>6
        <4> QED BY <2>1, <3>1, <4>7
      <3> QED BY <3>4, <3>5
    <2> QED BY <2>4, <2>5
  <1> HIDE DEF S
  <1>6. \A t \in 0 .. Horizon : t \in S
    <2>1. 0 \in Int /\ Horizon \in Int
      BY <1>0
    <2> QED BY <1>4, <1>5, <2>1, StepByStep
  <1>7. Fits(Horizon)
    BY <1>0, <1>6 DEF S
  <1>8. sum[Horizon] <= D[b] - D[a]
    <2>1. D[a] \in Nat /\ D[b] \in Nat /\ D[a] <= D[b]
      OBVIOUS
    <2>2. sum[Horizon] \in Nat
      BY <1>0, <1>1 DEF IsSum
    <2>3. CASE Before(P, Horizon + 1) = {}
      BY <1>7, <2>1, <2>3
    <2>4. CASE Before(P, Horizon + 1) # {}
      <3>1. Last(Horizon) \in P
        BY <1>0, <1>2, <2>4
      <3>2. D[Last(Horizon).at] \in Nat /\ D[Last(Horizon).at] <= D[b]
        BY <1>3, <3>1
      <3> QED BY <1>7, <2>1, <2>2, <2>4, <3>2
    <2> QED BY <2>3, <2>4
  <1> QED BY <1>1, <1>8 DEF IsSum

LEMMA BeforePart ==
    ASSUME NEW A, NEW B, A \subseteq B, NEW t
    PROVE  Before(A, t) \subseteq Before(B, t)
  BY DEF Before

\* More samples tell no less: what goes up between two of them goes up in steps between those
\* in the middle.
LEMMA RiseGrows ==
    ASSUME NEW A, NEW B, A \subseteq B, Series(B)
    PROVE  Rise(A, 0 .. Horizon) <= Rise(B, 0 .. Horizon)
  <1>0. Horizon \in Nat /\ Series(A) /\ History(A) /\ History(B)
    BY HistoryAssumption, PartOfHistory DEF Series
  <1>1. PICK sa : IsSum(A, 0 .. Horizon, sa)
    BY <1>0, RiseIs
  <1>2. PICK sb : IsSum(B, 0 .. Horizon, sb)
    BY RiseIs
  <1> DEFINE LA(t) == Latest(Before(A, t + 1)).value
             LB(t) == Latest(Before(B, t + 1)).value
             Fits(t) == IF Before(A, t + 1) = {} THEN sa[t] = 0
                        ELSE sb[t] >= sa[t] /\ sb[t] - sa[t] >= LB(t) - LA(t)
             S == {t \in 0 .. Horizon : Fits(t)}
  <1>3. ASSUME NEW t \in Int, Before(A, t) # {}
        PROVE  /\ Before(B, t) # {}
               /\ Latest(Before(A, t)).value \in Nat /\ Latest(Before(B, t)).value \in Nat
    <2>1. Before(B, t) # {}
      BY <1>3, BeforePart
    <2>2. Latest(Before(A, t)) \in A
      BY <1>0, <1>3, BeforeIsHistory, LatestIs
    <2>3. Latest(Before(B, t)) \in B
      BY <1>0, <2>1, BeforeIsHistory, LatestIs
    <2> QED BY <2>1, <2>2, <2>3 DEF Series
  <1>4. ASSUME NEW t \in 0 .. Horizon, t \in Instants(A)
        PROVE  t \in Instants(B) /\ At(A, t) = At(B, t)
    <2>1. At(A, t) \in A /\ At(A, t).at = t
      BY <1>0, <1>4, AtIs
    <2> QED BY <1>0, <2>1, AtIs
  <1>5. 0 \in S
    <2>1. sa[0] = 0 /\ sb[0] = 0
      BY <1>1, <1>2 DEF IsSum
    <2>2. Before(A, 0) = {} /\ Before(B, 0) = {}
      BY <1>0 DEF Before, History
    <2>3. CASE 0 \in Instants(A)
      <3>1. Latest(Before(A, 0 + 1)) = At(A, 0) /\ Latest(Before(B, 0 + 1)) = At(B, 0)
        BY <1>0, <1>4, <2>3, BeforeNext
      <3>2. LA(0) = LB(0)
        BY <1>0, <1>4, <2>3, <3>1
      <3>3. Before(A, 0 + 1) # {} => LA(0) \in Nat
        BY <1>3
      <3> QED BY <1>0, <2>1, <3>2, <3>3
    <2>4. CASE 0 \notin Instants(A)
      <3>1. Before(A, 0 + 1) = {}
        BY <1>0, <2>2, <2>4, BeforeNext
      <3> QED BY <1>0, <2>1, <3>1
    <2> QED BY <2>3, <2>4
  <1>6. ASSUME NEW t \in 0 .. Horizon - 1, t \in S PROVE t + 1 \in S
    <2>1. t + 1 \in 1 .. Horizon /\ (t + 1) - 1 = t /\ t \in 0 .. Horizon /\ t + 1 \in Int /\ t + 1 \in 0 .. Horizon
      BY <1>0
    <2>2. Fits(t) /\ sa[t] \in Nat /\ sb[t] \in Nat
      BY <1>1, <1>2, <1>6, <2>1 DEF IsSum
    <2>3. sa[t + 1] = sa[t] + StepUp(A, t + 1)
      BY <1>1, <2>1 DEF IsSum
    <2>4. sb[t + 1] = sb[t] + StepUp(B, t + 1)
      BY <1>2, <2>1 DEF IsSum
    <2>5. StepUp(A, t + 1) \in Nat /\ StepUp(B, t + 1) \in Nat
      BY <1>0, <2>1, StepUpIs
    <2>6. CASE t + 1 \in Instants(A)
      <3>1. t + 1 \in Instants(B) /\ At(A, t + 1) = At(B, t + 1)
        BY <1>4, <2>1, <2>6
      <3>2. LA(t + 1) = At(B, t + 1).value /\ LB(t + 1) = At(B, t + 1).value /\ Before(A, t + 1 + 1) # {}
        BY <1>0, <2>1, <2>6, <3>1, BeforeNext
      <3>3. At(B, t + 1).value \in Nat
        BY <1>0, <3>1, AtIs DEF Series
      <3>4. CASE Before(A, t + 1) = {}
        <4>1. StepUp(A, t + 1) = 0
          BY <1>0, <2>1, <3>4, StepUpIs
        <4>2. sa[t + 1] = 0
          BY <2>2, <2>3, <3>4, <4>1
        <4>3. sb[t + 1] >= sa[t + 1] /\ sb[t + 1] - sa[t + 1] >= 0
          BY <2>2, <2>4, <2>5, <4>2
        <4> QED BY <2>1, <3>2, <3>3, <4>3
      <3>5. CASE Before(A, t + 1) # {}
        <4> DEFINE a == LA(t)
                   b == LB(t)
                   v == At(B, t + 1).value
        <4>1. Before(B, t + 1) # {} /\ a \in Nat /\ b \in Nat
          BY <1>3, <2>1, <3>5
        <4>2. sb[t] >= sa[t] /\ sb[t] - sa[t] >= b - a
          BY <2>2, <3>5
        <4>3. StepUp(A, t + 1) = 0 \/ StepUp(A, t + 1) = v - a
          BY <1>0, <2>1, <2>6, <3>1, <3>5, StepUpIs
        <4>4. StepUp(B, t + 1) >= v - b
          BY <1>0, <2>1, <3>1, <4>1, StepUpIs
        <4> HIDE DEF a, b, v
        <4>5. sb[t + 1] >= sa[t + 1] /\ sb[t + 1] - sa[t + 1] >= 0
          BY <2>2, <2>3, <2>4, <2>5, <3>3, <4>1, <4>2, <4>3, <4>4 DEF v
        <4> QED BY <2>1, <3>2, <3>3, <4>5
      <3> QED BY <3>4, <3>5
    <2>7. CASE t + 1 \notin Instants(A)
      <3>1. StepUp(A, t + 1) = 0 /\ Before(A, t + 1 + 1) = Before(A, t + 1)
        BY <1>0, <2>1, <2>7, StepUpIs, BeforeNext
      <3>2. sa[t + 1] = sa[t] /\ LA(t + 1) = LA(t)
        BY <2>2, <2>3, <3>1
      <3>3. CASE Before(A, t + 1) = {}
        BY <2>1, <2>2, <3>1, <3>2, <3>3
      <3>4. CASE Before(A, t + 1) # {}
        <4>1. Before(B, t + 1) # {} /\ LA(t) \in Nat /\ LB(t) \in Nat
          BY <1>3, <2>1, <3>4
        <4>2. sb[t] >= sa[t] /\ sb[t] - sa[t] >= LB(t) - LA(t)
          BY <2>2, <3>4
        <4>3. LB(t + 1) \in Nat /\ StepUp(B, t + 1) >= LB(t + 1) - LB(t)
          <5>1. CASE t + 1 \in Instants(B)
            <6>1. LB(t + 1) = At(B, t + 1).value
              BY <1>0, <2>1, <5>1, BeforeNext
            <6> QED BY <2>1, <4>1, <5>1, <6>1, StepUpIs
          <5>2. CASE t + 1 \notin Instants(B)
            <6>1. LB(t + 1) = LB(t)
              BY <1>0, <2>1, <5>2, BeforeNext
            <6> QED BY <2>5, <4>1, <6>1
          <5> QED BY <5>1, <5>2
        <4> HIDE DEF LA, LB
        <4>4. sb[t + 1] >= sa[t + 1] /\ sb[t + 1] - sa[t + 1] >= LB(t + 1) - LA(t + 1)
          BY <2>2, <2>4, <2>5, <3>2, <4>1, <4>2, <4>3
        <4> QED BY <2>1, <3>1, <3>4, <4>4
      <3> QED BY <3>3, <3>4
    <2> QED BY <2>6, <2>7
  <1> HIDE DEF S
  <1>7. \A t \in 0 .. Horizon : t \in S
    <2>1. 0 \in Int /\ Horizon \in Int
      BY <1>0
    <2> QED BY <1>5, <1>6, <2>1, StepByStep
  <1>8. sa[Horizon] <= sb[Horizon]
    <2>1. Fits(Horizon) /\ sa[Horizon] \in Nat /\ sb[Horizon] \in Nat
      BY <1>0, <1>1, <1>2, <1>7 DEF S, IsSum
    <2> QED BY <2>1
  <1> QED BY <1>1, <1>2, <1>8 DEF IsSum

(***************************************************************************)
(* Amounts                                                                 *)
(***************************************************************************)

\* The odometer does not go back.
Rising(P) == \A p, q \in P : p.at <= q.at => p.value <= q.value

LEMMA DeltaIs ==
    ASSUME NEW P, Series(P), Rising(P)
    PROVE  /\ P = {} => Delta(P) = NaN
           /\ P # {} => /\ Delta(P) \in Nat
                        /\ \A p, q \in P : q.value - p.value <= Delta(P)
                        /\ \E p, q \in P : p.at <= q.at /\ Delta(P) = q.value - p.value
  <1> SUFFICES ASSUME P # {}
               PROVE  /\ Delta(P) \in Nat
                      /\ \A p, q \in P : q.value - p.value <= Delta(P)
                      /\ \E p, q \in P : p.at <= q.at /\ Delta(P) = q.value - p.value
    BY DEF Delta
  <1>1. Latest(P) \in P /\ \A q \in P : q.at <= Latest(P).at
    BY LatestIs DEF Series
  <1>2. Earliest(P) \in P /\ \A q \in P : Earliest(P).at <= q.at
    BY EarliestIs DEF Series
  <1>3. Delta(P) = Latest(P).value - Earliest(P).value
    BY DEF Delta
  <1>4. \A p \in P : Earliest(P).value <= p.value /\ p.value <= Latest(P).value /\ p.value \in Nat
    BY <1>1, <1>2 DEF Rising, Series
  <1> QED BY <1>1, <1>2, <1>3, <1>4

\* What an amount is computed from: samples, of an odometer that does not go back.
Meter(P) == Series(P) /\ (kind = "trip" => Rising(P))

LEMMA PartOfMeter ==
    ASSUME NEW P, NEW Q, Q \subseteq P, Meter(P) PROVE Meter(Q)
  BY PartOfHistory DEF Meter, Rising

LEMMA AmountIs ==
    ASSUME NEW P, Meter(P)
    PROVE  Amount(P) \in Nat \cup {NaN}
  BY DeltaIs, RiseIsNat DEF Meter, Amount, PositiveIncrement, NaN

\* Later reads have more samples, and no smaller amounts.
LEMMA AmountGrows ==
    ASSUME NEW A, NEW B, A \subseteq B, Meter(B), Amount(A) # NaN
    PROVE  Amount(A) \in Nat /\ Amount(B) \in Nat /\ Amount(A) <= Amount(B)
  <1>1. Meter(A)
    BY PartOfMeter
  <1>2. CASE kind = "trip"
    <2>1. A # {} /\ Amount(A) = Delta(A) /\ Amount(B) = Delta(B)
      BY <1>1, <1>2, DeltaIs DEF Amount, Meter
    <2>2. Delta(B) \in Nat /\ \A p, q \in B : q.value - p.value <= Delta(B)
      BY <1>2, <2>1, DeltaIs DEF Meter
    <2>3. Delta(A) \in Nat /\ \E p, q \in A : Delta(A) = q.value - p.value
      BY <1>1, <1>2, <2>1, DeltaIs DEF Meter
    <2> QED BY <2>1, <2>2, <2>3
  <1>3. CASE kind # "trip"
    <2>1. ~Few(A) /\ Amount(A) = Rise(A, 0 .. Horizon)
      BY <1>3 DEF Amount, PositiveIncrement
    <2>2. ~Few(B)
      BY <2>1 DEF Few
    <2>3. Amount(B) = Rise(B, 0 .. Horizon)
      BY <1>3, <2>2 DEF Amount, PositiveIncrement
    <2> QED BY <1>1, <2>1, <2>3, RiseGrows, RiseIsNat DEF Meter
  <1> QED BY <1>2, <1>3

\* No amount is more than was delivered between the ends.
LEMMA AmountBound ==
    ASSUME NEW P, Meter(P), NEW D, NEW a \in Nat, NEW b \in Nat, a <= b,
           \A t \in a .. b : D[t] \in Nat,
           \A t, u \in a .. b : t <= u => D[t] <= D[u],
           \A p \in P : p.at \in a .. b,
           \A p, q \in P : p.at <= q.at => q.value - p.value <= D[q.at] - D[p.at]
    PROVE  Amount(P) <= D[b] - D[a]
  <1>0. a \in a .. b /\ b \in a .. b /\ D[a] \in Nat /\ D[b] \in Nat /\ D[a] <= D[b]
    OBVIOUS
  <1>1. CASE Amount(P) = NaN
    BY <1>0, <1>1 DEF NaN
  <1>2. CASE Amount(P) # NaN /\ kind = "trip"
    <2>1. P # {} /\ Amount(P) = Delta(P)
      BY <1>2, DeltaIs DEF Amount, Meter
    <2>2. PICK p \in P : \E q \in P : p.at <= q.at /\ Delta(P) = q.value - p.value
      BY <1>2, <2>1, DeltaIs DEF Meter
    <2>3. PICK q \in P : p.at <= q.at /\ Delta(P) = q.value - p.value
      BY <2>2
    <2>4. p.at \in a .. b /\ q.at \in a .. b
      OBVIOUS
    <2>5. D[p.at] \in Nat /\ D[q.at] \in Nat /\ D[a] <= D[p.at] /\ D[q.at] <= D[b]
      BY <1>0, <2>4
    <2>6. Delta(P) <= D[q.at] - D[p.at]
      BY <2>3
    <2>7. Delta(P) \in Nat
      BY <1>2, <2>1, DeltaIs DEF Meter
    <2> QED BY <1>0, <2>1, <2>5, <2>6, <2>7
  <1>3. CASE Amount(P) # NaN /\ kind # "trip"
    <2>1. Amount(P) = Rise(P, 0 .. Horizon)
      BY <1>3 DEF Amount, PositiveIncrement
    <2>2. Rise(P, 0 .. Horizon) <= D[b] - D[a]
      BY RiseBound DEF Meter
    <2> QED BY <2>1, <2>2
  <1> QED BY <1>1, <1>2, <1>3

(***************************************************************************)
(* The held states of a window                                             *)
(***************************************************************************)

\* What segment walks along: the state held at the start, and what came after it.
Timeline(transitions, held, start) ==
    {[at |-> start, value |-> held]} \cup {p \in transitions : p.at > start}

StateAt(T, t) == Latest(Before(T, t + 1)).value

\* A timeline of the window from start to end.
IsTimeline(T, start, end) ==
    /\ History(T) /\ start \in Instants(T)
    /\ \A p \in T : p.at \in start .. end - 1

LEMMA StateStays ==
    ASSUME NEW T, NEW start \in Nat, NEW end \in Nat, IsTimeline(T, start, end), NEW t \in Int
    PROVE  /\ t \in Instants(T) => StateAt(T, t) = At(T, t).value
           /\ t \notin Instants(T) => StateAt(T, t) = StateAt(T, t - 1)
  <1>1. t \in Instants(T) => StateAt(T, t) = At(T, t).value
    BY BeforeNext DEF IsTimeline, StateAt
  <1>2. ASSUME t \notin Instants(T) PROVE StateAt(T, t) = StateAt(T, t - 1)
    <2>1. Before(T, t + 1) = Before(T, t)
      BY <1>2, BeforeNext DEF IsTimeline
    <2>2. t - 1 + 1 = t
      OBVIOUS
    <2> QED BY <2>1, <2>2 DEF StateAt
  <1> QED BY <1>1, <1>2

\* A point that is not a change repeats the state before it.
LEMMA RepeatsTheState ==
    ASSUME NEW T, NEW start \in Nat, NEW end \in Nat, IsTimeline(T, start, end),
           NEW t \in Int, t \in Instants(T)
    PROVE  /\ t \notin Instants(Collapse(T)) => t > start /\ StateAt(T, t) = StateAt(T, t - 1)
           /\ t \in Instants(Collapse(T)) =>
                 /\ At(Collapse(T), t) = At(T, t)
                 /\ t > start => StateAt(T, t) # StateAt(T, t - 1)
  <1>0. History(T) /\ Collapse(T) \subseteq T /\ History(Collapse(T))
    BY PartOfHistory DEF IsTimeline, Collapse
  <1>1. At(T, t) \in T /\ At(T, t).at = t /\ StateAt(T, t) = At(T, t).value /\ start <= t
    BY AtIs, StateStays DEF IsTimeline
  <1>2. t - 1 + 1 = t
    OBVIOUS
  <1>3. Before(T, t) # {} <=> start < t
    <2>1. At(T, start) \in T /\ At(T, start).at = start
      BY AtIs DEF IsTimeline
    <2>2. \A p \in T : p.at \in Int /\ start <= p.at
      BY DEF IsTimeline
    <2> QED BY <1>1, <2>1, <2>2 DEF Before
  <1>4. At(T, t) \in Collapse(T) <=> (start < t => StateAt(T, t - 1) # StateAt(T, t))
    BY <1>1, <1>2, <1>3 DEF Collapse, StateAt
  <1>5. t \in Instants(Collapse(T)) <=> At(T, t) \in Collapse(T)
    BY <1>0, <1>1, AtIs DEF Instants
  <1>6. t \in Instants(Collapse(T)) => At(Collapse(T), t) = At(T, t)
    BY <1>0, <1>1, <1>5, AtIs
  <1> QED BY <1>1, <1>4, <1>5, <1>6

LEMMA UntilIs ==
    ASSUME NEW C, History(C), NEW end \in Nat, NEW t \in Int, t < end,
           \A p \in C : p.at < end
    PROVE  /\ Until(C, t, end) \in Int /\ t < Until(C, t, end) /\ Until(C, t, end) <= end
           /\ Until(C, t, end) < end => Until(C, t, end) \in Instants(C)
           /\ \A v \in t + 1 .. Until(C, t, end) - 1 : v \notin Instants(C)
  <1> DEFINE after == {p \in C : p.at > t}
  <1>0. \A p \in C : p.at \in Int
    BY HistoryAssumption DEF History
  <1>1. CASE after = {}
    BY <1>0, <1>1 DEF Until, Instants
  <1>2. CASE after # {}
    <2>1. History(after)
      BY PartOfHistory
    <2>2. Earliest(after) \in after /\ \A q \in after : Earliest(after).at <= q.at
      BY <1>2, <2>1, EarliestIs
    <2>3. Until(C, t, end) = Earliest(after).at
      BY <1>2 DEF Until
    <2>4. Earliest(after) \in C /\ Earliest(after).at > t
      BY <2>2
    <2>5. ASSUME NEW v \in t + 1 .. Earliest(after).at - 1 PROVE v \notin Instants(C)
      <3> SUFFICES ASSUME v \in Instants(C) PROVE FALSE
        OBVIOUS
      <3>1. PICK p \in C : p.at = v
        BY DEF Instants
      <3>2. p \in after
        BY <3>1
      <3> QED BY <1>0, <2>2, <2>4, <3>1, <3>2
    <2> HIDE DEF after
    <2>6. Until(C, t, end) \in Instants(C)
      BY <2>3, <2>4 DEF Instants
    <2> QED BY <1>0, <2>3, <2>4, <2>5, <2>6
  <1> QED BY <1>1, <1>2

\* From a change until the next the state is that of the change; the state before is another.
LEMMA ChangesAre ==
    ASSUME NEW T, NEW start \in Nat, NEW end \in Nat, IsTimeline(T, start, end)
    PROVE  LET C == Collapse(T) IN
           /\ start \in Instants(C) /\ \A p \in C : p.at \in start .. end - 1
           /\ \A t \in Instants(C) :
                 /\ \A v \in t .. Until(C, t, end) - 1 : StateAt(T, v) = At(C, t).value
                 /\ t > start => StateAt(T, t - 1) # At(C, t).value
  <1> DEFINE C == Collapse(T)
  <1>0. C \subseteq T /\ History(C)
    BY PartOfHistory DEF IsTimeline, Collapse
  <1>1. \A p \in C : p.at \in start .. end - 1
    BY <1>0 DEF IsTimeline
  <1>2. start \in Instants(C)
    BY RepeatsTheState DEF IsTimeline
  <1>3. ASSUME NEW t \in Instants(C)
        PROVE  /\ \A v \in t .. Until(C, t, end) - 1 : StateAt(T, v) = At(C, t).value
               /\ t > start => StateAt(T, t - 1) # At(C, t).value
    <2>1. t \in Int /\ t < end /\ t \in Instants(T)
      BY <1>0, <1>1 DEF Instants
    <2>2. At(C, t) = At(T, t) /\ StateAt(T, t) = At(C, t).value
      BY <2>1, RepeatsTheState, StateStays
    <2>3. t > start => StateAt(T, t - 1) # At(C, t).value
      BY <2>1, <2>2, RepeatsTheState
    <2> DEFINE u == Until(C, t, end)
               S == {v \in Int : StateAt(T, v) = At(C, t).value}
    <2>4. u \in Int /\ t < u /\ \A v \in t + 1 .. u - 1 : v \notin Instants(C)
      BY <1>0, <1>1, <2>1, UntilIs
    <2> HIDE DEF u
    <2>5. t \in S
      BY <2>1, <2>2
    <2>6. ASSUME NEW v \in t .. (u - 1) - 1, v \in S PROVE v + 1 \in S
      <3>1. v + 1 \in Int /\ v + 1 - 1 = v /\ v + 1 \notin Instants(C)
        BY <2>1, <2>4
      <3>2. StateAt(T, v + 1) = StateAt(T, v)
        BY <3>1, StateStays, RepeatsTheState
      <3> QED BY <2>6, <3>1, <3>2
    <2> HIDE DEF S
    <2>7. \A v \in t .. u - 1 : v \in S
      <3>1. u - 1 \in Int
        BY <2>4
      <3> QED BY <2>1, <2>5, <2>6, <3>1, StepByStep
    <2> QED BY <2>3, <2>7 DEF S, u
  <1> QED BY <1>1, <1>2, <1>3

(***************************************************************************)
(* The loop of segment.  H is the state held at each instant.              *)
(***************************************************************************)

ActiveIn(H, from, to) == {t \in from .. to - 1 : IsActive(H[t])}

PauseIn(H, w) == ~IsActive(H[w]) /\ \A t \in w .. w + Gap - 1 : H[t] = H[w]

JoinedIn(H, t, u) == \A w \in t .. u - Gap : ~PauseIn(H, w)

\* Nothing before f is in one run with it.
IsFirst(H, start, f) == \A u \in ActiveIn(H, start, f) : ~JoinedIn(H, u, f)

\* A stretch from an active instant to another, without a pause and with nothing before it.
IsStretch(H, start, f, l) ==
    /\ f <= l /\ IsActive(H[f]) /\ IsActive(H[l])
    /\ IsFirst(H, start, f) /\ JoinedIn(H, f, l)

\* What was closed by a pause before e.
IsClosed(H, start, r, e) ==
    /\ r = [start |-> r.start, end |-> r.end, open |-> FALSE]
    /\ r.start \in start .. e - 1 /\ r.end \in start .. e
    /\ IsStretch(H, start, r.start, r.end - 1)
    /\ \E w \in r.end .. e - Gap : PauseIn(H, w) /\ ActiveIn(H, r.end, w) = {}

\* The run under way: no pause yet.
UnderWay(H, start, acc, e) ==
    /\ acc.begun \in start .. e - 1 /\ acc.last \in start .. e
    /\ IsStretch(H, start, acc.begun, acc.last - 1)
    /\ ActiveIn(H, acc.last, e) = {}
    /\ \A w \in acc.last .. e - Gap : ~PauseIn(H, w)

\* What the loop carries when it has seen the states before e.
Loop(H, start, acc, e) ==
    /\ acc.begun = NaN => \A u \in ActiveIn(H, start, e) : \E w \in u + 1 .. e - Gap : PauseIn(H, w)
    /\ acc.begun # NaN => UnderWay(H, start, acc, e)
    /\ \A r \in acc.runs : IsClosed(H, start, r, e)
    /\ \A u \in ActiveIn(H, start, e) :
          \/ \E r \in acc.runs : r.start <= u /\ u < r.end
          \/ acc.begun # NaN /\ acc.begun <= u /\ u < acc.last

LEMMA JoinedPart ==
    ASSUME NEW H, NEW t \in Int, NEW u \in Int, JoinedIn(H, t, u),
           NEW v \in Int, NEW w \in Int, t <= v, w <= u
    PROVE  JoinedIn(H, v, w)
  BY HistoryAssumption DEF JoinedIn

\* An active instant ends no pause and begins none.
LEMMA NoPauseAcross ==
    ASSUME NEW H, NEW t \in Int, IsActive(H[t]), NEW w \in Int, w <= t, t < w + Gap
    PROVE  ~PauseIn(H, w)
  <1>1. t \in w .. w + Gap - 1
    BY HistoryAssumption
  <1> QED BY <1>1 DEF PauseIn

\* Two stretches that meet in an active instant are one.
LEMMA JoinedOn ==
    ASSUME NEW H, NEW t \in Int, NEW u \in Int, NEW v \in Int, t <= u, u <= v, IsActive(H[u]),
           JoinedIn(H, t, u), JoinedIn(H, u, v)
    PROVE  JoinedIn(H, t, v)
  <1> SUFFICES ASSUME NEW w \in t .. v - Gap PROVE ~PauseIn(H, w)
    BY DEF JoinedIn
  <1>0. Gap \in Nat \ {0} /\ w \in Int
    BY HistoryAssumption
  <1>1. CASE w <= u - Gap
    BY <1>0, <1>1 DEF JoinedIn
  <1>2. CASE w >= u
    BY <1>0, <1>2 DEF JoinedIn
  <1>3. CASE w > u - Gap /\ w < u
    BY <1>0, <1>3, NoPauseAcross
  <1> QED BY <1>0, <1>1, <1>2, <1>3

Acc == [runs : SUBSET [start : Int, end : Int, open : BOOLEAN], begun : Int, last : Int]

LEMMA TurnIs ==
    ASSUME NEW acc \in Acc, NEW held, NEW from \in Int, NEW to \in Int
    PROVE  /\ Turn(acc, held, from, to) \in Acc
           /\ IsActive(held) =>
                 /\ Turn(acc, held, from, to).runs = acc.runs
                 /\ Turn(acc, held, from, to).begun = IF acc.begun = NaN THEN from ELSE acc.begun
                 /\ Turn(acc, held, from, to).last = to
           /\ ~IsActive(held) /\ (acc.begun = NaN \/ to - from < Gap) =>
                 Turn(acc, held, from, to) = acc
           /\ ~IsActive(held) /\ acc.begun # NaN /\ to - from >= Gap =>
                 /\ Turn(acc, held, from, to).begun = NaN
                 /\ Turn(acc, held, from, to).runs = acc.runs
                       \cup {[start |-> acc.begun, end |-> acc.last, open |-> FALSE]}
  <1>0. NaN \in Int /\ Gap \in Nat
    BY HistoryAssumption DEF NaN
  <1>1. CASE IsActive(held)
    <2>1. Turn(acc, held, from, to)
             = [acc EXCEPT !.begun = IF @ = NaN THEN from ELSE @, !.last = to]
      BY <1>1 DEF Turn
    <2> QED BY <1>1, <2>1 DEF Acc
  <1>2. CASE ~IsActive(held) /\ (acc.begun = NaN \/ to - from < Gap)
    <2>1. Turn(acc, held, from, to) = acc
      BY <1>0, <1>2 DEF Turn, Closes
    <2> QED BY <1>0, <1>2, <2>1
  <1>3. CASE ~IsActive(held) /\ acc.begun # NaN /\ to - from >= Gap
    <2>1. Turn(acc, held, from, to)
             = [NoRun EXCEPT !.runs = acc.runs
                   \cup {[start |-> acc.begun, end |-> acc.last, open |-> FALSE]}]
      BY <1>3 DEF Turn, Closes
    <2>2. Turn(acc, held, from, to)
             = [runs |-> acc.runs \cup {[start |-> acc.begun, end |-> acc.last, open |-> FALSE]},
                begun |-> NaN, last |-> NaN]
      BY <2>1 DEF NoRun
    <2> DEFINE r == [start |-> acc.begun, end |-> acc.last, open |-> FALSE]
    <2>3. r \in [start : Int, end : Int, open : BOOLEAN]
      BY DEF Acc
    <2> HIDE DEF NaN, r
    <2>4. acc.runs \cup {r} \in SUBSET [start : Int, end : Int, open : BOOLEAN]
      BY <2>3 DEF Acc
    <2>5. [runs |-> acc.runs \cup {r}, begun |-> NaN, last |-> NaN] \in Acc
      BY <1>0, <2>4 DEF Acc
    <2>6. /\ Turn(acc, held, from, to) \in Acc /\ Turn(acc, held, from, to).begun = NaN
          /\ Turn(acc, held, from, to).runs = acc.runs \cup {r}
      BY <2>2, <2>5 DEF r
    <2> QED BY <1>0, <1>3, <2>6 DEF Acc, r
  <1> QED BY <1>0, <1>1, <1>2, <1>3 DEF Acc

\* A state held from e until f, and not before, keeps it so.
LEMMA TurnKeepsLoop ==
    ASSUME NEW H, NEW start \in Nat, NEW acc \in Acc, NEW e \in Nat, NEW f \in Nat, NEW held,
           start <= e, e < f, Loop(H, start, acc, e),
           \A t \in e .. f - 1 : H[t] = held,
           e > start => H[e - 1] # held
    PROVE  Loop(H, start, Turn(acc, held, e, f), f)
  <1> DEFINE next == Turn(acc, held, e, f)
  <1>0. Gap \in Nat /\ Gap # 0 /\ NaN = -1 /\ acc.begun \in Int /\ acc.last \in Int
    BY HistoryAssumption DEF NaN, Acc
  <1>h. e \in e .. f - 1 /\ H[e] = held
    OBVIOUS
  <1>1. \A r : IsClosed(H, start, r, e) => IsClosed(H, start, r, f)
    BY <1>0 DEF IsClosed
  <1>2. CASE IsActive(held)
    <2>1. next.runs = acc.runs /\ next.last = f /\ next.begun = IF acc.begun = NaN THEN e ELSE acc.begun
      BY <1>2, TurnIs
    <2> HIDE DEF next
    <2>2. \A t \in e .. f - 1 : IsActive(H[t])
      BY <1>2
    <2>3. ActiveIn(H, f, f) = {} /\ \A w \in f .. f - Gap : ~PauseIn(H, w)
      BY <1>0 DEF ActiveIn
    <2>4. JoinedIn(H, e, f - 1)
      <3> SUFFICES ASSUME NEW w \in e .. f - 1 - Gap PROVE ~PauseIn(H, w)
        BY DEF JoinedIn
      <3>1. w \in e .. f - 1
        BY <1>0
      <3> QED BY <2>2, <3>1 DEF PauseIn
    <2>5. IsActive(H[f - 1]) /\ IsActive(H[e])
      BY <2>2
    <2>6. UnderWay(H, start, next, f)
      <3>1. CASE acc.begun = NaN
        <4>1. IsFirst(H, start, e)
          <5> SUFFICES ASSUME NEW u \in ActiveIn(H, start, e) PROVE ~JoinedIn(H, u, e)
            BY DEF IsFirst
          <5>1. PICK w \in u + 1 .. e - Gap : PauseIn(H, w)
            BY <3>1 DEF Loop
          <5>2. w \in u .. e - Gap
            BY <1>0 DEF ActiveIn
          <5> QED BY <5>1, <5>2 DEF JoinedIn
        <4>2. next.begun = e
          BY <2>1, <3>1
        <4>3. IsStretch(H, start, e, f - 1)
          BY <2>4, <2>5, <4>1 DEF IsStretch
        <4> QED BY <2>1, <2>3, <4>2, <4>3 DEF UnderWay
      <3>2. CASE acc.begun # NaN
        <4>1. UnderWay(H, start, acc, e) /\ next.begun = acc.begun
          BY <2>1, <3>2 DEF Loop
        <4>2. /\ acc.begun \in start .. e - 1 /\ acc.last \in start .. e /\ acc.begun <= acc.last - 1
              /\ IsActive(H[acc.begun]) /\ IsActive(H[acc.last - 1])
              /\ IsFirst(H, start, acc.begun) /\ JoinedIn(H, acc.begun, acc.last - 1)
              /\ \A w \in acc.last .. e - Gap : ~PauseIn(H, w)
          BY <4>1 DEF UnderWay, IsStretch
        <4>3. JoinedIn(H, acc.last - 1, e)
          <5> SUFFICES ASSUME NEW w \in acc.last - 1 .. e - Gap PROVE ~PauseIn(H, w)
            BY DEF JoinedIn
          <5>1. CASE w = acc.last - 1
            BY <1>0, <4>2, <5>1, NoPauseAcross
          <5>2. CASE w # acc.last - 1
            BY <1>0, <4>2, <5>2
          <5> QED BY <5>1, <5>2
        <4>4. JoinedIn(H, acc.begun, e)
          <5>1. acc.last - 1 \in Int /\ acc.last - 1 <= e
            BY <1>0, <4>2
          <5> QED BY <1>0, <4>2, <4>3, <5>1, JoinedOn
        <4>5. JoinedIn(H, acc.begun, f - 1)
          <5>1. f - 1 \in Int /\ e <= f - 1 /\ acc.begun <= e
            BY <1>0, <4>2
          <5> QED BY <1>0, <2>4, <2>5, <4>4, <5>1, JoinedOn
        <4>6. IsStretch(H, start, acc.begun, f - 1)
          BY <2>5, <4>2, <4>5 DEF IsStretch
        <4> QED BY <2>1, <2>3, <4>1, <4>2, <4>6 DEF UnderWay
      <3> QED BY <3>1, <3>2
    <2>7. next.begun # NaN
      BY <1>0, <2>1
    <2>8. ASSUME NEW u \in ActiveIn(H, start, f)
          PROVE  \/ \E r \in next.runs : r.start <= u /\ u < r.end
                 \/ next.begun # NaN /\ next.begun <= u /\ u < next.last
      <3>1. u \in start .. f - 1 /\ IsActive(H[u])
        BY DEF ActiveIn
      <3>2. CASE u < e
        <4>1. u \in ActiveIn(H, start, e)
          BY <3>1, <3>2 DEF ActiveIn
        <4>2. CASE \E r \in acc.runs : r.start <= u /\ u < r.end
          BY <2>1, <4>2
        <4>3. CASE acc.begun # NaN /\ acc.begun <= u /\ u < acc.last
          BY <2>1, <3>1, <4>3
        <4> QED BY <4>1, <4>2, <4>3 DEF Loop
      <3>3. CASE u >= e
        <4>1. next.begun <= e
          BY <1>0, <2>1 DEF Loop, UnderWay
        <4> QED BY <1>0, <2>1, <2>7, <3>1, <3>3, <4>1
      <3> QED BY <3>1, <3>2, <3>3
    <2> QED BY <1>1, <2>1, <2>6, <2>7, <2>8 DEF Loop, next
  <1>3. CASE ~IsActive(held)
    <2>1. ActiveIn(H, start, f) = ActiveIn(H, start, e)
      <3>1. \A t \in e .. f - 1 : ~IsActive(H[t])
        BY <1>3
      <3> QED BY <3>1 DEF ActiveIn
    <2>2. \A t \in Int : start <= t /\ t <= e => ActiveIn(H, t, f) = ActiveIn(H, t, e)
      <3>1. \A t \in e .. f - 1 : ~IsActive(H[t])
        BY <1>3
      <3> QED BY <3>1 DEF ActiveIn
    <2>3. CASE acc.begun = NaN
      <3>1. next = acc
        <4>1. e \in Int /\ f \in Int
          OBVIOUS
        <4> HIDE DEF next
        <4>2. ~IsActive(held) /\ (acc.begun = NaN \/ f - e < Gap)
          BY <1>3, <2>3
        <4>3. Turn(acc, held, e, f) = acc
          BY <4>1, <4>2, TurnIs
        <4> QED BY <4>3 DEF next
      <3>2. \A u \in ActiveIn(H, start, e) : \E w \in u + 1 .. f - Gap : PauseIn(H, w)
        <4> SUFFICES ASSUME NEW u \in ActiveIn(H, start, e)
                     PROVE  \E w \in u + 1 .. f - Gap : PauseIn(H, w)
          OBVIOUS
        <4>1. PICK w \in u + 1 .. e - Gap : PauseIn(H, w)
          BY <2>3 DEF Loop
        <4>2. w \in u + 1 .. f - Gap
          BY <1>0 DEF ActiveIn
        <4> QED BY <4>1, <4>2
      <3> QED BY <1>1, <2>1, <2>3, <3>1, <3>2 DEF Loop
    <2>4. CASE acc.begun # NaN /\ f - e < Gap
      <3>1. next = acc
        <4>1. ~IsActive(held) /\ (acc.begun = NaN \/ f - e < Gap) /\ e \in Int /\ f \in Int
          BY <1>3, <2>4
        <4> HIDE DEF next
        <4>2. Turn(acc, held, e, f) = acc
          BY <4>1, TurnIs
        <4> QED BY <4>2 DEF next
      <3>2. UnderWay(H, start, acc, e)
        BY <2>4 DEF Loop
      <3>3. ASSUME NEW w \in acc.last .. f - Gap PROVE ~PauseIn(H, w)
        <4>1. acc.last \in start .. e /\ acc.begun \in start .. e - 1 /\ acc.begun <= acc.last - 1
          BY <3>2 DEF UnderWay, IsStretch
        <4>2. CASE w <= e - Gap
          BY <1>0, <3>2, <4>2 DEF UnderWay
        <4>3. CASE w > e - Gap
          <5>1. w <= e - 1 /\ e \in w .. w + Gap - 1 /\ e - 1 \in w .. w + Gap - 1 /\ e > start
            BY <1>0, <2>4, <4>1, <4>3
          <5>2. H[e - 1] # H[e]
            BY <1>h, <5>1
          <5> QED BY <5>1, <5>2 DEF PauseIn
        <4> QED BY <1>0, <4>1, <4>2, <4>3
      <3>4. UnderWay(H, start, acc, f)
        <4>1. acc.last \in start .. e
          BY <3>2 DEF UnderWay
        <4>2. ActiveIn(H, acc.last, f) = {}
          BY <2>2, <3>2, <4>1 DEF UnderWay
        <4> QED BY <3>2, <3>3, <4>2 DEF UnderWay
      <3> HIDE DEF next
      <3> QED BY <1>1, <2>1, <2>4, <3>1, <3>4 DEF Loop, next
    <2>5. CASE acc.begun # NaN /\ f - e >= Gap
      <3> DEFINE r == [start |-> acc.begun, end |-> acc.last, open |-> FALSE]
      <3>1. next.begun = NaN /\ next.runs = acc.runs \cup {r}
        BY <1>0, <1>3, <2>5, TurnIs
      <3>2. UnderWay(H, start, acc, e)
        BY <2>5 DEF Loop
      <3>3. PauseIn(H, e) /\ e <= f - Gap
        <4>1. \A t \in e .. e + Gap - 1 : t \in e .. f - 1
          BY <1>0, <2>5
        <4> QED BY <1>0, <1>3, <1>h, <2>5, <4>1 DEF PauseIn
      <3>4. IsClosed(H, start, r, f)
        <4>1. acc.last \in start .. e /\ acc.begun \in start .. e - 1
          BY <3>2 DEF UnderWay
        <4>2. e \in acc.last .. f - Gap /\ ActiveIn(H, acc.last, e) = {}
          BY <1>0, <3>2, <3>3, <4>1 DEF UnderWay
        <4>3. \E w \in acc.last .. f - Gap : PauseIn(H, w) /\ ActiveIn(H, acc.last, w) = {}
          BY <3>3, <4>2
        <4>4. IsStretch(H, start, acc.begun, acc.last - 1)
          BY <3>2 DEF UnderWay
        <4>5. acc.begun \in start .. f - 1 /\ acc.last \in start .. f
          BY <4>1
        <4> QED BY <4>3, <4>4, <4>5 DEF IsClosed
      <3> HIDE DEF next
      <3>5. \A u \in ActiveIn(H, start, e) : \E w \in u + 1 .. f - Gap : PauseIn(H, w)
        BY <1>0, <3>3 DEF ActiveIn
      <3>6. \A q \in next.runs : IsClosed(H, start, q, f)
        BY <1>1, <3>1, <3>4 DEF Loop
      <3>7. ASSUME NEW u \in ActiveIn(H, start, e)
            PROVE  \E q \in next.runs : q.start <= u /\ u < q.end
        <4>1. CASE \E q \in acc.runs : q.start <= u /\ u < q.end
          BY <3>1, <4>1
        <4>2. CASE acc.begun <= u /\ u < acc.last
          <5>1. r \in next.runs /\ r.start = acc.begun /\ r.end = acc.last
            BY <3>1
          <5> QED BY <4>2, <5>1
        <4> QED BY <4>1, <4>2 DEF Loop
      <3> QED BY <2>1, <3>1, <3>5, <3>6, <3>7 DEF Loop, next
    <2> QED BY <1>0, <2>3, <2>4, <2>5
  <1> QED BY <1>2, <1>3

(***************************************************************************)
(* What the loop has found at the end of the window                        *)
(***************************************************************************)

\* The walk, instant by instant.
IsWalk(C, start, end, w) ==
    /\ w[start] = NoRun /\ \A t \in start .. end : w[t] \in Acc
    /\ \A t \in start .. end - 1 :
          /\ t \in Instants(C) =>
                w[t + 1] = Turn(w[t], At(C, t).value, t, Until(C, t, end))
          /\ t \notin Instants(C) => w[t + 1] = w[t]
    /\ Walk(C, start, end)[end] = w[end]

LEMMA NoRunIs == NoRun \in Acc /\ NoRun.begun = NaN /\ NoRun.runs = {}
  BY DEF NoRun, Acc, NaN

LEMMA WalkIs ==
    ASSUME NEW C, History(C), NEW start \in Nat, NEW end \in Nat, start <= end,
           \A p \in C : p.at < end
    PROVE  \E w : IsWalk(C, start, end, w)
  <1> DEFINE turn(a, t) == IF t - 1 \in Instants(C)
                           THEN Turn(a, At(C, t - 1).value, t - 1, Until(C, t - 1, end))
                           ELSE a
             G == [x \in (start .. end) \X Acc |-> turn(x[2], x[1])]
             Def(f) == f = [t \in start .. end |-> IF t = start THEN NoRun ELSE turn(f[t - 1], t)]
             w == CHOOSE f : Def(f)
  <1>1. ASSUME NEW a \in Acc, NEW t \in start .. end PROVE turn(a, t) \in Acc
    <2>1. CASE t - 1 \in Instants(C)
      <3>1. t - 1 \in Int /\ t - 1 < end
        OBVIOUS
      <3>2. Until(C, t - 1, end) \in Int
        BY <3>1, UntilIs
      <3>3. Turn(a, At(C, t - 1).value, t - 1, Until(C, t - 1, end)) \in Acc
        BY <3>1, <3>2, TurnIs
      <3> QED BY <2>1, <3>3
    <2>2. CASE t - 1 \notin Instants(C)
      BY <2>2
    <2> QED BY <2>1, <2>2
  <1>t. \A a, t : /\ t - 1 \in Instants(C) =>
                        turn(a, t) = Turn(a, At(C, t - 1).value, t - 1, Until(C, t - 1, end))
                  /\ t - 1 \notin Instants(C) => turn(a, t) = a
    OBVIOUS
  <1>d. Walk(C, start, end) = w
    BY DEF Walk
  <1> HIDE DEF turn
  <1>2. G \in [(start .. end) \X Acc -> Acc]
    BY <1>1
  <1>3. \A t \in start .. end, a \in Acc : G[<<t, a>>] = turn(a, t)
    OBVIOUS
  <1> HIDE DEF G
  <1>4. PICK f : IsStepwise(f, NoRun, G, start, end, Acc)
    <2>1. start \in Int /\ end \in Int /\ start <= end /\ NoRun \in Acc
      BY NoRunIs
    <2> QED BY <1>2, <2>1, Recursion
  <1>5. ASSUME NEW t \in start .. end
        PROVE  f[t] = IF t = start THEN NoRun ELSE turn(f[t - 1], t)
    <2>1. ASSUME t # start PROVE f[t] = turn(f[t - 1], t)
      <3>1. t - 1 \in start .. end
        BY <2>1
      <3>2. f[t - 1] \in Acc
        BY <1>4, <3>1 DEF IsStepwise
      <3>3. f[t] = G[<<t, f[t - 1]>>]
        BY <1>4, <2>1 DEF IsStepwise
      <3> QED BY <1>3, <3>2, <3>3
    <2> QED BY <1>4, <2>1 DEF IsStepwise
  <1>6. Def(f)
    BY <1>4, <1>5 DEF IsStepwise
  <1> HIDE DEF Def
  <1>7. Def(w)
    BY <1>6
  <1> HIDE DEF w
  <1>8. \A t \in start .. end : w[t] = IF t = start THEN NoRun ELSE turn(w[t - 1], t)
    BY <1>7 DEF Def
  <1>9. w[start] = NoRun
    BY <1>8
  <1>10. \A t \in start .. end - 1 : w[t + 1] = turn(w[t], t + 1)
    <2> SUFFICES ASSUME NEW t \in start .. end - 1 PROVE w[t + 1] = turn(w[t], t + 1)
      OBVIOUS
    <2>1. t + 1 \in start .. end /\ t + 1 # start /\ t + 1 - 1 = t
      OBVIOUS
    <2> QED BY <1>8, <2>1
  <1>11. \A t \in start .. end : w[t] \in Acc
    <2> DEFINE S == {t \in start .. end : w[t] \in Acc}
    <2>1. start \in S
      BY <1>9, NoRunIs
    <2>2. ASSUME NEW t \in start .. end - 1, t \in S PROVE t + 1 \in S
      <3>1. t + 1 \in start .. end
        OBVIOUS
      <3> QED BY <1>1, <1>10, <2>2, <3>1
    <2> HIDE DEF S
    <2>3. start \in Int /\ end \in Int
      OBVIOUS
    <2>4. \A t \in start .. end : t \in S
      BY <2>1, <2>2, <2>3, StepByStep
    <2> QED BY <2>4 DEF S
  <1>12. IsWalk(C, start, end, w)
    <2>1. \A t \in start .. end - 1 :
             /\ t \in Instants(C) => w[t + 1] = Turn(w[t], At(C, t).value, t, Until(C, t, end))
             /\ t \notin Instants(C) => w[t + 1] = w[t]
      <3> SUFFICES ASSUME NEW t \in start .. end - 1
                   PROVE  /\ t \in Instants(C) =>
                                 w[t + 1] = Turn(w[t], At(C, t).value, t, Until(C, t, end))
                          /\ t \notin Instants(C) => w[t + 1] = w[t]
        OBVIOUS
      <3>1. t + 1 - 1 = t
        OBVIOUS
      <3> QED BY <1>10, <1>t, <3>1
    <2> QED BY <1>9, <1>11, <1>d, <2>1 DEF IsWalk
  <1> QED BY <1>12

\* Held(T) is the state of each instant of the window.
Held(T, start, end) == [t \in start .. end |-> StateAt(T, t)]

\* At each instant the loop carries what it found up to the change that comes next.
LEMMA WalkKeepsLoop ==
    ASSUME NEW T, NEW start \in Nat, NEW end \in Nat, IsTimeline(T, start, end)
    PROVE  LET C == Collapse(T)
               acc == Walk(C, start, end)[end]
           IN acc \in Acc /\ Loop(Held(T, start, end), start, acc, end)
  <1> DEFINE C == Collapse(T)
             H == Held(T, start, end)
  <1>0. /\ History(C) /\ start \in Instants(C) /\ \A p \in C : p.at \in start .. end - 1
        /\ start < end
    <2>1. History(C)
      BY PartOfHistory DEF IsTimeline, Collapse
    <2>2. start \in Instants(C) /\ \A p \in C : p.at \in start .. end - 1
      BY ChangesAre
    <2> QED BY <2>1, <2>2 DEF Instants
  <1>1. \A t \in start .. end - 1 : H[t] = StateAt(T, t)
    BY DEF Held
  <1> HIDE DEF H
  <1>2. PICK w : IsWalk(C, start, end, w)
    BY <1>0, WalkIs
  <1> DEFINE Good(t, e) ==
                 /\ e \in t .. end /\ Loop(H, start, w[t], e)
                 /\ \A v \in t .. e - 1 : v \notin Instants(C)
                 /\ e < end => e \in Instants(C)
             S == {t \in start .. end : \E e \in Int : Good(t, e)}
  <1>3. start \in S
    <2>1. Loop(H, start, w[start], start)
      <3>1. ActiveIn(H, start, start) = {}
        BY DEF ActiveIn
      <3> QED BY <1>2, <3>1, NoRunIs DEF IsWalk, Loop
    <2>2. Good(start, start)
      BY <1>0, <2>1
    <2> QED BY <1>0, <2>2
  <1>4. ASSUME NEW t \in start .. end - 1, t \in S PROVE t + 1 \in S
    <2>1. PICK e \in Int : Good(t, e)
      BY <1>4
    <2>2. CASE t \in Instants(C)
      <3> DEFINE f == Until(C, t, end)
      <3>1. e = t
        BY <2>1, <2>2
      <3>2. f \in Int /\ t < f /\ f <= end /\ (f < end => f \in Instants(C))
               /\ \A v \in t + 1 .. f - 1 : v \notin Instants(C)
        BY <1>0, UntilIs
      <3>3. /\ \A v \in t .. f - 1 : StateAt(T, v) = At(C, t).value
            /\ t > start => StateAt(T, t - 1) # At(C, t).value
        BY <2>2, ChangesAre
      <3> HIDE DEF f, C
      <3>4. /\ \A v \in t .. f - 1 : H[v] = At(C, t).value
            /\ t > start => H[t - 1] # At(C, t).value
        BY <1>1, <3>2, <3>3
      <3>5. w[t] \in Acc /\ w[t + 1] = Turn(w[t], At(C, t).value, t, f)
        BY <1>2, <2>2 DEF IsWalk, f
      <3>6. Loop(H, start, w[t + 1], f)
        <4>1. t \in Nat /\ f \in Nat /\ start <= t /\ t < f
          BY <3>2
        <4>2. Loop(H, start, w[t], t)
          BY <2>1, <3>1
        <4> QED BY <3>4, <3>5, <4>1, <4>2, TurnKeepsLoop
      <3>7. Good(t + 1, f)
        BY <3>2, <3>6
      <3> QED BY <3>2, <3>7
    <2>3. CASE t \notin Instants(C)
      <3>1. w[t + 1] = w[t]
        BY <1>2, <2>3 DEF IsWalk
      <3>2. e # t
        BY <2>1, <2>3
      <3>3. Good(t + 1, e)
        BY <2>1, <3>1, <3>2
      <3> QED BY <3>3
    <2> QED BY <2>2, <2>3
  <1> HIDE DEF S
  <1>5. \A t \in start .. end : t \in S
    <2>1. start \in Int /\ end \in Int
      OBVIOUS
    <2> QED BY <1>3, <1>4, <2>1, StepByStep
  <1>6. end \in S
    BY <1>0, <1>5
  <1>7. PICK e \in Int : Good(end, e)
    BY <1>6 DEF S
  <1>8. e = end /\ Loop(H, start, w[end], end)
    BY <1>7
  <1>9. w[end] \in Acc /\ Walk(C, start, end)[end] = w[end]
    BY <1>0, <1>2 DEF IsWalk
  <1> QED BY <1>8, <1>9 DEF H

(***************************************************************************)
(* The runs of a window                                                    *)
(***************************************************************************)

IsLast(H, l, end) == \A u \in ActiveIn(H, l + 1, end) : ~JoinedIn(H, l, u)

\* The maximal stretches without a pause.
IsRun(H, start, end, f, l) ==
    /\ f \in start .. end - 1 /\ l \in start .. end - 1
    /\ IsStretch(H, start, f, l) /\ IsLast(H, l, end)

RunOf(f, l, end) == [start |-> f, end |-> l + 1, open |-> l + 1 = end]

FoundRuns(H, start, end) ==
    {RunOf(p[1], p[2], end) :
        p \in {q \in (start .. end - 1) \X (start .. end - 1) : IsRun(H, start, end, q[1], q[2])}}

LEMMA FoundRunsAre ==
    ASSUME NEW H, NEW start, NEW end, NEW r
    PROVE  r \in FoundRuns(H, start, end)
              <=> \E f, l \in start .. end - 1 : IsRun(H, start, end, f, l) /\ r = RunOf(f, l, end)
  <1> DEFINE W == start .. end - 1
             Ends == {q \in W \X W : IsRun(H, start, end, q[1], q[2])}
  <1> HIDE DEF W
  <1>1. \A f, l \in W : IsRun(H, start, end, f, l) => <<f, l>> \in Ends
    OBVIOUS
  <1>2. \A p \in Ends : p[1] \in W /\ p[2] \in W /\ IsRun(H, start, end, p[1], p[2])
    OBVIOUS
  <1>3. r \in FoundRuns(H, start, end) <=> \E p \in Ends : r = RunOf(p[1], p[2], end)
    BY DEF FoundRuns, W
  <1> HIDE DEF Ends
  <1>4. \A f, l \in W : <<f, l>>[1] = f /\ <<f, l>>[2] = l
    OBVIOUS
  <1>5. (\E p \in Ends : r = RunOf(p[1], p[2], end))
           <=> \E f, l \in W : IsRun(H, start, end, f, l) /\ r = RunOf(f, l, end)
    <2>1. ASSUME NEW f \in W, NEW l \in W, IsRun(H, start, end, f, l), r = RunOf(f, l, end)
          PROVE  \E p \in Ends : r = RunOf(p[1], p[2], end)
      <3>1. <<f, l>> \in Ends /\ r = RunOf(<<f, l>>[1], <<f, l>>[2], end)
        BY <1>1, <2>1
      <3> QED BY <3>1
    <2>2. ASSUME NEW p \in Ends, r = RunOf(p[1], p[2], end)
          PROVE  \E f, l \in W : IsRun(H, start, end, f, l) /\ r = RunOf(f, l, end)
      BY <1>2, <2>2
    <2> QED BY <2>1, <2>2
  <1> QED BY <1>3, <1>5 DEF W

\* Two runs that share an active instant are the same.
LEMMA RunsAreMaximal ==
    ASSUME NEW H, NEW start \in Nat, NEW end \in Nat, NEW f, NEW l, NEW g, NEW m,
           IsRun(H, start, end, f, l), IsRun(H, start, end, g, m), g <= f, f <= m
    PROVE  f = g /\ l = m
  <1>0. f \in Int /\ l \in Int /\ g \in Int /\ m \in Int /\ f <= l /\ start <= g
    BY DEF IsRun, IsStretch
  <1>1. JoinedIn(H, g, f)
    BY <1>0, JoinedPart DEF IsRun, IsStretch
  <1>2. f = g
    <2> SUFFICES ASSUME g # f PROVE FALSE
      OBVIOUS
    <2>1. g \in ActiveIn(H, start, f)
      BY <1>0 DEF ActiveIn, IsRun, IsStretch
    <2> QED BY <1>1, <2>1 DEF IsRun, IsStretch, IsFirst
  <1>3. ~(l < m)
    <2> SUFFICES ASSUME l < m PROVE FALSE
      OBVIOUS
    <2>1. m \in ActiveIn(H, l + 1, end)
      BY <1>0 DEF ActiveIn, IsRun, IsStretch
    <2>2. JoinedIn(H, l, m)
      BY <1>0, <1>2, JoinedPart DEF IsRun, IsStretch
    <2> QED BY <2>1, <2>2 DEF IsRun, IsLast
  <1>4. ~(m < l)
    <2> SUFFICES ASSUME m < l PROVE FALSE
      OBVIOUS
    <2>1. l \in ActiveIn(H, m + 1, end)
      BY <1>0 DEF ActiveIn, IsRun, IsStretch
    <2>2. JoinedIn(H, m, l)
      BY <1>0, <1>2, JoinedPart DEF IsRun, IsStretch
    <2> QED BY <2>1, <2>2 DEF IsRun, IsLast
  <1> QED BY <1>0, <1>2, <1>3, <1>4

\* Runs lie Gap apart.
LEMMA RunsAreApart ==
    ASSUME NEW H, NEW start \in Nat, NEW end \in Nat, NEW f, NEW l, NEW g, NEW m,
           IsRun(H, start, end, f, l), IsRun(H, start, end, g, m)
    PROVE  \/ f = g /\ l = m
           \/ g - (l + 1) >= Gap
           \/ f - (m + 1) >= Gap
  <1>0. /\ f \in Int /\ l \in Int /\ g \in Int /\ m \in Int /\ f <= l /\ g <= m
        /\ l < end /\ m < end
    BY DEF IsRun, IsStretch
  <1>1. ASSUME NEW a \in Int, NEW b \in Int, a < b, b < end, IsLast(H, a, end),
               IsActive(H[a]), IsActive(H[b])
        PROVE  b - (a + 1) >= Gap
    <2>1. b \in ActiveIn(H, a + 1, end)
      BY <1>0, <1>1 DEF ActiveIn
    <2>2. PICK w \in a .. b - Gap : PauseIn(H, w)
      BY <1>1, <2>1 DEF IsLast, JoinedIn
    <2>3. w # a
      BY <1>1, <2>2 DEF PauseIn
    <2>4. Gap \in Nat
      BY HistoryAssumption
    <2> QED BY <2>2, <2>3, <2>4
  <1>2. CASE g <= l /\ f <= m
    BY <1>0, <1>2, RunsAreMaximal
  <1>3. CASE l < g
    BY <1>0, <1>1, <1>3 DEF IsRun, IsStretch
  <1>4. CASE m < f
    BY <1>0, <1>1, <1>4 DEF IsRun, IsStretch
  <1> QED BY <1>0, <1>2, <1>3, <1>4

\* A closed run ends for good.
LEMMA ClosedIsRun ==
    ASSUME NEW H, NEW start \in Nat, NEW end \in Nat, NEW r, IsClosed(H, start, r, end)
    PROVE  IsRun(H, start, end, r.start, r.end - 1) /\ r = RunOf(r.start, r.end - 1, end)
  <1>0. Gap \in Nat /\ Gap # 0
    BY HistoryAssumption
  <1>1. r.start \in start .. end - 1 /\ r.end \in start .. end /\ r.start <= r.end - 1
    BY DEF IsClosed, IsStretch
  <1>2. PICK w \in r.end .. end - Gap : PauseIn(H, w) /\ ActiveIn(H, r.end, w) = {}
    BY DEF IsClosed
  <1>3. r.end # end /\ r.end - 1 \in start .. end - 1 /\ r.end - 1 + 1 = r.end
    BY <1>0, <1>1, <1>2
  <1>4. ASSUME NEW u \in ActiveIn(H, r.end, end) PROVE ~JoinedIn(H, r.end - 1, u)
    <2>1. u \in r.end .. end - 1 /\ IsActive(H[u])
      BY DEF ActiveIn
    <2>2. ~(u < w)
      BY <1>2, <2>1 DEF ActiveIn
    <2>3. ~(u < w + Gap)
      BY <1>0, <1>1, <1>2, <2>1, <2>2, NoPauseAcross DEF PauseIn
    <2>4. w \in r.end - 1 .. u - Gap
      BY <1>0, <1>1, <2>1, <2>3
    <2> QED BY <1>2, <2>4 DEF JoinedIn
  <1>5. IsLast(H, r.end - 1, end)
    BY <1>3, <1>4 DEF IsLast
  <1>6. r = RunOf(r.start, r.end - 1, end)
    BY <1>1, <1>3 DEF IsClosed, RunOf
  <1> QED BY <1>1, <1>3, <1>5, <1>6 DEF IsRun, IsClosed

\* What the loop has at the end is what there is.
LEMMA LoopFinds ==
    ASSUME NEW H, NEW start \in Nat, NEW end \in Nat, NEW acc \in Acc,
           Loop(H, start, acc, end)
    PROVE  acc.runs \cup (IF acc.begun = NaN THEN {}
                          ELSE {[start |-> acc.begun, end |-> acc.last, open |-> acc.last = end]})
             = FoundRuns(H, start, end)
  <1> DEFINE current == [start |-> acc.begun, end |-> acc.last, open |-> acc.last = end]
             R == acc.runs \cup IF acc.begun = NaN THEN {} ELSE {current}
  <1>1. ASSUME NEW r \in R
        PROVE  IsRun(H, start, end, r.start, r.end - 1) /\ r = RunOf(r.start, r.end - 1, end)
    <2>1. CASE r \in acc.runs
      BY <2>1, ClosedIsRun DEF Loop
    <2>2. CASE acc.begun # NaN /\ r = current
      <3>1. UnderWay(H, start, acc, end)
        BY <2>2 DEF Loop
      <3>2. /\ acc.begun \in start .. end - 1 /\ acc.last \in start .. end
            /\ IsStretch(H, start, acc.begun, acc.last - 1) /\ ActiveIn(H, acc.last, end) = {}
            /\ acc.begun <= acc.last - 1
        BY <3>1 DEF UnderWay, IsStretch
      <3>3. acc.last - 1 \in start .. end - 1 /\ acc.last - 1 + 1 = acc.last
        BY <3>2
      <3>4. IsLast(H, acc.last - 1, end)
        BY <3>2, <3>3 DEF IsLast
      <3>5. r.start = acc.begun /\ r.end = acc.last
        BY <2>2
      <3>6. r = RunOf(r.start, r.end - 1, end)
        BY <2>2, <3>3, <3>5 DEF RunOf
      <3> QED BY <3>2, <3>3, <3>4, <3>5, <3>6 DEF IsRun
    <2> QED BY <2>1, <2>2
  <1>2. \A u \in ActiveIn(H, start, end) : \E r \in R : r.start <= u /\ u < r.end
    <2> SUFFICES ASSUME NEW u \in ActiveIn(H, start, end)
                 PROVE  \E r \in R : r.start <= u /\ u < r.end
      OBVIOUS
    <2>1. CASE \E r \in acc.runs : r.start <= u /\ u < r.end
      BY <2>1
    <2>2. CASE acc.begun # NaN /\ acc.begun <= u /\ u < acc.last
      <3>1. current \in R /\ current.start = acc.begun /\ current.end = acc.last
        BY <2>2
      <3> QED BY <2>2, <3>1
    <2> QED BY <2>1, <2>2 DEF Loop
  <1> HIDE DEF R
  <1>3. ASSUME NEW r \in R PROVE r \in FoundRuns(H, start, end)
    <2>1. r.start \in start .. end - 1 /\ r.end - 1 \in start .. end - 1
      BY <1>1 DEF IsRun
    <2> QED BY <1>1, <2>1, FoundRunsAre
  <1>4. ASSUME NEW r \in FoundRuns(H, start, end) PROVE r \in R
    <2>1. PICK f, l \in start .. end - 1 : IsRun(H, start, end, f, l) /\ r = RunOf(f, l, end)
      BY FoundRunsAre
    <2>2. f \in ActiveIn(H, start, end)
      BY <2>1 DEF ActiveIn, IsRun, IsStretch
    <2>3. PICK s \in R : s.start <= f /\ f < s.end
      BY <1>2, <2>2
    <2>4. IsRun(H, start, end, s.start, s.end - 1) /\ s = RunOf(s.start, s.end - 1, end)
      BY <1>1
    <2>5. s.end - 1 \in Int /\ f \in Int
      BY <2>4 DEF IsRun
    <2>6. s.end \in Int
      <3>1. s.end = s.end - 1 + 1
        BY <2>4 DEF RunOf
      <3> QED BY <2>5, <3>1
    <2>7. f = s.start /\ l = s.end - 1
      BY <2>1, <2>3, <2>4, <2>5, <2>6, RunsAreMaximal
    <2> QED BY <2>1, <2>4, <2>7
  <1>5. R = FoundRuns(H, start, end)
    BY <1>3, <1>4
  <1> QED BY <1>5 DEF R

(***************************************************************************)
(* The states of a window, and the runs found in it                        *)
(***************************************************************************)

\* A log of the window.
IsLog(log, start, end) == History(log) /\ \A p \in log : p.at \in start .. end - 1

LEMMA TimelineIs ==
    ASSUME NEW log, NEW start \in Nat, NEW end \in Nat, NEW held, IsLog(log, start, end),
           start < end, end <= Horizon
    PROVE  /\ IsTimeline(Timeline(Collapse(log), held, start), start, end)
           /\ StateAt(Timeline(Collapse(log), held, start), start) = held
           /\ \A t \in Int : t > start =>
                 /\ t \in Instants(Timeline(Collapse(log), held, start))
                       <=> t \in Instants(Collapse(log))
                 /\ t \in Instants(Collapse(log)) =>
                       At(Timeline(Collapse(log), held, start), t) = At(log, t)
  <1> DEFINE C == Collapse(log)
             first == [at |-> start, value |-> held]
             T == Timeline(C, held, start)
  <1>0. C \subseteq log /\ History(C) /\ History(log) /\ Horizon \in Nat
    BY PartOfHistory, HistoryAssumption DEF Collapse, IsLog
  <1> HIDE DEF C
  <1>1. T = {first} \cup {p \in C : p.at > start}
    BY DEF Timeline
  <1>2. first.at = start /\ first.value = held
    OBVIOUS
  <1> HIDE DEF T, first
  <1>3. \A p \in C : p.at \in start .. end - 1 /\ p.at \in 0 .. Horizon
    BY <1>0 DEF IsLog, History
  <1>4. History(T)
    <2>1. \A p \in T : p.at \in 0 .. Horizon
      BY <1>0, <1>1, <1>2, <1>3
    <2>2. ASSUME NEW p \in T, NEW q \in T, p.at = q.at PROVE p = q
      <3>1. p \in C /\ q \in C => p = q
        BY <1>0, <2>2 DEF History
      <3> QED BY <1>1, <1>2, <1>3, <2>2, <3>1
    <2> QED BY <2>1, <2>2 DEF History
  <1>5. IsTimeline(T, start, end)
    <2>1. first \in T
      BY <1>1
    <2>2. start \in Instants(T)
      BY <1>2, <2>1 DEF Instants
    <2>3. \A p \in T : p.at \in start .. end - 1
      BY <1>1, <1>2, <1>3
    <2> QED BY <1>4, <2>2, <2>3 DEF IsTimeline
  <1>6. StateAt(T, start) = held
    <2>1. first \in T
      BY <1>1
    <2>2. start \in Instants(T) /\ At(T, start) = first
      BY <1>2, <1>4, <2>1, AtIs
    <2> QED BY <1>2, <1>5, <2>2, StateStays
  <1>7. ASSUME NEW t \in Int, t > start
        PROVE  /\ t \in Instants(T) <=> t \in Instants(C)
               /\ t \in Instants(C) => At(T, t) = At(log, t)
    <2>1. \A p : p.at = t => (p \in T <=> p \in C)
      BY <1>1, <1>2, <1>7
    <2>2. t \in Instants(T) <=> t \in Instants(C)
      BY <2>1 DEF Instants
    <2>3. ASSUME t \in Instants(C) PROVE At(T, t) = At(log, t)
      <3>1. At(C, t) \in C /\ At(C, t).at = t
        BY <1>0, <2>3, AtIs
      <3>2. At(C, t) \in T /\ At(C, t) \in log
        BY <1>0, <2>1, <3>1
      <3>3. At(T, t) = At(C, t)
        BY <1>4, <3>1, <3>2, AtIs
      <3>4. At(log, t) = At(C, t)
        BY <1>0, <3>1, <3>2, AtIs
      <3> QED BY <3>3, <3>4
    <2> QED BY <2>2, <2>3
  <1> QED BY <1>5, <1>6, <1>7 DEF T, C

\* The runs of a window are those of the states held in it.
LEMMA SegmentIs ==
    ASSUME NEW log, NEW start \in Nat, NEW end \in Nat, NEW held, IsLog(log, start, end),
           start < end, end <= Horizon, log # {}
    PROVE  Segment(Collapse(log), held, start, end)
             = FoundRuns(Held(Timeline(Collapse(log), held, start), start, end), start, end)
  <1> DEFINE T == Timeline(Collapse(log), held, start)
             acc == Walk(Collapse(T), start, end)[end]
  <1>1. IsTimeline(T, start, end)
    BY TimelineIs
  <1>2. Collapse(log) # {}
    <2>1. History(log)
      BY DEF IsLog
    <2>2. Earliest(log) \in log /\ \A q \in log : Earliest(log).at <= q.at
      BY <2>1, EarliestIs
    <2>3. \A q \in log : q.at \in Int
      BY DEF IsLog
    <2>4. Before(log, Earliest(log).at) = {}
      BY <2>2, <2>3 DEF Before
    <2> QED BY <2>2, <2>4 DEF Collapse
  <1>3. Changes(Collapse(log), held, start) = Collapse(T)
    BY DEF Changes, Timeline
  <1>4. acc \in Acc /\ Loop(Held(T, start, end), start, acc, end)
    BY <1>1, WalkKeepsLoop
  <1>5. Segment(Collapse(log), held, start, end)
          = acc.runs \cup (IF acc.begun = NaN THEN {}
                           ELSE {[start |-> acc.begun, end |-> acc.last, open |-> acc.last = end]})
    BY <1>2, <1>3 DEF Segment
  <1> HIDE DEF acc, T
  <1>6. Segment(Collapse(log), held, start, end) = FoundRuns(Held(T, start, end), start, end)
    BY <1>4, <1>5, LoopFinds
  <1> QED BY <1>6 DEF T

\* What is known of the runs of a window, whatever is in it.
LEMMA RunsOfWindow ==
    ASSUME NEW H, NEW start \in Nat, NEW end \in Nat
    PROVE  /\ \A r \in FoundRuns(H, start, end) :
                 /\ r = [start |-> r.start, end |-> r.end, open |-> r.end = end]
                 /\ r.start \in start .. end - 1 /\ r.end \in start .. end /\ r.start < r.end
           /\ \A r, s \in FoundRuns(H, start, end) :
                 r = s \/ s.start - r.end >= Gap \/ r.start - s.end >= Gap
  <1>1. ASSUME NEW r \in FoundRuns(H, start, end)
        PROVE  /\ r = [start |-> r.start, end |-> r.end, open |-> r.end = end]
               /\ r.start \in start .. end - 1 /\ r.end \in start .. end /\ r.start < r.end
    <2>1. PICK f, l \in start .. end - 1 : IsRun(H, start, end, f, l) /\ r = RunOf(f, l, end)
      BY FoundRunsAre
    <2>2. r.start = f /\ r.end = l + 1 /\ f <= l
      BY <2>1 DEF RunOf, IsRun, IsStretch
    <2>3. r = [start |-> r.start, end |-> r.end, open |-> r.end = end]
      BY <2>1, <2>2 DEF RunOf
    <2> QED BY <2>2, <2>3
  <1>2. ASSUME NEW r \in FoundRuns(H, start, end), NEW s \in FoundRuns(H, start, end)
        PROVE  r = s \/ s.start - r.end >= Gap \/ r.start - s.end >= Gap
    <2>1. PICK f, l \in start .. end - 1 : IsRun(H, start, end, f, l) /\ r = RunOf(f, l, end)
      BY FoundRunsAre
    <2>2. PICK g, m \in start .. end - 1 : IsRun(H, start, end, g, m) /\ s = RunOf(g, m, end)
      BY FoundRunsAre
    <2>3. r.start = f /\ r.end = l + 1 /\ s.start = g /\ s.end = m + 1
      BY <2>1, <2>2 DEF RunOf
    <2> QED BY <2>1, <2>2, <2>3, RunsAreApart
  <1> QED BY <1>1, <1>2

(***************************************************************************)
(* The runs found are the true runs                                        *)
(***************************************************************************)

\* What segment walks along is the state held, but for a change at the first instant.
LEMMA StatesAgree ==
    ASSUME NEW q, q.start \in Nat, q.end \in Nat, IsLog(q.log, q.start, q.end),
           q.start < q.end, q.end <= Horizon, ~ChangesAtTheEdge(q)
    PROVE  \A t \in q.start .. q.end - 1 :
              StateAt(Timeline(Collapse(q.log), q.held, q.start), t) = HeldAt(q, t)
  <1> DEFINE T == Timeline(Collapse(q.log), q.held, q.start)
             S == {t \in Int : StateAt(T, t) = HeldAt(q, t)}
  <1>0. /\ IsTimeline(T, q.start, q.end) /\ StateAt(T, q.start) = q.held
        /\ \A t \in Int : t > q.start =>
              /\ t \in Instants(T) <=> t \in Instants(Collapse(q.log))
              /\ t \in Instants(Collapse(q.log)) => At(T, t) = At(q.log, t)
    BY TimelineIs
  <1>1. History(q.log) /\ \A p \in q.log : p.at \in Int /\ q.start <= p.at
    BY DEF IsLog
  <1>2. Collapse(q.log) \subseteq q.log /\ History(Collapse(q.log))
    BY <1>1, PartOfHistory DEF Collapse
  <1> HIDE DEF T
  <1>3. ASSUME NEW t \in Int
        PROVE  /\ t \in Instants(q.log) => HeldAt(q, t) = At(q.log, t).value
               /\ t \notin Instants(q.log) => HeldAt(q, t) = HeldAt(q, t - 1)
    <2>1. t - 1 + 1 = t
      OBVIOUS
    <2>2. t \notin Instants(q.log) => Before(q.log, t + 1) = Before(q.log, t)
      BY <1>1, BeforeNext
    <2>3. t \in Instants(q.log) => /\ Before(q.log, t + 1) # {}
                                   /\ Latest(Before(q.log, t + 1)) = At(q.log, t)
      BY <1>1, BeforeNext
    <2> QED BY <2>1, <2>2, <2>3 DEF HeldAt
  <1>4. q.start \in S
    <2>1. CASE q.start \in Instants(q.log)
      <3>1. At(q.log, q.start) \in q.log /\ At(q.log, q.start).at = q.start
        BY <1>1, <2>1, AtIs
      <3>2. At(q.log, q.start).value = q.held
        BY <3>1 DEF ChangesAtTheEdge
      <3> QED BY <1>0, <1>3, <2>1, <3>2
    <2>2. CASE q.start \notin Instants(q.log)
      <3>1. Before(q.log, q.start + 1) = {}
        BY <1>1, <2>2 DEF Before, Instants
      <3> QED BY <1>0, <3>1 DEF HeldAt
    <2> QED BY <2>1, <2>2
  <1>5. ASSUME NEW t \in q.start .. q.end - 1 - 1, t \in S PROVE t + 1 \in S
    <2>0. t + 1 \in Int /\ t + 1 > q.start /\ t + 1 - 1 = t
      OBVIOUS
    <2>1. CASE t + 1 \notin Instants(q.log)
      <3>1. t + 1 \notin Instants(T)
        BY <1>0, <1>2, <2>0, <2>1 DEF Instants
      <3>2. StateAt(T, t + 1) = StateAt(T, t)
        BY <1>0, <2>0, <3>1, StateStays
      <3>3. HeldAt(q, t + 1) = HeldAt(q, t)
        BY <1>3, <2>0, <2>1
      <3> QED BY <1>5, <2>0, <3>2, <3>3
    <2>2. CASE t + 1 \in Instants(q.log)
      <3>1. At(q.log, t + 1) \in q.log /\ At(q.log, t + 1).at = t + 1
        BY <1>1, <2>2, AtIs
      <3>2. HeldAt(q, t + 1) = At(q.log, t + 1).value
        BY <1>3, <2>0, <2>2
      <3>3. CASE At(q.log, t + 1) \in Collapse(q.log)
        <4>1. t + 1 \in Instants(Collapse(q.log))
          BY <3>1, <3>3 DEF Instants
        <4>2. t + 1 \in Instants(T) /\ At(T, t + 1) = At(q.log, t + 1)
          BY <1>0, <2>0, <4>1
        <4>3. StateAt(T, t + 1) = At(T, t + 1).value
          BY <1>0, <2>0, <4>2, StateStays
        <4> QED BY <2>0, <3>2, <4>2, <4>3
      <3>4. CASE At(q.log, t + 1) \notin Collapse(q.log)
        <4>1. t + 1 \notin Instants(Collapse(q.log))
          BY <1>1, <1>2, <2>0, <2>2, <3>1, <3>4, AtIs DEF Instants
        <4>2. t + 1 \notin Instants(T)
          BY <1>0, <2>0, <4>1
        <4>3. StateAt(T, t + 1) = StateAt(T, t)
          BY <1>0, <2>0, <4>2, StateStays
        <4>4. /\ Before(q.log, t + 1) # {}
              /\ Latest(Before(q.log, t + 1)).value = At(q.log, t + 1).value
          BY <3>1, <3>4 DEF Collapse
        <4>5. HeldAt(q, t) = At(q.log, t + 1).value
          BY <4>4 DEF HeldAt
        <4> QED BY <1>5, <2>0, <3>2, <4>3, <4>5
      <3> QED BY <3>3, <3>4
    <2> QED BY <2>1, <2>2
  <1> HIDE DEF S
  <1>6. \A t \in q.start .. q.end - 1 : t \in S
    <2>1. q.start \in Int /\ q.end - 1 \in Int
      OBVIOUS
    <2> QED BY <1>4, <1>5, <2>1, StepByStep
  <1> QED BY <1>6 DEF S, T

LEMMA TrueRunsAre ==
    ASSUME NEW q, q.start \in Nat, q.end \in Nat, NEW H,
           \A t \in q.start .. q.end - 1 : H[t] = HeldAt(q, t)
    PROVE  TrueRuns(q) = FoundRuns(H, q.start, q.end)
  <1> DEFINE active == {t \in q.start .. q.end - 1 : IsActive(HeldAt(q, t))}
             firsts == {t \in active : ~ \E u \in active : u < t /\ Joined(q, u, t)}
             lasts == {t \in active : ~ \E u \in active : u > t /\ Joined(q, t, u)}
             Ends == {f \in firsts \X lasts : f[1] <= f[2] /\ Joined(q, f[1], f[2])}
  <1>0. Gap \in Nat /\ Gap # 0
    BY HistoryAssumption
  <1>1. ASSUME NEW w \in Int, q.start <= w, w <= q.end - Gap
        PROVE  Pause(q, w) <=> PauseIn(H, w)
    <2>1. \A t \in w .. w + Gap - 1 : t \in q.start .. q.end - 1
      BY <1>0, <1>1
    <2>2. w \in q.start .. q.end - 1
      BY <1>0, <1>1
    <2>3. \A t \in w .. w + Gap - 1 : H[t] = HeldAt(q, t)
      BY <2>1
    <2>4. H[w] = HeldAt(q, w)
      BY <2>2
    <2> QED BY <2>3, <2>4 DEF Pause, PauseIn
  <1>2. ASSUME NEW t \in q.start .. q.end - 1, NEW u \in q.start .. q.end - 1
        PROVE  Joined(q, t, u) <=> JoinedIn(H, t, u)
    <2>1. \A w \in t .. u - Gap : w \in Int /\ q.start <= w /\ w <= q.end - Gap
      BY <1>0
    <2> QED BY <1>1, <2>1 DEF Joined, JoinedIn
  <1>3. \A t : t \in active <=> t \in q.start .. q.end - 1 /\ IsActive(H[t])
    OBVIOUS
  <1>4. ASSUME NEW t \in active PROVE t \in firsts <=> IsFirst(H, q.start, t)
    <2>1. t \in q.start .. q.end - 1
      BY <1>3
    <2>2. \A u : u \in ActiveIn(H, q.start, t) <=> u \in active /\ u < t
      BY <1>3, <2>1 DEF ActiveIn
    <2>3. \A u \in active : Joined(q, u, t) <=> JoinedIn(H, u, t)
      BY <1>2, <1>3, <2>1
    <2>4. t \in firsts <=> ~ \E u \in active : u < t /\ Joined(q, u, t)
      OBVIOUS
    <2> HIDE DEF active, firsts
    <2> QED BY <2>2, <2>3, <2>4 DEF IsFirst
  <1>5. ASSUME NEW t \in active PROVE t \in lasts <=> IsLast(H, t, q.end)
    <2>1. t \in q.start .. q.end - 1
      BY <1>3
    <2>2. \A u : u \in ActiveIn(H, t + 1, q.end) <=> u \in active /\ u > t
      BY <1>3, <2>1 DEF ActiveIn
    <2>3. \A u \in active : Joined(q, t, u) <=> JoinedIn(H, t, u)
      BY <1>2, <1>3, <2>1
    <2>4. t \in lasts <=> ~ \E u \in active : u > t /\ Joined(q, t, u)
      OBVIOUS
    <2> HIDE DEF active, lasts
    <2> QED BY <2>2, <2>3, <2>4 DEF IsLast
  <1>6. firsts \subseteq active /\ lasts \subseteq active
    OBVIOUS
  <1>7. \A p : p \in Ends <=> p \in firsts \X lasts /\ p[1] <= p[2] /\ Joined(q, p[1], p[2])
    OBVIOUS
  <1>8. TrueRuns(q) = {RunOf(p[1], p[2], q.end) : p \in Ends}
    BY DEF TrueRuns, RunOf
  <1> DEFINE W == q.start .. q.end - 1
             Found2 == {p \in W \X W : IsRun(H, q.start, q.end, p[1], p[2])}
  <1> HIDE DEF active, firsts, lasts, Ends
  <1>9. ASSUME NEW f \in W, NEW l \in W
        PROVE  /\ f \in firsts /\ l \in lasts /\ f <= l /\ Joined(q, f, l)
                  <=> IsRun(H, q.start, q.end, f, l)
    <2>1. IsRun(H, q.start, q.end, f, l) <=>
             /\ f \in active /\ l \in active /\ f <= l
             /\ IsFirst(H, q.start, f) /\ IsLast(H, l, q.end) /\ JoinedIn(H, f, l)
      BY <1>3 DEF IsRun, IsStretch
    <2>2. Joined(q, f, l) <=> JoinedIn(H, f, l)
      BY <1>2
    <2> QED BY <1>4, <1>5, <1>6, <2>1, <2>2
  <1>10. Ends = Found2
    <2>1. ASSUME NEW p \in Ends PROVE p \in Found2
      <3>1. p \in W \X W /\ p[1] \in W /\ p[2] \in W /\ p[1] \in firsts /\ p[2] \in lasts
        BY <1>3, <1>6, <1>7
      <3>2. IsRun(H, q.start, q.end, p[1], p[2])
        BY <1>7, <1>9, <3>1
      <3> QED BY <3>1, <3>2
    <2>2. ASSUME NEW p \in Found2 PROVE p \in Ends
      <3>1. p \in W \X W /\ p[1] \in W /\ p[2] \in W /\ IsRun(H, q.start, q.end, p[1], p[2])
        OBVIOUS
      <3> HIDE DEF Found2, W
      <3>2. p[1] \in firsts /\ p[2] \in lasts /\ p[1] <= p[2] /\ Joined(q, p[1], p[2])
        BY <1>9, <3>1
      <3>3. p \in firsts \X lasts
        BY <3>1, <3>2
      <3> QED BY <1>7, <3>2, <3>3
    <2> QED BY <2>1, <2>2
  <1> QED BY <1>8, <1>10 DEF FoundRuns

(***************************************************************************)
(* The car and what is stored of it                                        *)
(***************************************************************************)

\* What is delivered never shrinks, and the counter shows no more of it.
CarOK ==
    /\ kind \in Kinds /\ now \in 0 .. Horizon /\ state \in State
    /\ stored \in 0 .. now /\ troubles \in 0 .. MaxTroubles
    /\ delivered \in [0 .. now -> Nat]
    /\ \A t, u \in 0 .. now : t <= u => delivered[t] <= delivered[u]
    /\ counter \in Nat /\ counter <= delivered[now]

ReadingsOK ==
    /\ readings \subseteq Point(State) /\ History(readings)
    /\ \A p \in readings : p.at <= now

\* From one sample to a later one the counter goes up by no more than was delivered between
\* them, and so it does from the last sample until now; an odometer never goes down.
SamplesOK ==
    /\ samples \subseteq Point(Nat) /\ History(samples)
    /\ \A p \in samples : p.at <= now /\ counter - p.value <= delivered[now] - delivered[p.at]
    /\ \A p, q \in samples :
          p.at <= q.at => q.value - p.value <= delivered[q.at] - delivered[p.at]
    /\ kind = "trip" => Rising(samples) /\ \A p \in samples : p.value <= counter

StoreOK == CarOK /\ ReadingsOK /\ SamplesOK

LEMMA InitStoreOK == Init => StoreOK
  <1> SUFFICES ASSUME Init PROVE StoreOK
    OBVIOUS
  <1>0. 0 \in 0 .. Horizon /\ 0 \in 0 .. MaxTroubles /\ 0 .. 0 = {0}
    BY HistoryAssumption
  <1>1. delivered = [t \in {0} |-> 1] /\ now = 0 /\ counter = 1 /\ stored = 0 /\ troubles = 0
        /\ samples = {} /\ kind \in Kinds /\ state \in State
        /\ readings = {[at |-> 0, value |-> state]}
    BY DEF Init, Reported
  <1>2. CarOK
    <2>1. delivered \in [0 .. now -> Nat] /\ delivered[0] = 1
      BY <1>0, <1>1
    <2> QED BY <1>0, <1>1, <2>1 DEF CarOK
  <1>3. ReadingsOK
    BY <1>0, <1>1 DEF ReadingsOK, Point, History
  <1>4. SamplesOK
    BY <1>1 DEF SamplesOK, History, Rising
  <1> QED BY <1>2, <1>3, <1>4 DEF StoreOK

\* What no handler changes.
KeepsStore == UNCHANGED <<kind, now, state, counter, delivered, readings, samples, stored>>

LEMMA KeptStoreOK ==
    ASSUME StoreOK, KeepsStore, troubles' \in 0 .. MaxTroubles
    PROVE  StoreOK'
  <1>1. CarOK'
    BY DEF StoreOK, CarOK, KeepsStore
  <1>2. ReadingsOK'
    BY DEF StoreOK, ReadingsOK, KeepsStore
  <1>3. SamplesOK'
    BY DEF StoreOK, SamplesOK, KeepsStore
  <1> QED BY <1>1, <1>2, <1>3 DEF StoreOK

LEMMA TroubleIs ==
    ASSUME StoreOK, Trouble \/ UNCHANGED troubles
    PROVE  troubles' \in 0 .. MaxTroubles
  BY HistoryAssumption DEF StoreOK, CarOK, Trouble

\* What was delivered by an instant stays what it was.
LEMMA TickDelivers ==
    ASSUME StoreOK, Tick
    PROVE  /\ now' = now + 1 /\ now' \in 0 .. Horizon /\ kind' = kind
           /\ \E gain \in 0 .. 1 :
                 /\ delivered' \in [0 .. now' -> Nat]
                 /\ \A t \in 0 .. now : delivered'[t] = delivered[t]
                 /\ delivered'[now'] = delivered[now] + gain
                 /\ \/ counter' = counter + gain
                    \/ counter' = 0 /\ kind = "session"
  <1>0. now \in 0 .. Horizon /\ delivered \in [0 .. now -> Nat] /\ Horizon \in Nat
    BY HistoryAssumption DEF StoreOK, CarOK
  <1>1. now' = now + 1 /\ now' \in 0 .. Horizon /\ kind' = kind
    BY <1>0 DEF Tick
  <1>2. PICK gain \in 0 .. 1 :
           /\ delivered' = [t \in 0 .. now' |-> IF t = now' THEN delivered[now] + gain
                                                ELSE delivered[t]]
           /\ (counter' = counter + gain \/ (counter' = 0 /\ kind = "session"))
    BY DEF Tick
  <1>3. delivered' \in [0 .. now' -> Nat]
    BY <1>0, <1>1, <1>2
  <1>4. \A t \in 0 .. now : delivered'[t] = delivered[t]
    BY <1>0, <1>1, <1>2
  <1>5. delivered'[now'] = delivered[now] + gain
    BY <1>0, <1>1, <1>2
  <1> QED BY <1>1, <1>2, <1>3, <1>4, <1>5

LEMMA TickStoreOK ==
    ASSUME StoreOK, Tick
    PROVE  StoreOK'
  <1>0. CarOK /\ ReadingsOK /\ SamplesOK /\ Horizon \in Nat
    BY HistoryAssumption DEF StoreOK
  <1>1. now' = now + 1 /\ now' \in 0 .. Horizon /\ kind' = kind /\ stored' = stored
    BY TickDelivers DEF Tick
  <1>2. PICK gain \in 0 .. 1 :
           /\ delivered' \in [0 .. now' -> Nat]
           /\ \A t \in 0 .. now : delivered'[t] = delivered[t]
           /\ delivered'[now'] = delivered[now] + gain
           /\ \/ counter' = counter + gain
              \/ counter' = 0 /\ kind = "session"
    BY TickDelivers
  <1>3. now \in 0 .. Horizon /\ now \in Nat /\ counter \in Nat /\ counter <= delivered[now]
        /\ delivered[now] \in Nat /\ \A t \in 0 .. now : delivered[t] \in Nat /\ delivered[t] <= delivered[now]
    BY <1>0 DEF CarOK
  <1>4. CarOK'
    <2>1. \A t, u \in 0 .. now' : t <= u => delivered'[t] <= delivered'[u]
      <3> SUFFICES ASSUME NEW t \in 0 .. now', NEW u \in 0 .. now', t <= u
                   PROVE  delivered'[t] <= delivered'[u]
        OBVIOUS
      <3>1. CASE u = now'
        BY <1>1, <1>2, <1>3, <3>1
      <3>2. CASE u # now'
        <4>1. t \in 0 .. now /\ u \in 0 .. now
          BY <1>1, <1>3, <3>2
        <4> QED BY <1>0, <1>2, <4>1 DEF CarOK
      <3> QED BY <3>1, <3>2
    <2>2. counter' \in Nat /\ counter' <= delivered'[now']
      BY <1>2, <1>3
    <2>3. troubles' \in 0 .. MaxTroubles
      BY TroubleIs DEF Tick
    <2>4. state' \in State
      BY <1>0 DEF Tick, CarOK, Reported
    <2>5. stored' \in 0 .. now'
      BY <1>0, <1>1 DEF CarOK
    <2> QED BY <1>0, <1>1, <1>2, <2>1, <2>2, <2>3, <2>4, <2>5 DEF CarOK
  <1>5. ReadingsOK'
    <2>1. readings' = readings \/ (state' \in State /\ readings' = readings \cup {[at |-> now', value |-> state']})
      BY <1>4 DEF Tick, CarOK
    <2>2. \A p \in readings : p.at \in 0 .. now
      BY <1>0, <1>3 DEF ReadingsOK, Point
    <2>3. CASE readings' = readings
      BY <1>0, <1>1, <1>3, <2>2, <2>3 DEF ReadingsOK
    <2>4. CASE state' \in State /\ readings' = readings \cup {[at |-> now', value |-> state']}
      <3>1. readings' \subseteq Point(State)
        BY <1>0, <1>1, <2>4 DEF ReadingsOK, Point
      <3>2. History(readings')
        BY <1>0, <1>1, <1>3, <2>2, <2>4 DEF ReadingsOK, History
      <3>3. \A p \in readings' : p.at <= now'
        BY <1>1, <1>3, <2>2, <2>4
      <3> QED BY <3>1, <3>2, <3>3 DEF ReadingsOK, History
    <2> QED BY <2>1, <2>3, <2>4
  <1>6. SamplesOK'
    <2> DEFINE new == [at |-> now', value |-> counter']
    <2>0. new.at = now' /\ new.value = counter'
      OBVIOUS
    <2>1. samples' = samples \/ samples' = samples \cup {new}
      BY DEF Tick
    <2>2. \A p \in samples : p.at \in 0 .. now /\ p.value \in Nat
      BY <1>0, <1>3 DEF SamplesOK, Point
    <2>3. samples' \subseteq Point(Nat)
      <3>1. new \in Point(Nat)
        BY <1>1, <1>4 DEF Point, CarOK
      <3> QED BY <1>0, <2>1, <3>1 DEF SamplesOK
    <2> HIDE DEF new
    <2>4. History(samples')
      <3>1. \A p \in samples : p.at # now'
        BY <1>1, <1>3, <2>2
      <3> QED BY <1>0, <1>1, <2>0, <2>1, <3>1 DEF SamplesOK, History
    <2>5. ASSUME NEW p \in samples
          PROVE  counter' - p.value <= delivered'[now'] - delivered'[p.at]
      <3>1. counter - p.value <= delivered[now] - delivered[p.at]
        BY <1>0 DEF SamplesOK
      <3>2. delivered'[p.at] = delivered[p.at] /\ delivered[p.at] \in Nat
            /\ delivered[p.at] <= delivered[now] /\ p.value \in Nat
        BY <1>2, <1>3, <2>2
      <3> QED BY <1>2, <1>3, <3>1, <3>2
    <2>6. \A p \in samples' : p.at <= now' /\ counter' - p.value <= delivered'[now'] - delivered'[p.at]
      <3> SUFFICES ASSUME NEW p \in samples'
                   PROVE  p.at <= now' /\ counter' - p.value <= delivered'[now'] - delivered'[p.at]
        OBVIOUS
      <3>1. CASE p \in samples
        BY <1>1, <1>3, <2>2, <2>5, <3>1
      <3>2. CASE p = new
        BY <1>1, <1>3, <1>4, <2>0, <3>2 DEF CarOK
      <3> QED BY <2>1, <3>1, <3>2
    <2>7. \A p, q \in samples' :
             p.at <= q.at => q.value - p.value <= delivered'[q.at] - delivered'[p.at]
      <3> SUFFICES ASSUME NEW p \in samples', NEW q \in samples', p.at <= q.at
                   PROVE  q.value - p.value <= delivered'[q.at] - delivered'[p.at]
        OBVIOUS
      <3>1. CASE q = new
        BY <2>0, <2>6, <3>1
      <3>2. CASE q \in samples /\ p \in samples
        BY <1>0, <1>2, <2>2, <3>2 DEF SamplesOK
      <3>3. CASE q \in samples /\ p = new
        BY <1>1, <1>3, <2>0, <2>2, <3>3
      <3> QED BY <2>1, <3>1, <3>2, <3>3
    <2>8. ASSUME kind = "trip" PROVE Rising(samples') /\ \A p \in samples' : p.value <= counter'
      <3>1. counter' >= counter /\ counter' \in Nat
        BY <1>2, <1>3, <2>8
      <3>2. \A p \in samples : p.value <= counter'
        BY <1>0, <1>3, <2>2, <2>8, <3>1 DEF SamplesOK
      <3>3. \A p \in samples' : p.value <= counter'
        BY <2>0, <2>1, <3>1, <3>2
      <3>4. ASSUME NEW p \in samples', NEW q \in samples', p.at <= q.at PROVE p.value <= q.value
        <4>1. CASE q = new
          BY <2>0, <3>3, <4>1
        <4>2. CASE q \in samples /\ p \in samples
          BY <1>0, <2>8, <3>4, <4>2 DEF SamplesOK, Rising
        <4>3. CASE q \in samples /\ p = new
          BY <1>1, <1>3, <2>0, <2>2, <3>4, <4>3
        <4> QED BY <2>1, <4>1, <4>2, <4>3
      <3> QED BY <3>3, <3>4 DEF Rising
    <2> QED BY <1>1, <2>3, <2>4, <2>6, <2>7, <2>8 DEF SamplesOK, History, Rising
  <1> QED BY <1>4, <1>5, <1>6 DEF StoreOK

LEMMA WriteStoreOK ==
    ASSUME StoreOK, Write
    PROVE  StoreOK'
  <1>1. readings' \subseteq readings /\ samples' \subseteq samples
    BY DEF Write
  <1>2. UNCHANGED <<kind, now, state, counter, delivered>> /\ stored' = stored + 1 /\ stored < now
    BY DEF Write, carVars
  <1>3. troubles' \in 0 .. MaxTroubles
    BY TroubleIs DEF Write
  <1>4. CarOK'
    BY <1>2, <1>3, HistoryAssumption DEF StoreOK, CarOK
  <1>5. ReadingsOK'
    BY <1>1, <1>2, PartOfHistory DEF StoreOK, ReadingsOK, History
  <1>6. SamplesOK'
    BY <1>1, <1>2, PartOfHistory DEF StoreOK, SamplesOK, History, Rising
  <1> QED BY <1>4, <1>5, <1>6 DEF StoreOK

\* What the handlers do to the store.
Handler == Ask \/ ReadHeld \/ ReadSeries \/ Summarise \/ ReadHours \/ Price

LEMMA HandlersRead ==
    ASSUME StoreOK, Handler
    PROVE  KeepsStore /\ troubles' \in 0 .. MaxTroubles
  <1>1. KeepsStore
    BY DEF KeepsStore, Handler, Ask, ReadHeld, ReadSeries, Summarise, ReadHours, Price,
           carVars, storeVars
  <1>2. Trouble \/ UNCHANGED troubles
    BY DEF Handler, Ask, ReadHeld, ReadSeries, Summarise, ReadHours, Price, Reads
  <1> QED BY <1>1, <1>2, TroubleIs

LEMMA StepStoreOK == StoreOK /\ [Next]_vars => StoreOK'
  <1> SUFFICES ASSUME StoreOK, [Next]_vars PROVE StoreOK'
    OBVIOUS
  <1>1. CASE Tick
    BY <1>1, TickStoreOK
  <1>2. CASE Write
    BY <1>2, WriteStoreOK
  <1>3. CASE Handler
    BY <1>3, HandlersRead, KeptStoreOK
  <1>4. CASE UNCHANGED vars
    <2>1. KeepsStore /\ troubles' = troubles
      BY <1>4 DEF vars, carVars, storeVars, KeepsStore
    <2> QED BY <2>1, KeptStoreOK, TroubleIs
  <1> QED BY <1>1, <1>2, <1>3, <1>4 DEF Next, Handler

\* What the database tells later includes what it told.
LEMMA SamplesGrow ==
    ASSUME StoreOK, [Next]_vars
    PROVE  /\ Samples \subseteq Samples' /\ kind' = kind /\ now \in Nat /\ now' \in Nat /\ now <= now'
           /\ \A t \in 0 .. now : delivered'[t] = delivered[t]
  <1>0. CarOK /\ now \in Nat /\ stored \in Nat /\ stored <= now
    BY DEF StoreOK, CarOK
  <1>1. CASE Tick
    <2>1. now' = now + 1 /\ kind' = kind /\ \A t \in 0 .. now : delivered'[t] = delivered[t]
      BY <1>1, TickDelivers
    <2>2. samples \subseteq samples' /\ stored' = stored
      BY <1>1 DEF Tick
    <2> QED BY <1>0, <2>1, <2>2 DEF Samples
  <1>2. CASE Write
    <2>1. kind' = kind /\ now' = now /\ delivered' = delivered /\ stored' = stored + 1
      BY <1>2 DEF Write, carVars
    <2>2. \A p \in samples : p.at \in Nat
      BY HistoryAssumption DEF StoreOK, SamplesOK, History
    <2>3. kind # "trip" => samples' = samples
      BY <1>2 DEF Write
    <2>4. \A p \in samples : p.at < stored => p \in samples'
      BY <1>0, <1>2, <2>2 DEF Write
    <2>5. \A p \in samples : p.at < stored => p.at < stored'
      BY <1>0, <2>1, <2>2
    <2> QED BY <1>0, <2>1, <2>3, <2>4, <2>5 DEF Samples
  <1>3. CASE Handler
    <2>1. KeepsStore
      BY <1>3, HandlersRead
    <2> QED BY <1>0, <2>1 DEF KeepsStore, Samples
  <1>4. CASE UNCHANGED vars
    BY <1>0, <1>4 DEF vars, carVars, storeVars, Samples
  <1> QED BY <1>1, <1>2, <1>3, <1>4 DEF Next, Handler

\* What a read of the counter returns.
LEMMA SamplesAre ==
    ASSUME StoreOK
    PROVE  /\ Meter(Samples) /\ Samples \subseteq samples
           /\ \A p \in Samples : p.at \in 0 .. now
           /\ \A p, q \in Samples :
                 p.at <= q.at => q.value - p.value <= delivered[q.at] - delivered[p.at]
  <1>1. Samples \subseteq samples
    BY DEF Samples
  <1>2. Meter(samples)
    BY DEF StoreOK, SamplesOK, Meter, Series, Point
  <1>3. \A p \in samples : p.at \in 0 .. now
    BY DEF StoreOK, SamplesOK, CarOK, Point
  <1> QED BY <1>1, <1>2, <1>3, PartOfMeter DEF StoreOK, SamplesOK

(***************************************************************************)
(* Hours                                                                   *)
(***************************************************************************)

LEMMA HourIs ==
    ASSUME NEW t \in Nat
    PROVE  /\ HourOf(t) \in Nat
           /\ Hour * HourOf(t) <= t /\ t < Hour * (HourOf(t) + 1)
  <1>1. Hour \in Nat /\ Hour > 0
    BY HistoryAssumption
  <1> QED BY <1>1 DEF HourOf

LEMMA HoursInOrder ==
    ASSUME NEW t \in Nat, NEW u \in Nat, t <= u
    PROVE  HourOf(t) <= HourOf(u)
  <1>1. Hour \in Nat /\ Hour > 0
    BY HistoryAssumption
  <1>2. SUFFICES ASSUME HourOf(u) + 1 <= HourOf(t) PROVE FALSE
    BY HourIs
  <1> DEFINE a == HourOf(u) b == HourOf(t)
  <1>3. a \in Nat /\ b \in Nat /\ a + 1 <= b /\ Hour * b <= t /\ u < Hour * (a + 1)
    BY <1>2, HourIs
  <1> HIDE DEF a, b
  <1>4. Hour * (a + 1) <= Hour * b
    BY <1>1, <1>3
  <1>5. Hour * (a + 1) \in Nat /\ Hour * b \in Nat
    BY <1>1, <1>3
  <1> QED BY <1>3, <1>4, <1>5

\* With every hour priced, the flat tariff is left with the hour that begins as the run ends.
AddsUp(P, hours, end) ==
    /\ ByHour(P, (HourOf(0) .. HourOf(Horizon)) \ hours) = ByHour(P, {HourOf(end)} \ hours)
    /\ ByHour(P, hours) + ByHour(P, (HourOf(0) .. HourOf(Horizon)) \ hours)
          = Rise(P, 0 .. Horizon)

LEMMA HoursAddUp ==
    ASSUME NEW P, Series(P), NEW start \in Nat, NEW end \in Nat, start < end, end <= Horizon,
           \A p \in P : p.at \in start .. end
    PROVE  AddsUp(P, HourOf(start) .. HourOf(end - 1), end)
  <1> DEFINE hours == HourOf(start) .. HourOf(end - 1)
  <1> DEFINE all == HourOf(0) .. HourOf(Horizon)
             of(h) == {t \in 0 .. Horizon : HourOf(t) \in h}
  <1>0. Horizon \in Nat /\ end - 1 \in Nat
    BY HistoryAssumption
  <1>h. \A t, lo, hi \in Nat : lo <= t /\ t <= hi => HourOf(t) \in HourOf(lo) .. HourOf(hi)
    <2> SUFFICES ASSUME NEW t \in Nat, NEW lo \in Nat, NEW hi \in Nat, lo <= t, t <= hi
                 PROVE  HourOf(t) \in HourOf(lo) .. HourOf(hi)
      OBVIOUS
    <2>1. HourOf(t) \in Nat /\ HourOf(lo) \in Nat /\ HourOf(hi) \in Nat
      BY HourIs
    <2>2. HourOf(lo) <= HourOf(t) /\ HourOf(t) <= HourOf(hi)
      BY HoursInOrder
    <2> QED BY <2>1, <2>2
  <1>1. \A t \in 0 .. Horizon : HourOf(t) \in all
    BY <1>0, <1>h
  <1>2. \A t \in start .. end - 1 : HourOf(t) \in hours
    BY <1>0, <1>h
  <1>3. Instants(P) \subseteq start .. end
    BY DEF Instants
  <1> HIDE DEF all, hours
  <1>4. \A t \in Instants(P) : t \in of(all \ hours) <=> t \in of({HourOf(end)} \ hours)
    <2> SUFFICES ASSUME NEW t \in Instants(P)
                 PROVE  t \in of(all \ hours) <=> t \in of({HourOf(end)} \ hours)
      OBVIOUS
    <2>1. t \in start .. end /\ t \in 0 .. Horizon
      BY <1>0, <1>3
    <2>2. CASE t = end
      BY <1>1, <2>1, <2>2
    <2>3. CASE t # end
      <3>1. HourOf(t) \in hours
        BY <1>2, <2>1, <2>3
      <3> QED BY <3>1
    <2> QED BY <2>2, <2>3
  <1>5. of(hours) \cap of(all \ hours) = {} /\ of(hours) \cup of(all \ hours) = 0 .. Horizon
    BY <1>1
  <1>6. \A h : ByHour(P, h) = Rise(P, of(h))
    BY DEF ByHour
  <1> HIDE DEF of
  <1>7. Rise(P, of(all \ hours)) = Rise(P, of({HourOf(end)} \ hours))
    BY <1>4, RiseSame
  <1>8. Rise(P, of(hours)) + Rise(P, of(all \ hours)) = Rise(P, 0 .. Horizon)
    <2> DEFINE A == of(hours)
               B == of(all \ hours)
    <2>1. A \cap B = {} /\ A \cup B = 0 .. Horizon
      BY <1>5
    <2> HIDE DEF A, B
    <2>2. Rise(P, A) + Rise(P, B) = Rise(P, A \cup B)
      BY <2>1, RiseSplits
    <2> QED BY <2>1, <2>2 DEF A, B
  <1> QED BY <1>6, <1>7, <1>8 DEF all, hours, AddsUp

(***************************************************************************)
(* What the panel has been told, and what is being read for it             *)
(***************************************************************************)

\* An amount is unknown, or is that of some of the samples there are.
Told(amount, points) ==
    /\ amount \in Nat \cup {NaN}
    /\ amount # NaN => \E A \in SUBSET points : amount = Amount(A)

\* A line of the list that covers the window from start to end.
IsLine(r, start, end) ==
    /\ r = [start |-> r.start, end |-> r.end, open |-> r.open, amount |-> r.amount]
    /\ r.start \in start .. end /\ r.end \in start .. end /\ r.start < r.end
    /\ r.open \in BOOLEAN /\ (r.open => r.end = end)
    /\ Told(r.amount, Within(Samples, r))
    /\ r.amount <= delivered[r.end] - delivered[r.start]

Apart(runs) == \A r, s \in runs : r = s \/ s.start - r.end >= Gap \/ r.start - s.end >= Gap

AnswerOK ==
    /\ answer.start \in Nat /\ answer.end \in 0 .. now
    /\ \A r \in answer.list : IsLine(r, answer.start, answer.end)
    /\ Apart(answer.list)

\* The window being read ends now: no instant passes while a query runs.
WindowOK ==
    /\ query.start \in Nat /\ query.end = now /\ query.start < query.end
    /\ IsLog(query.log, query.start, query.end) /\ query.log # {}

\* What is priced was read within the run, and has what the bill says.
IsDue(due) ==
    /\ due.run.start \in 0 .. now /\ due.run.end \in 0 .. now /\ due.run.start < due.run.end
    /\ Series(due.series) /\ \A p \in due.series : p.at \in due.run.start .. due.run.end
    /\ due.run.amount \in Nat \cup {NaN}
    /\ query.whole /\ due.run.amount # NaN => due.run.amount <= Rise(due.series, 0 .. Horizon)

QueryOK ==
    /\ query = NoQuery \/ query.step \in {"held", "series", "hours", "price"}
    /\ query.step \in {"held", "series"} => WindowOK
    /\ query.step = "series" =>
          /\ query.held \in State
          /\ query.runs = Segment(Collapse(query.log), query.held, query.start, query.end)
    /\ query.step = "hours" =>
          /\ kind = "session"
          /\ query.run.start \in 0 .. now /\ query.run.end \in 0 .. now
          /\ query.run.start < query.run.end
          /\ Told(query.run.amount, InRange(Samples, query.run.start, query.run.end))
    /\ query.step = "price" =>
          /\ query = [step |-> "price", whole |-> query.whole, due |-> query.due]
          /\ \A due \in query.due : IsDue(due)

DetailOK ==
    /\ detail.amount \in Nat \cup {NaN}
    /\ detail.whole /\ detail.listed # NaN =>
          (\E p \in Samples : p.at = detail.end) \/ detail.amount >= detail.listed

BillOK == bill.amount \in Nat \cup {NaN} /\ BillsAddUp

CacheOK == cache \subseteq 0 .. HourOf(Horizon)

PanelOK == AnswerOK /\ QueryOK /\ DetailOK /\ BillOK /\ CacheOK

LEMMA InitPanelOK == Init => PanelOK
  <1> SUFFICES ASSUME Init PROVE PanelOK
    OBVIOUS
  <1>1. /\ answer = NoAnswer /\ query = NoQuery /\ detail = NoDetail /\ bill = NoBill
        /\ cache = {} /\ now = 0
    BY DEF Init
  <1>2. AnswerOK
    BY <1>1 DEF AnswerOK, NoAnswer, Apart
  <1>3. query.step = "none"
    BY <1>1 DEF NoQuery
  <1>4. QueryOK
    BY <1>1, <1>3 DEF QueryOK
  <1>5. DetailOK
    BY <1>1 DEF DetailOK, NoDetail
  <1>6. BillOK
    BY <1>1 DEF BillOK, BillsAddUp, NoBill
  <1> QED BY <1>1, <1>2, <1>4, <1>5, <1>6 DEF PanelOK, CacheOK

LEMMA AnswerStays ==
    ASSUME StoreOK, [Next]_vars, AnswerOK, answer' = answer
    PROVE  AnswerOK'
  <1>1. /\ Samples \subseteq Samples' /\ now \in Nat /\ now' \in Nat /\ now <= now'
        /\ \A t \in 0 .. now : delivered'[t] = delivered[t]
    BY SamplesGrow
  <1>2. ASSUME NEW r \in answer.list PROVE IsLine(r, answer.start, answer.end)'
    <2>1. IsLine(r, answer.start, answer.end) /\ answer.start \in Nat /\ answer.end \in 0 .. now
      BY DEF AnswerOK
    <2>2. delivered'[r.start] = delivered[r.start] /\ delivered'[r.end] = delivered[r.end]
      BY <1>1, <2>1 DEF IsLine
    <2>3. Told(r.amount, Within(Samples, r))'
      <3>1. Within(Samples, r) \subseteq Within(Samples', r)
        BY <1>1 DEF Within
      <3>2. Told(r.amount, Within(Samples, r))
        BY <2>1 DEF IsLine
      <3>3. (Within(Samples, r))' = Within(Samples', r)
        BY DEF Within
      <3>4. \A A : Amount(A)' = Amount(A)
        BY SamplesGrow DEF Amount
      <3> QED BY <3>1, <3>2, <3>3, <3>4 DEF Told
    <2> QED BY <2>1, <2>2, <2>3 DEF IsLine
  <1> QED BY <1>1, <1>2 DEF AnswerOK, Apart

LEMMA QueryStays ==
    ASSUME StoreOK, [Next]_vars, QueryOK, query' = query, query = NoQuery \/ now' = now
    PROVE  QueryOK'
  <1>1. Samples \subseteq Samples' /\ kind' = kind
    BY SamplesGrow
  <1>2. CASE query = NoQuery
    <2>1. query'.step = "none" /\ query' = NoQuery
      BY <1>2 DEF NoQuery
    <2> QED BY <2>1 DEF QueryOK
  <1>3. CASE now' = now
    <2>1. query.step = "hours" =>
             Told(query.run.amount, InRange(Samples, query.run.start, query.run.end))'
      <3> SUFFICES ASSUME query.step = "hours"
                   PROVE  Told(query.run.amount, InRange(Samples, query.run.start, query.run.end))'
        OBVIOUS
      <3>1. Told(query.run.amount, InRange(Samples, query.run.start, query.run.end))
        BY DEF QueryOK
      <3>2. InRange(Samples, query.run.start, query.run.end)
               \subseteq (InRange(Samples, query.run.start, query.run.end))'
        BY <1>1 DEF InRange
      <3>3. \A A : Amount(A)' = Amount(A)
        BY <1>1 DEF Amount
      <3> QED BY <3>1, <3>2, <3>3 DEF Told
    <2>2. WindowOK => WindowOK'
      BY <1>3 DEF WindowOK
    <2>3. \A due : IsDue(due) => IsDue(due)'
      BY <1>3 DEF IsDue
    <2> QED BY <1>1, <1>3, <2>1, <2>2, <2>3 DEF QueryOK
  <1> QED BY <1>2, <1>3

LEMMA DetailStays ==
    ASSUME StoreOK, [Next]_vars, DetailOK, detail' = detail \/ detail' = NoDetail
    PROVE  DetailOK'
  <1>1. Samples \subseteq Samples'
    BY SamplesGrow
  <1>2. CASE detail' = NoDetail
    BY <1>2 DEF DetailOK, NoDetail
  <1>3. CASE detail' = detail
    BY <1>1, <1>3 DEF DetailOK
  <1> QED BY <1>2, <1>3

LEMMA BillStays ==
    ASSUME BillOK, bill' = bill \/ bill' = NoBill
    PROVE  BillOK'
  <1>1. CASE bill' = NoBill
    BY <1>1 DEF BillOK, BillsAddUp, NoBill
  <1>2. CASE bill' = bill
    BY <1>2 DEF BillOK, BillsAddUp
  <1> QED BY <1>1, <1>2

LEMMA CacheStays ==
    ASSUME CacheOK, cache' = cache
    PROVE  CacheOK'
  BY DEF CacheOK

(***************************************************************************)
(* What each handler tells and asks                                        *)
(***************************************************************************)

LEMMA TickPanelOK ==
    ASSUME StoreOK, PanelOK, Tick
    PROVE  PanelOK'
  <1>1. /\ answer' = answer /\ query = NoQuery /\ query' = query /\ detail' = NoDetail
        /\ bill' = NoBill /\ cache' = cache /\ [Next]_vars
    BY DEF Tick, Next
  <1> QED BY <1>1, AnswerStays, QueryStays, DetailStays, BillStays, CacheStays DEF PanelOK

LEMMA WritePanelOK ==
    ASSUME StoreOK, PanelOK, Write \/ UNCHANGED vars
    PROVE  PanelOK'
  <1>1. /\ answer' = answer /\ now' = now /\ query' = query /\ detail' = detail
        /\ bill' = bill /\ cache' = cache /\ [Next]_vars
    BY DEF Write, Next, vars, carVars
  <1> QED BY <1>1, AnswerStays, QueryStays, DetailStays, BillStays, CacheStays DEF PanelOK

\* What a handler reads is what is stored.
LEMMA ReadersKeep ==
    ASSUME StoreOK, Handler
    PROVE  /\ Samples' = Samples /\ now' = now /\ now \in 0 .. Horizon /\ delivered' = delivered
           /\ kind' = kind /\ \A A : Amount(A)' = Amount(A)
           /\ [Next]_vars
  <1>1. KeepsStore
    BY HandlersRead
  <1>2. [Next]_vars
    BY DEF Handler, Next
  <1> QED BY <1>1, <1>2 DEF KeepsStore, Samples, Amount, StoreOK, CarOK

LEMMA AskPanelOK ==
    ASSUME StoreOK, PanelOK, Ask
    PROVE  PanelOK'
  <1>0. /\ now' = now /\ now \in Nat /\ now \in 0 .. Horizon /\ [Next]_vars
        /\ detail' = detail /\ bill' = bill /\ cache' = cache
    <2>1. Handler
      BY DEF Handler
    <2>2. now' = now /\ now \in 0 .. Horizon /\ [Next]_vars
      BY <2>1, ReadersKeep
    <2> QED BY <2>2, HistoryAssumption DEF Ask
  <1>1. DetailOK' /\ BillOK' /\ CacheOK'
    BY <1>0, DetailStays, BillStays, CacheStays DEF PanelOK
  <1>2. PICK start \in Starts, whole \in BOOLEAN :
           LET found == InRange(Readings, start, now) IN
           /\ start < now
           /\ IF whole /\ found # {}
              THEN /\ query' = [step |-> "held", start |-> start, end |-> now, log |-> found]
                   /\ answer' = answer
              ELSE /\ answer' = [NoAnswer EXCEPT !.start = start, !.end = now, !.whole = whole]
                   /\ query' = query
    BY DEF Ask
  <1>3. start \in Nat
    BY HistoryAssumption
  <1> DEFINE found == InRange(Readings, start, now)
  <1>4. CASE whole /\ found # {}
    <2>1. query' = [step |-> "held", start |-> start, end |-> now, log |-> found] /\ answer' = answer
      BY <1>2, <1>4
    <2>2. AnswerOK'
      BY <1>0, <2>1, AnswerStays DEF PanelOK
    <2>3. History(found) /\ \A p \in found : p.at \in start .. now - 1
      <3>1. found \subseteq readings
        BY DEF InRange, Readings
      <3>2. History(readings)
        BY DEF StoreOK, ReadingsOK
      <3>3. \A p \in readings : p.at \in Int
        BY <3>2, HistoryAssumption DEF History
      <3>4. \A p \in found : start <= p.at /\ p.at < now
        BY DEF InRange
      <3> QED BY <1>0, <1>3, <3>1, <3>2, <3>3, <3>4, PartOfHistory
    <2> HIDE DEF found
    <2>4. query'.step = "held" /\ query'.start = start /\ query'.end = now /\ query'.log = found
      BY <2>1
    <2>5. WindowOK'
      BY <1>0, <1>2, <1>3, <1>4, <2>3, <2>4 DEF WindowOK, IsLog, History
    <2>6. QueryOK'
      BY <2>4, <2>5 DEF QueryOK
    <2> QED BY <1>1, <2>2, <2>6 DEF PanelOK
  <1>5. CASE ~(whole /\ found # {})
    <2>1. answer' = [NoAnswer EXCEPT !.start = start, !.end = now, !.whole = whole] /\ query' = query
      BY <1>2, <1>5
    <2>2. answer'.start = start /\ answer'.end = now /\ answer'.list = {}
      BY <2>1 DEF NoAnswer
    <2>3. AnswerOK'
      BY <1>0, <1>3, <2>2 DEF AnswerOK, Apart
    <2>4. QueryOK'
      BY <1>0, <2>1, QueryStays DEF PanelOK
    <2> QED BY <1>1, <2>3, <2>4 DEF PanelOK
  <1> QED BY <1>4, <1>5

LEMMA HeldIsState ==
    ASSUME StoreOK, NEW start
    PROVE  HeldBefore(start) \in State /\ IdleState \in State
  <1>1. IdleState \in State
    BY HistoryAssumption DEF IdleState
  <1> DEFINE before == {p \in Readings : p.at < start}
  <1>2. CASE before = {}
    BY <1>1, <1>2 DEF HeldBefore
  <1>3. CASE before # {}
    <2>1. before \subseteq readings
      BY DEF Readings
    <2>2. History(before)
      BY <2>1, PartOfHistory DEF StoreOK, ReadingsOK
    <2>3. Latest(before) \in readings
      BY <1>3, <2>1, <2>2, LatestIs
    <2>4. Latest(before).value \in State
      BY <2>3 DEF StoreOK, ReadingsOK, Point
    <2> QED BY <1>1, <1>3, <2>4 DEF HeldBefore
  <1> QED BY <1>2, <1>3

LEMMA ReadHeldPanelOK ==
    ASSUME StoreOK, PanelOK, ReadHeld
    PROVE  PanelOK'
  <1>0. /\ now' = now /\ [Next]_vars /\ query.step = "held" /\ WindowOK
        /\ answer' = answer /\ detail' = detail /\ bill' = bill /\ cache' = cache
    BY ReadersKeep DEF ReadHeld, Handler, PanelOK, QueryOK
  <1>1. AnswerOK' /\ DetailOK' /\ BillOK' /\ CacheOK'
    BY <1>0, AnswerStays, DetailStays, BillStays, CacheStays DEF PanelOK
  <1>2. PICK whole \in BOOLEAN :
           LET held == IF whole THEN HeldBefore(query.start) ELSE IdleState IN
           query' = [step |-> "series", whole |-> whole, start |-> query.start,
                     end |-> query.end, log |-> query.log, held |-> held,
                     runs |-> Segment(Collapse(query.log), held, query.start, query.end)]
    BY DEF ReadHeld
  <1> DEFINE held == IF whole THEN HeldBefore(query.start) ELSE IdleState
  <1>3. held \in State
    BY HeldIsState
  <1>4. /\ query'.step = "series" /\ query'.start = query.start /\ query'.end = query.end
        /\ query'.log = query.log /\ query'.held = held
        /\ query'.runs = Segment(Collapse(query.log), held, query.start, query.end)
    BY <1>2
  <1> HIDE DEF held
  <1>5. WindowOK'
    BY <1>0, <1>4 DEF WindowOK
  <1>6. QueryOK'
    BY <1>3, <1>4, <1>5 DEF QueryOK
  <1> QED BY <1>1, <1>6 DEF PanelOK

\* The runs of the window being read.
LEMMA QueryRuns ==
    ASSUME StoreOK, QueryOK, query.step = "series"
    PROVE  /\ query.start \in Nat /\ query.end = now /\ now \in 0 .. Horizon /\ query.start < now
           /\ query.runs = FoundRuns(Held(Timeline(Collapse(query.log), query.held, query.start),
                                          query.start, now), query.start, now)
           /\ \A r \in query.runs :
                 /\ r = [start |-> r.start, end |-> r.end, open |-> r.end = now]
                 /\ r.start \in query.start .. now - 1 /\ r.end \in query.start .. now
                 /\ r.start < r.end
           /\ Apart(query.runs)
  <1>1. WindowOK /\ query.runs = Segment(Collapse(query.log), query.held, query.start, query.end)
    BY DEF QueryOK
  <1>2. /\ query.start \in Nat /\ query.end = now /\ now \in 0 .. Horizon /\ query.start < now
        /\ now \in Nat /\ query.log # {} /\ IsLog(query.log, query.start, now) /\ now <= Horizon
    BY <1>1, HistoryAssumption DEF WindowOK, StoreOK, CarOK
  <1> DEFINE H == Held(Timeline(Collapse(query.log), query.held, query.start), query.start, now)
  <1>3. query.runs = FoundRuns(H, query.start, now)
    BY <1>1, <1>2, SegmentIs
  <1> HIDE DEF H
  <1>4. /\ \A r \in query.runs :
              /\ r = [start |-> r.start, end |-> r.end, open |-> r.end = now]
              /\ r.start \in query.start .. now - 1 /\ r.end \in query.start .. now
              /\ r.start < r.end
        /\ Apart(query.runs)
    BY <1>2, <1>3, RunsOfWindow DEF Apart
  <1> QED BY <1>2, <1>3, <1>4 DEF H

\* A run of the window becomes a line, whatever could be read of the counter.
LEMMA MeasuredIsLine ==
    ASSUME StoreOK, QueryOK, query.step = "series", NEW run \in query.runs,
           NEW series \in SUBSET Samples
    PROVE  /\ IsLine(Measured(run, series), query.start, query.end)
           /\ Measured(run, series).start = run.start /\ Measured(run, series).end = run.end
           /\ Measured(run, series).amount = Amount(Within(series, run))
           /\ Meter(Within(series, run))
           /\ \A p \in Within(series, run) : p.at \in run.start .. run.end
  <1> DEFINE r == Measured(run, series)
             A == Within(series, run)
  <1>0. /\ run.start \in query.start .. now - 1 /\ run.end \in query.start .. now
        /\ run.start < run.end /\ query.start \in Nat /\ query.end = now /\ now \in 0 .. Horizon
        /\ run = [start |-> run.start, end |-> run.end, open |-> run.end = now]
    BY QueryRuns
  <1>1. r = [start |-> run.start, end |-> run.end, open |-> run.open, amount |-> Amount(A)]
    BY DEF Measured
  <1> HIDE DEF r, A
  <1>2. r.start = run.start /\ r.end = run.end /\ r.open = run.open /\ r.amount = Amount(A)
    BY <1>1
  <1>3. run.open = (run.end = now)
    BY <1>0
  <1>4. A \subseteq Samples /\ \A p \in A : p.at \in run.start .. run.end
    <2>1. A \subseteq Samples /\ \A p \in A : run.start <= p.at /\ p.at <= run.end
      BY DEF A, Within
    <2>2. \A p \in Samples : p.at \in 0 .. now
      BY SamplesAre
    <2> QED BY <1>0, <2>1, <2>2
  <1>5. Meter(A)
    BY <1>4, SamplesAre, PartOfMeter
  <1>6. Amount(A) <= delivered[run.end] - delivered[run.start]
    <2>1. run.start \in Nat /\ run.end \in Nat /\ run.start <= run.end
      BY <1>0
    <2>2. /\ \A t \in run.start .. run.end : delivered[t] \in Nat
          /\ \A t, u \in run.start .. run.end : t <= u => delivered[t] <= delivered[u]
      <3>1. run.start .. run.end \subseteq 0 .. now
        BY <1>0
      <3>2. /\ \A t \in 0 .. now : delivered[t] \in Nat
            /\ \A t, u \in 0 .. now : t <= u => delivered[t] <= delivered[u]
        BY DEF StoreOK, CarOK
      <3> QED BY <3>1, <3>2
    <2>3. \A p, q \in A : p.at <= q.at => q.value - p.value <= delivered[q.at] - delivered[p.at]
      BY <1>4, SamplesAre
    <2> QED BY <1>4, <1>5, <2>1, <2>2, <2>3, AmountBound
  <1>7. Amount(A) \in Nat \cup {NaN}
    BY <1>5, AmountIs
  <1>8. A \in SUBSET Within(Samples, r)
    BY <1>2, <1>4 DEF Within, A
  <1>9. Told(r.amount, Within(Samples, r))
    BY <1>2, <1>7, <1>8 DEF Told
  <1>10. r = [start |-> r.start, end |-> r.end, open |-> r.open, amount |-> r.amount]
    BY <1>1, <1>2
  <1>11. r.open \in BOOLEAN /\ (r.open => r.end = query.end)
    <2>1. r.open = (run.end = now)
      BY <1>2, <1>3
    <2>2. (run.end = now) \in BOOLEAN
      OBVIOUS
    <2> QED BY <1>0, <1>2, <2>1, <2>2
  <1>12. IsLine(r, query.start, query.end)
    <2>1. /\ r.start \in query.start .. query.end /\ r.end \in query.start .. query.end
          /\ r.start < r.end /\ r.amount <= delivered[r.end] - delivered[r.start]
      BY <1>0, <1>2, <1>6
    <2> QED BY <1>9, <1>10, <1>11, <2>1 DEF IsLine
  <1> QED BY <1>2, <1>4, <1>5, <1>12 DEF r, A

LEMMA ReadSeriesPanelOK ==
    ASSUME StoreOK, PanelOK, ReadSeries
    PROVE  PanelOK'
  <1>h. Handler
    BY DEF Handler
  <1>0. /\ now' = now /\ [Next]_vars /\ query.step = "series" /\ QueryOK
        /\ Samples' = Samples /\ delivered' = delivered /\ kind' = kind
        /\ \A A : Amount(A)' = Amount(A)
        /\ detail' = detail /\ bill' = bill /\ cache' = cache
    BY <1>h, ReadersKeep DEF ReadSeries, PanelOK
  <1>1. DetailOK' /\ BillOK' /\ CacheOK'
    BY <1>0, DetailStays, BillStays, CacheStays DEF PanelOK
  <1>2. PICK whole \in BOOLEAN :
           LET series == IF whole THEN InRange(Samples, query.start, query.end) ELSE {}
               list == Listed(query.runs, series)
           IN /\ answer' = [start |-> query.start, end |-> query.end, list |-> list,
                            whole |-> whole /\ query.whole]
              /\ \/ query' = NoQuery
                 \/ /\ kind = "session"
                    /\ query' = [step |-> "price", whole |-> TRUE,
                                 due |-> {[run |-> run, series |-> Within(series, run)] :
                                             run \in list}]
    BY DEF ReadSeries
  <1> DEFINE series == IF whole THEN InRange(Samples, query.start, query.end) ELSE {}
             list == Listed(query.runs, series)
  <1>3. series \in SUBSET Samples
    BY DEF InRange
  <1>4. /\ answer'.start = query.start /\ answer'.end = query.end /\ answer'.list = list
        /\ \/ query' = NoQuery
           \/ /\ kind = "session"
              /\ query' = [step |-> "price", whole |-> TRUE,
                           due |-> {[run |-> run, series |-> Within(series, run)] : run \in list}]
    BY <1>2
  <1> HIDE DEF series
  <1>5. /\ query.start \in Nat /\ query.end = now /\ now \in 0 .. Horizon /\ query.start < now
        /\ now \in Nat /\ Apart(query.runs)
    BY <1>0, QueryRuns
  <1>6. \A r \in list : \E run \in query.runs : r = Measured(run, series)
    BY DEF Listed
  <1> HIDE DEF list
  <1>7. ASSUME NEW r \in list
        PROVE  /\ IsLine(r, query.start, query.end)
               /\ Meter(Within(series, r)) /\ r.amount = Amount(Within(series, r))
               /\ \A p \in Within(series, r) : p.at \in r.start .. r.end
    <2>1. PICK run \in query.runs : r = Measured(run, series)
      BY <1>6
    <2>2. /\ IsLine(r, query.start, query.end) /\ r.start = run.start /\ r.end = run.end
          /\ r.amount = Amount(Within(series, run)) /\ Meter(Within(series, run))
          /\ \A p \in Within(series, run) : p.at \in run.start .. run.end
      BY <1>0, <1>3, <2>1, MeasuredIsLine
    <2>3. Within(series, r) = Within(series, run)
      BY <2>2 DEF Within
    <2> QED BY <2>2, <2>3
  <1>8. Apart(list)
    <2> SUFFICES ASSUME NEW r \in list, NEW s \in list
                 PROVE  r = s \/ s.start - r.end >= Gap \/ r.start - s.end >= Gap
      BY DEF Apart
    <2>1. PICK a \in query.runs : r = Measured(a, series)
      BY <1>6
    <2>2. PICK b \in query.runs : s = Measured(b, series)
      BY <1>6
    <2>3. r.start = a.start /\ r.end = a.end /\ s.start = b.start /\ s.end = b.end
      BY <2>1, <2>2 DEF Measured
    <2> QED BY <1>5, <2>1, <2>2, <2>3 DEF Apart
  <1>9. AnswerOK'
    <2>1. ASSUME NEW r \in list PROVE IsLine(r, answer.start, answer.end)'
      <3>1. IsLine(r, query.start, query.end)
        BY <1>7
      <3>2. Told(r.amount, Within(Samples, r))'
        <4>1. Told(r.amount, Within(Samples, r)) /\ (Within(Samples, r))' = Within(Samples, r)
          BY <1>0, <3>1 DEF IsLine, Within
        <4> QED BY <1>0, <4>1 DEF Told
      <3> QED BY <1>0, <1>4, <3>1, <3>2 DEF IsLine
    <2>2. \A r \in answer'.list : IsLine(r, answer.start, answer.end)'
      BY <1>4, <2>1
    <2>3. Apart(answer.list)'
      BY <1>4, <1>8 DEF Apart
    <2> QED BY <1>0, <1>4, <1>5, <2>2, <2>3 DEF AnswerOK
  <1>10. QueryOK'
    <2>1. CASE query' = NoQuery
      <3>1. query'.step = "none"
        BY <2>1 DEF NoQuery
      <3> QED BY <2>1, <3>1 DEF QueryOK
    <2>2. CASE /\ kind = "session"
               /\ query' = [step |-> "price", whole |-> TRUE,
                            due |-> {[run |-> run, series |-> Within(series, run)] : run \in list}]
      <3>1. /\ query'.step = "price" /\ query'.whole = TRUE
            /\ query'.due = {[run |-> run, series |-> Within(series, run)] : run \in list}
        BY <2>2
      <3>2. ASSUME NEW due \in query'.due PROVE IsDue(due)'
        <4>1. PICK r \in list : due = [run |-> r, series |-> Within(series, r)]
          BY <3>1
        <4>2. due.run = r /\ due.series = Within(series, r)
          BY <4>1
        <4>3. /\ IsLine(r, query.start, query.end)
              /\ Meter(due.series) /\ r.amount = Amount(due.series)
              /\ \A p \in due.series : p.at \in r.start .. r.end
          BY <1>7, <4>2
        <4>4. /\ r.start \in 0 .. now /\ r.end \in 0 .. now /\ r.start < r.end
              /\ r.amount \in Nat \cup {NaN}
          BY <1>5, <4>3 DEF IsLine, Told
        <4>5. r.amount # NaN => r.amount <= Rise(due.series, 0 .. Horizon)
          <5>1. r.amount = PositiveIncrement(due.series)
            BY <2>2, <4>3 DEF Amount
          <5>2. r.amount # NaN => r.amount = Rise(due.series, 0 .. Horizon)
            BY <5>1 DEF PositiveIncrement
          <5>3. Rise(due.series, 0 .. Horizon) \in Nat
            BY <4>3, RiseIsNat DEF Meter
          <5> QED BY <5>2, <5>3
        <4> QED BY <1>0, <4>2, <4>3, <4>4, <4>5 DEF IsDue, Meter
      <3> QED BY <2>2, <3>1, <3>2 DEF QueryOK
    <2> QED BY <1>4, <2>1, <2>2
  <1> QED BY <1>1, <1>9, <1>10 DEF PanelOK

LEMMA SummarisePanelOK ==
    ASSUME StoreOK, PanelOK, Summarise
    PROVE  PanelOK'
  <1>h. Handler
    BY DEF Handler
  <1>0. /\ now' = now /\ [Next]_vars /\ AnswerOK /\ now \in Nat
        /\ Samples' = Samples /\ kind' = kind
        /\ \A A : Amount(A)' = Amount(A)
        /\ answer' = answer /\ bill' = bill /\ cache' = cache
    BY <1>h, ReadersKeep, HistoryAssumption DEF Summarise, PanelOK
  <1>1. AnswerOK' /\ BillOK' /\ CacheOK'
    BY <1>0, AnswerStays, BillStays, CacheStays DEF PanelOK
  <1>2. PICK run \in answer.list, whole \in BOOLEAN :
           LET amount == Amount(IF whole THEN InRange(Samples, run.start, run.end) ELSE {}) IN
           /\ detail' = [start |-> run.start, end |-> run.end, listed |-> run.amount,
                         amount |-> amount, whole |-> whole]
           /\ query' = IF kind = "session"
                       THEN [step |-> "hours", run |-> [run EXCEPT !.amount = amount]]
                       ELSE NoQuery
    BY DEF Summarise
  <1> DEFINE read == IF whole THEN InRange(Samples, run.start, run.end) ELSE {}
             amount == Amount(read)
  <1>3. /\ detail'.end = run.end /\ detail'.listed = run.amount
        /\ detail'.amount = amount /\ detail'.whole = whole
        /\ query' = IF kind = "session"
                    THEN [step |-> "hours", run |-> [run EXCEPT !.amount = amount]] ELSE NoQuery
    BY <1>2
  <1>4. read \subseteq InRange(Samples, run.start, run.end)
        /\ (whole => read = InRange(Samples, run.start, run.end))
        /\ read \subseteq Samples
    BY DEF InRange
  <1> HIDE DEF read
  <1>5. Meter(read)
    BY <1>4, SamplesAre, PartOfMeter
  <1>6. amount \in Nat \cup {NaN}
    BY <1>5, AmountIs
  <1> HIDE DEF amount
  <1>7. IsLine(run, answer.start, answer.end) /\ answer.start \in Nat /\ answer.end \in 0 .. now
    BY <1>0 DEF AnswerOK
  <1>8. /\ run.start \in 0 .. now /\ run.end \in 0 .. now /\ run.start < run.end
        /\ run = [start |-> run.start, end |-> run.end, open |-> run.open, amount |-> run.amount]
    BY <1>0, <1>7 DEF IsLine
  <1>9. DetailOK'
    <2>1. ASSUME whole, run.amount # NaN, ~ \E p \in Samples : p.at = run.end
          PROVE  amount >= run.amount
      <3>1. PICK A \in SUBSET Within(Samples, run) : run.amount = Amount(A)
        BY <1>7, <2>1 DEF IsLine, Told
      <3>2. A \subseteq read
        <4>1. \A p \in Samples : p.at \in Int
          BY <1>0, SamplesAre
        <4>2. \A p \in A : p \in Samples /\ run.start <= p.at /\ p.at <= run.end /\ p.at # run.end
          BY <2>1, <3>1 DEF Within
        <4> QED BY <1>4, <1>8, <2>1, <4>1, <4>2 DEF InRange
      <3>3. Amount(A) \in Nat /\ Amount(read) \in Nat /\ Amount(A) <= Amount(read)
        BY <1>5, <2>1, <3>1, <3>2, AmountGrows
      <3> QED BY <3>1, <3>3 DEF amount
    <2> QED BY <1>0, <1>3, <1>6, <2>1 DEF DetailOK
  <1>10. QueryOK'
    <2>1. CASE kind # "session"
      <3>1. query' = NoQuery /\ query'.step = "none"
        BY <1>3, <2>1 DEF NoQuery
      <3> QED BY <3>1 DEF QueryOK
    <2>2. CASE kind = "session"
      <3>1. [run EXCEPT !.amount = amount]
               = [start |-> run.start, end |-> run.end, open |-> run.open, amount |-> amount]
        BY <1>8
      <3>2. /\ query'.step = "hours" /\ query'.run.start = run.start /\ query'.run.end = run.end
            /\ query'.run.amount = amount
        BY <1>3, <2>2, <3>1
      <3>3. Told(amount, InRange(Samples, run.start, run.end))
        BY <1>4, <1>6 DEF Told, amount
      <3>4. Told(query.run.amount, InRange(Samples, query.run.start, query.run.end))'
        BY <1>0, <3>2, <3>3 DEF Told, InRange
      <3> QED BY <1>0, <1>8, <2>2, <3>2, <3>4 DEF QueryOK
    <2> QED BY <2>1, <2>2
  <1> QED BY <1>1, <1>9, <1>10 DEF PanelOK

LEMMA ReadHoursPanelOK ==
    ASSUME StoreOK, PanelOK, ReadHours
    PROVE  PanelOK'
  <1>h. Handler
    BY DEF Handler
  <1>0. /\ now' = now /\ [Next]_vars /\ query.step = "hours" /\ QueryOK /\ now \in Nat
        /\ answer' = answer /\ detail' = detail /\ bill' = bill /\ cache' = cache
    BY <1>h, ReadersKeep, HistoryAssumption DEF ReadHours, PanelOK
  <1>1. AnswerOK' /\ DetailOK' /\ BillOK' /\ CacheOK'
    BY <1>0, AnswerStays, DetailStays, BillStays, CacheStays DEF PanelOK
  <1> DEFINE run == query.run
  <1>2. PICK whole \in BOOLEAN :
           LET series == IF whole THEN InRange(Samples, query.run.start, query.run.end) ELSE {} IN
           query' = [step |-> "price", whole |-> whole,
                     due |-> {[run |-> query.run, series |-> series]}]
    BY DEF ReadHours
  <1> DEFINE series == IF whole THEN InRange(Samples, run.start, run.end) ELSE {}
  <1>3. PICK due : due = [run |-> run, series |-> series]
    OBVIOUS
  <1>4. /\ query'.step = "price" /\ query'.whole = whole /\ query'.due = {due}
        /\ due.run = run /\ due.series = series
        /\ query' = [step |-> "price", whole |-> query'.whole, due |-> query'.due]
    BY <1>2, <1>3
  <1>5. series \subseteq Samples /\ (\A p \in series : run.start <= p.at /\ p.at < run.end)
        /\ (whole => series = InRange(Samples, run.start, run.end))
    BY DEF InRange
  <1> HIDE DEF series
  <1>6. /\ kind = "session" /\ run.start \in 0 .. now /\ run.end \in 0 .. now /\ run.start < run.end
        /\ Told(run.amount, InRange(Samples, run.start, run.end))
    BY <1>0 DEF QueryOK
  <1> HIDE DEF run
  <1>7. Meter(series) /\ \A p \in series : p.at \in run.start .. run.end
    <2>1. \A p \in Samples : p.at \in 0 .. now
      BY SamplesAre
    <2> QED BY <1>0, <1>5, <1>6, <2>1, SamplesAre, PartOfMeter
  <1>8. whole /\ run.amount # NaN => run.amount <= Rise(series, 0 .. Horizon)
    <2> SUFFICES ASSUME whole, run.amount # NaN PROVE run.amount <= Rise(series, 0 .. Horizon)
      OBVIOUS
    <2>1. PICK A \in SUBSET series : run.amount = Amount(A)
      BY <1>5, <1>6 DEF Told
    <2>2. Amount(series) \in Nat /\ run.amount <= Amount(series)
      BY <1>7, <2>1, AmountGrows
    <2>3. Amount(series) = PositiveIncrement(series) /\ Amount(series) # NaN
      BY <1>6, <2>2 DEF Amount, NaN
    <2>4. Amount(series) = Rise(series, 0 .. Horizon)
      BY <2>3 DEF PositiveIncrement
    <2> QED BY <2>2, <2>4
  <1>9. IsDue(due)'
    <2>1. run.amount \in Nat \cup {NaN}
      BY <1>6 DEF Told
    <2> QED BY <1>0, <1>4, <1>6, <1>7, <1>8, <2>1 DEF IsDue, Meter
  <1>10. QueryOK'
    BY <1>4, <1>9 DEF QueryOK
  <1> QED BY <1>1, <1>10 DEF PanelOK

LEMMA PricePanelOK ==
    ASSUME StoreOK, PanelOK, Price
    PROVE  PanelOK'
  <1>h. Handler
    BY DEF Handler
  <1>0. /\ now' = now /\ [Next]_vars /\ query.step = "price" /\ QueryOK
        /\ now \in Nat /\ Horizon \in Nat /\ now <= Horizon
        /\ answer' = answer /\ detail' = detail
    BY <1>h, ReadersKeep, HistoryAssumption DEF Price, PanelOK
  <1>1. AnswerOK' /\ DetailOK'
    BY <1>0, AnswerStays, DetailStays DEF PanelOK
  <1>2. PICK due \in query.due :
           LET hours == PriceHours(due.run)
               all == HourOf(0) .. HourOf(Horizon) IN
           /\ cache' = cache \/ cache' = cache \cup hours
           /\ bill' = [start |-> due.run.start, end |-> due.run.end, amount |-> due.run.amount,
                       spot |-> ByHour(due.series, hours \cap cache'),
                       flat |-> ByHour(due.series, all \ (hours \cap cache')),
                       late |-> ByHour(due.series, {HourOf(due.run.end)} \ hours),
                       whole |-> query.whole /\ hours \subseteq cache']
           /\ query' = IF query.due = {due} THEN NoQuery ELSE [query EXCEPT !.due = @ \ {due}]
    BY DEF Price
  <1> DEFINE hours == PriceHours(due.run)
             all == HourOf(0) .. HourOf(Horizon)
             start == due.run.start
             end == due.run.end
             P == due.series
  <1>3. IsDue(due)
    BY <1>0 DEF QueryOK
  <1>4. /\ start \in Nat /\ end \in Nat /\ start < end /\ end <= Horizon /\ end - 1 \in Nat
        /\ Series(P) /\ \A p \in P : p.at \in start .. end
    BY <1>0, <1>3 DEF IsDue
  <1>5. /\ cache' = cache \/ cache' = cache \cup hours
        /\ bill'.amount = due.run.amount
        /\ bill'.spot = ByHour(P, hours \cap cache')
        /\ bill'.flat = ByHour(P, all \ (hours \cap cache'))
        /\ bill'.late = ByHour(P, {HourOf(end)} \ hours)
        /\ bill'.whole = (query.whole /\ hours \subseteq cache')
        /\ query' = IF query.due = {due} THEN NoQuery ELSE [query EXCEPT !.due = @ \ {due}]
    BY <1>2
  <1>6. hours = HourOf(start) .. HourOf(end - 1)
    BY DEF PriceHours
  <1> HIDE DEF hours, all, start, end, P
  <1>7. CacheOK'
    <2>1. HourOf(start) \in Nat /\ HourOf(end - 1) \in Nat /\ HourOf(Horizon) \in Nat
          /\ HourOf(end - 1) <= HourOf(Horizon)
      <3>1. end - 1 <= Horizon
        BY <1>0, <1>4
      <3> QED BY <1>0, <1>4, <3>1, HourIs, HoursInOrder
    <2>2. hours \subseteq 0 .. HourOf(Horizon)
      BY <1>6, <2>1
    <2> QED BY <1>5, <2>2 DEF CacheOK, PanelOK
  <1>8. BillOK'
    <2>1. bill'.amount \in Nat \cup {NaN}
      BY <1>3, <1>5 DEF IsDue
    <2>2. ASSUME bill'.whole, bill'.amount # NaN
          PROVE  bill'.flat = bill'.late /\ bill'.spot + bill'.flat >= bill'.amount
      <3>1. hours \subseteq cache' /\ query.whole
        BY <1>5, <2>2
      <3>2. hours \cap cache' = hours
        BY <3>1
      <3>3. /\ ByHour(P, all \ hours) = ByHour(P, {HourOf(end)} \ hours)
            /\ ByHour(P, hours) + ByHour(P, all \ hours) = Rise(P, 0 .. Horizon)
        <4>1. all = HourOf(0) .. HourOf(Horizon)
          BY DEF all
        <4>2. AddsUp(P, hours, end)
          BY <1>4, <1>6, HoursAddUp
        <4> QED BY <4>1, <4>2 DEF AddsUp
      <3>4. bill'.amount <= Rise(P, 0 .. Horizon)
        BY <1>3, <1>5, <2>2, <3>1 DEF IsDue, P
      <3>5. Rise(P, 0 .. Horizon) \in Nat
        BY <1>4, RiseIsNat
      <3> QED BY <1>5, <2>1, <2>2, <3>2, <3>3, <3>4, <3>5
    <2> QED BY <2>1, <2>2 DEF BillOK, BillsAddUp
  <1>9. QueryOK'
    <2>1. CASE query.due = {due}
      <3>1. query' = NoQuery /\ query'.step = "none"
        BY <1>5, <2>1 DEF NoQuery
      <3> QED BY <3>1 DEF QueryOK
    <2>2. CASE query.due # {due}
      <3>1. query' = [query EXCEPT !.due = @ \ {due}]
        BY <1>5, <2>2
      <3>2. /\ query'.step = "price" /\ query'.whole = query.whole /\ query'.due \subseteq query.due
            /\ query' = [step |-> "price", whole |-> query'.whole, due |-> query'.due]
        <4>1. query = [step |-> "price", whole |-> query.whole, due |-> query.due]
          BY <1>0 DEF QueryOK
        <4>2. query' = [step |-> "price", whole |-> query.whole, due |-> query.due \ {due}]
          BY <3>1, <4>1
        <4> QED BY <4>2
      <3>3. \A d \in query.due : IsDue(d)
        BY <1>0 DEF QueryOK
      <3>4. \A d \in query.due : IsDue(d)'
        BY <1>0, <3>2, <3>3 DEF IsDue
      <3> QED BY <3>2, <3>4 DEF QueryOK
    <2> QED BY <2>1, <2>2
  <1> QED BY <1>1, <1>7, <1>8, <1>9 DEF PanelOK

LEMMA StepPanelOK == StoreOK /\ PanelOK /\ [Next]_vars => PanelOK'
  <1> SUFFICES ASSUME StoreOK, PanelOK, [Next]_vars PROVE PanelOK'
    OBVIOUS
  <1>1. CASE Tick
    BY <1>1, TickPanelOK
  <1>2. CASE Write \/ UNCHANGED vars
    BY <1>2, WritePanelOK
  <1>3. CASE Ask
    BY <1>3, AskPanelOK
  <1>4. CASE ReadHeld
    BY <1>4, ReadHeldPanelOK
  <1>5. CASE ReadSeries
    BY <1>5, ReadSeriesPanelOK
  <1>6. CASE Summarise
    BY <1>6, SummarisePanelOK
  <1>7. CASE ReadHours
    BY <1>7, ReadHoursPanelOK
  <1>8. CASE Price
    BY <1>8, PricePanelOK
  <1> QED BY <1>1, <1>2, <1>3, <1>4, <1>5, <1>6, <1>7, <1>8 DEF Next

(***************************************************************************)
(* What the panels are told                                                *)
(***************************************************************************)

LEMMA HistoryInvariant == Spec => [](StoreOK /\ PanelOK)
  <1>1. Init => StoreOK /\ PanelOK
    BY InitStoreOK, InitPanelOK
  <1>2. StoreOK /\ PanelOK /\ [Next]_vars => (StoreOK /\ PanelOK)'
    BY StepStoreOK, StepPanelOK
  <1> QED BY <1>1, <1>2, PTL DEF Spec

LEMMA TypesHold ==
    ASSUME StoreOK, PanelOK
    PROVE  TypeOK
  <1>0. now \in 0 .. Horizon /\ now \in Nat /\ Horizon \in Nat /\ CarOK /\ now <= Horizon
    BY HistoryAssumption DEF StoreOK, CarOK
  <1>1. /\ kind \in Kinds /\ now \in 0 .. Horizon /\ state \in State /\ counter \in 0 .. delivered[now]
        /\ delivered \in [0 .. now -> Nat] /\ stored \in 0 .. now /\ troubles \in 0 .. MaxTroubles
    <2>1. delivered[now] \in Nat
      BY <1>0 DEF CarOK
    <2> QED BY <1>0, <2>1 DEF CarOK
  <1>2. /\ readings \subseteq Point(State) /\ samples \subseteq Point(Nat)
        /\ \A p, q \in readings : p.at = q.at => p = q
        /\ \A p, q \in samples : p.at = q.at => p = q
    BY DEF StoreOK, ReadingsOK, SamplesOK, History
  <1>3. query = NoQuery \/ query.step \in {"held", "series", "hours", "price"}
    BY DEF PanelOK, QueryOK
  <1>4. query.step = "series" => query.runs \subseteq Run /\ query.held \in State
    <2> SUFFICES ASSUME query.step = "series" PROVE query.runs \subseteq Run /\ query.held \in State
      OBVIOUS
    <2>1. query.held \in State
      BY DEF PanelOK, QueryOK
    <2>2. ASSUME NEW r \in query.runs PROVE r \in Run
      <3>1. /\ r = [start |-> r.start, end |-> r.end, open |-> r.end = now]
            /\ r.start \in query.start .. now - 1 /\ r.end \in query.start .. now
            /\ query.start \in Nat
        BY QueryRuns DEF PanelOK
      <3>2. r.start \in 0 .. Horizon /\ r.end \in 0 .. Horizon
        BY <1>0, <3>1
      <3>3. PICK open \in BOOLEAN : open = (r.end = now)
        OBVIOUS
      <3>4. r = [start |-> r.start, end |-> r.end, open |-> open]
        BY <3>1, <3>3
      <3> QED BY <3>2, <3>4 DEF Run
    <2> QED BY <2>1, <2>2
  <1>5. \A run \in answer.list :
          /\ run.amount \in Nat \cup {NaN}
          /\ answer.start <= run.start /\ run.start < run.end /\ run.end <= answer.end
          /\ run.open => run.end = answer.end
    BY DEF PanelOK, AnswerOK, IsLine, Told
  <1>6. /\ detail.amount \in Nat \cup {NaN} /\ cache \subseteq 0 .. HourOf(Horizon)
        /\ bill.amount \in Nat \cup {NaN}
    BY DEF PanelOK, DetailOK, CacheOK, BillOK
  <1> QED BY <1>1, <1>2, <1>3, <1>4, <1>5, <1>6 DEF TypeOK

LEMMA TrueRunsFound ==
    ASSUME StoreOK, PanelOK
    PROVE  RunsAreFound
  <1> SUFFICES ASSUME query.step = "series", ~ChangesAtTheEdge(query)
               PROVE  query.runs = TrueRuns(query)
    BY DEF RunsAreFound, Found
  <1>1. /\ query.start \in Nat /\ query.end = now /\ now \in 0 .. Horizon /\ query.start < now
        /\ query.runs = FoundRuns(Held(Timeline(Collapse(query.log), query.held, query.start),
                                       query.start, now), query.start, now)
    BY QueryRuns DEF PanelOK
  <1>2. IsLog(query.log, query.start, query.end)
    BY DEF PanelOK, QueryOK, WindowOK
  <1>3. query.end \in Nat /\ query.end <= Horizon
    BY <1>1, HistoryAssumption
  <1> DEFINE T == Timeline(Collapse(query.log), query.held, query.start)
             H == Held(T, query.start, query.end)
  <1>4. \A t \in query.start .. query.end - 1 : StateAt(T, t) = HeldAt(query, t)
    BY <1>1, <1>2, <1>3, StatesAgree
  <1>5. \A t \in query.start .. query.end - 1 : H[t] = HeldAt(query, t)
    BY <1>1, <1>3, <1>4 DEF Held
  <1> HIDE DEF H
  <1>6. TrueRuns(query) = FoundRuns(H, query.start, query.end)
    BY <1>1, <1>3, <1>5, TrueRunsAre
  <1> QED BY <1>1, <1>6 DEF H

\* The store, the queries and what the loaders tell keep their types; the runs of a list
\* (list_trips, list_sessions) lie in its window.
THEOREM HistoryTypeCorrect == Spec => []TypeOK
  BY HistoryInvariant, TypesHold, PTL

\* The runs segment finds are those of the held states, for every log, window and Gap.
THEOREM RunsAlwaysFound == Spec => []RunsAreFound
  BY HistoryInvariant, TrueRunsFound, PTL

\* No kilometre and no kilowatt-hour is counted twice, or taken from outside its run
\* (_window_distance, _window_energy, positive_increment).
THEOREM CountedOnceAlways == Spec => []CountedOnce
  <1>1. StoreOK /\ PanelOK => CountedOnce
    BY DEF PanelOK, AnswerOK, Apart, IsLine, CountedOnce
  <1> QED BY <1>1, HistoryInvariant, PTL

\* List, summary and bill (list_sessions, load_summary, __cost) tell the same amount of a run.
THEOREM ReadingsAlwaysAgree == Spec => []ReadingsAgree
  <1>1. StoreOK /\ PanelOK => ReadingsAgree
    BY DEF PanelOK, DetailOK, BillOK, ReadingsAgree, DetailAgrees
  <1> QED BY <1>1, HistoryInvariant, PTL

(***************************************************************************)
(* What is listed as over stays                                            *)
(***************************************************************************)

\* The states up to an instant come from the log up to it.
LEMMA PrefixStates ==
    ASSUME NEW log, History(log), NEW start \in Int, NEW s \in Int, start < s, NEW held,
           NEW t \in start .. s - 1
    PROVE  StateAt(Timeline(Collapse(Before(log, s)), held, start), t)
              = StateAt(Timeline(Collapse(log), held, start), t)
  <1> DEFINE A == Timeline(Collapse(Before(log, s)), held, start)
             B == Timeline(Collapse(log), held, start)
             first == [at |-> start, value |-> held]
  <1>0. \A p \in log : p.at \in Int
    BY HistoryAssumption DEF History
  <1>1. \A p \in log : p.at < s => Before(Before(log, s), p.at) = Before(log, p.at)
    BY <1>0 DEF Before
  <1>2. \A p : p \in Collapse(Before(log, s)) <=> p \in Collapse(log) /\ p.at < s
    BY <1>0, <1>1 DEF Collapse, Before
  <1>3. \A p : p \in Collapse(log) => p.at \in Int
    BY <1>0 DEF Collapse
  <1>4. first.at = start
    OBVIOUS
  <1>5. \A p : /\ p \in A <=> p = first \/ (p \in Collapse(Before(log, s)) /\ p.at > start)
               /\ p \in B <=> p = first \/ (p \in Collapse(log) /\ p.at > start)
    BY DEF Timeline
  <1> HIDE DEF A, B, first
  <1>6. Before(A, t + 1) = Before(B, t + 1)
    <2>1. ASSUME NEW p, p.at < t + 1 PROVE p \in A <=> p \in B
      <3>1. p \in Collapse(log) => p.at < s
        BY <1>3, <2>1
      <3> QED BY <1>2, <1>5, <3>1
    <2>2. \A p : p \in A /\ p.at < t + 1 <=> p \in B /\ p.at < t + 1
      BY <2>1
    <2> QED BY <2>2 DEF Before
  <1> QED BY <1>6 DEF StateAt, A, B

\* After the last of its points nothing changes.
LEMMA LastStateHolds ==
    ASSUME NEW T, History(T), NEW s \in Int, \A p \in T : p.at < s,
           NEW t \in Int, s - 1 <= t
    PROVE  StateAt(T, t) = StateAt(T, s - 1)
  <1>0. \A p \in T : p.at \in Int
    BY HistoryAssumption DEF History
  <1>1. Before(T, t + 1) = T /\ Before(T, s - 1 + 1) = T
    BY <1>0 DEF Before
  <1> QED BY <1>1 DEF StateAt

\* A stretch depends on the states up to its end.
LEMMA StretchSame ==
    ASSUME NEW H, NEW G, NEW start \in Int, NEW f \in Int, NEW l \in Int, start <= f,
           \A t \in start .. l : H[t] = G[t], IsStretch(H, start, f, l)
    PROVE  IsStretch(G, start, f, l)
  <1>0. Gap \in Nat /\ Gap # 0 /\ f <= l
    BY HistoryAssumption DEF IsStretch
  <1>1. ASSUME NEW w \in Int, start <= w, w <= l - Gap
        PROVE  PauseIn(H, w) <=> PauseIn(G, w)
    <2>1. \A t \in w .. w + Gap - 1 : t \in start .. l
      BY <1>0, <1>1
    <2>2. w \in start .. l
      BY <1>0, <1>1
    <2>3. H[w] = G[w] /\ \A t \in w .. w + Gap - 1 : H[t] = G[t]
      BY <2>1, <2>2
    <2> QED BY <2>3 DEF PauseIn
  <1>2. ASSUME NEW a \in Int, NEW b \in Int, start <= a, b <= l
        PROVE  JoinedIn(H, a, b) <=> JoinedIn(G, a, b)
    <2>1. \A w \in a .. b - Gap : w \in Int /\ start <= w /\ w <= l - Gap
      BY <1>0, <1>2
    <2> QED BY <1>1, <2>1 DEF JoinedIn
  <1>3. ActiveIn(H, start, f) = ActiveIn(G, start, f)
    <2>1. \A t \in start .. f - 1 : H[t] = G[t]
      BY <1>0
    <2> QED BY <2>1 DEF ActiveIn
  <1>4. IsFirst(G, start, f)
    <2>1. \A u \in ActiveIn(H, start, f) : u \in Int /\ start <= u
      BY DEF ActiveIn
    <2>2. \A u \in ActiveIn(H, start, f) : JoinedIn(H, u, f) <=> JoinedIn(G, u, f)
      BY <1>0, <1>2, <2>1
    <2> QED BY <1>3, <2>2 DEF IsFirst, IsStretch
  <1>5. H[f] = G[f] /\ H[l] = G[l]
    BY <1>0
  <1>6. JoinedIn(G, f, l)
    BY <1>0, <1>2 DEF IsStretch
  <1> QED BY <1>0, <1>4, <1>5, <1>6 DEF IsStretch

\* A stretch is the beginning of a run.
LEMMA StretchExtends ==
    ASSUME NEW H, NEW start \in Nat, NEW end \in Nat, NEW f \in Int, NEW l \in Int,
           start <= f, l < end, IsStretch(H, start, f, l)
    PROVE  \E m \in l .. end - 1 : IsRun(H, start, end, f, m)
  <1> DEFINE S == {m \in l .. end - 1 : IsActive(H[m]) /\ JoinedIn(H, f, m)}
  <1>0. f <= l /\ IsActive(H[f]) /\ IsActive(H[l]) /\ IsFirst(H, start, f) /\ JoinedIn(H, f, l)
    BY DEF IsStretch
  <1>1. l \in S /\ S \subseteq Nat /\ \A m \in S : m <= end
    BY <1>0
  <1>2. PICK m \in S : \A n \in S : n <= m
    <2> HIDE DEF S
    <2>1. S # {}
      BY <1>1
    <2> QED BY <1>1, <2>1, HasGreatest
  <1>3. m \in l .. end - 1 /\ IsActive(H[m]) /\ JoinedIn(H, f, m)
    BY <1>2
  <1>4. ASSUME NEW u \in ActiveIn(H, m + 1, end) PROVE ~JoinedIn(H, m, u)
    <2> SUFFICES ASSUME JoinedIn(H, m, u) PROVE FALSE
      OBVIOUS
    <2>1. u \in m + 1 .. end - 1 /\ IsActive(H[u])
      BY DEF ActiveIn
    <2>2. JoinedIn(H, f, u)
      <3>1. m \in Int /\ u \in Int /\ f <= m /\ m <= u
        BY <1>0, <1>3, <2>1
      <3> QED BY <1>3, <3>1, JoinedOn
    <2>3. u \in S
      BY <1>3, <2>1, <2>2
    <2> QED BY <1>2, <1>3, <2>1, <2>3
  <1>5. IsStretch(H, start, f, m)
    BY <1>0, <1>3 DEF IsStretch
  <1>6. IsLast(H, m, end)
    BY <1>4 DEF IsLast
  <1>7. f \in start .. end - 1 /\ m \in start .. end - 1
    BY <1>0, <1>3
  <1> QED BY <1>3, <1>5, <1>6, <1>7 DEF IsRun

\* What is over was over before the log ends: a state that is held to the end is open.
LEMMA ClosedEarlier ==
    ASSUME NEW H, NEW start \in Nat, NEW end \in Nat, NEW f, NEW l, IsRun(H, start, end, f, l),
           l + 1 # end, NEW s \in Int, start < s,
           \A t \in s - 1 .. end - 1 : H[t] = H[s - 1]
    PROVE  l + 1 < s
  <1> SUFFICES ASSUME s - 1 <= l PROVE FALSE
    BY DEF IsRun
  <1>0. Gap \in Nat /\ Gap # 0 /\ l \in start .. end - 1 /\ l < end - 1 /\ IsActive(H[l])
    BY HistoryAssumption DEF IsRun, IsStretch
  <1>1. \A t \in l .. end - 1 : IsActive(H[t])
    <2>1. H[l] = H[s - 1]
      BY <1>0
    <2>2. \A t \in l .. end - 1 : H[t] = H[s - 1]
      BY <1>0
    <2> QED BY <1>0, <2>1, <2>2
  <1>2. end - 1 \in ActiveIn(H, l + 1, end)
    BY <1>0, <1>1 DEF ActiveIn
  <1>3. JoinedIn(H, l, end - 1)
    <2> SUFFICES ASSUME NEW w \in l .. end - 1 - Gap PROVE ~PauseIn(H, w)
      BY DEF JoinedIn
    <2>1. w \in l .. end - 1
      BY <1>0
    <2> QED BY <1>1, <2>1 DEF PauseIn
  <1> QED BY <1>2, <1>3 DEF IsRun, IsLast

\* The readings from start on that come before s.
Log(start, s) == {p \in readings : start <= p.at /\ p.at < s}

\* The states from start on, as far as they are written.
StatesFrom(start) ==
    Held(Timeline(Collapse(Log(start, stored)), HeldBefore(start), start), start, now)

\* What no later reading, sample or new session of the charger takes back.
Certain(run, start) ==
    /\ start \in Nat /\ start <= run.start /\ run.start < run.end /\ run.end < stored
    /\ run.start \in Int /\ run.end \in Int
    /\ Log(start, stored) # {}
    /\ IsStretch(StatesFrom(start), start, run.start, run.end - 1)
    /\ run.amount \in Nat /\ Kept(run.amount)
    /\ Amount(Within(Samples, run)) \in Nat /\ run.amount <= Amount(Within(Samples, run))

\* A line that was read as a whole, is over and has an amount.
Over(run) == answer.whole /\ ~run.open /\ run.amount # NaN

ListStands == \A run \in answer.list : Over(run) => Certain(run, answer.start)

\* The log being read is a prefix of what there is, and has all that is over.
LogStands ==
    query.step \in {"held", "series"} =>
        \E s \in query.start + 1 .. stored :
           /\ query.log = Log(query.start, s)
           /\ \A run \in answer.list :
                 Over(run) /\ answer.start = query.start => run.end < s
           /\ query.step = "series" /\ query.whole => query.held = HeldBefore(query.start)

\* What has been written stays written.
LEMMA ReadingsStay ==
    ASSUME StoreOK, [Next]_vars
    PROVE  /\ stored \in Nat /\ stored' \in Nat /\ stored <= stored'
           /\ \A p : p.at < stored => (p \in readings' <=> p \in readings)
  <1>0. stored \in Nat /\ now \in Nat /\ stored <= now
    BY DEF StoreOK, CarOK
  <1>1. CASE Tick
    <2>1. stored' = stored
      BY <1>1 DEF Tick
    <2>2. now' = now + 1
      BY <1>1 DEF Tick
    <2>3. readings' = readings \/ readings' = readings \cup {[at |-> now', value |-> state']}
      BY <1>1 DEF Tick
    <2>4. ~(now' < stored)
      BY <1>0, <2>2
    <2>5. \A p : p.at < stored => p # [at |-> now', value |-> state']
      BY <2>4
    <2> QED BY <1>0, <2>1, <2>3, <2>5
  <1>2. CASE Write
    <2>1. stored' = stored + 1
      BY <1>2 DEF Write
    <2>2. readings' = readings \/ readings' = {p \in readings : p.at # stored}
      BY <1>2 DEF Write
    <2>3. ~(stored < stored)
      BY <1>0
    <2>4. \A p : p.at < stored => p.at # stored
      BY <2>3
    <2> QED BY <1>0, <2>1, <2>2, <2>4
  <1>3. CASE Handler
    <2>1. KeepsStore
      BY <1>3, HandlersRead
    <2> QED BY <1>0, <2>1 DEF KeepsStore
  <1>4. CASE UNCHANGED vars
    BY <1>0, <1>4 DEF vars, storeVars
  <1> QED BY <1>1, <1>2, <1>3, <1>4 DEF Next, Handler

LEMMA LogStays ==
    ASSUME StoreOK, [Next]_vars, NEW start \in Int, NEW s \in Int, s <= stored
    PROVE  /\ Log(start, s)' = Log(start, s)
           /\ start <= stored => HeldBefore(start)' = HeldBefore(start)
  <1>0. /\ stored \in Nat /\ stored' \in Nat /\ stored <= stored'
        /\ \A p : p.at < stored => (p \in readings' <=> p \in readings)
    BY ReadingsStay
  <1>1. (\A p \in readings : p.at \in Int) /\ (\A p \in readings' : p.at \in Int)
    <2>1. StoreOK'
      BY StepStoreOK
    <2> QED BY <2>1, HistoryAssumption DEF StoreOK, ReadingsOK, History
  <1>2. Log(start, s)' = Log(start, s)
    <2>1. \A p : (p \in readings' /\ p.at < s) <=> (p \in readings /\ p.at < s)
      BY <1>0, <1>1
    <2> QED BY <2>1 DEF Log
  <1>3. ASSUME start <= stored PROVE HeldBefore(start)' = HeldBefore(start)
    <2>1. {p \in Readings : p.at < start} = {p \in readings : p.at < start}
      BY <1>0, <1>1, <1>3 DEF Readings
    <2>2. {p \in Readings' : p.at < start} = {p \in readings' : p.at < start}
      BY <1>0, <1>1, <1>3 DEF Readings
    <2>3. {p \in readings' : p.at < start} = {p \in readings : p.at < start}
      BY <1>0, <1>1, <1>3
    <2>4. {p \in Readings' : p.at < start} = {p \in Readings : p.at < start}
      BY <2>1, <2>2, <2>3
    <2> QED BY <2>4 DEF HeldBefore
  <1> QED BY <1>2, <1>3

AgreeUpTo(H, G, start, l) == \A t \in start .. l : H[t] = G[t]

\* The states of a log and of a longer one are the same as far as the first goes.
LEMMA LogPrefix ==
    ASSUME NEW long, History(long), NEW start \in Nat, NEW s \in Int, start < s, NEW held,
           NEW a \in Nat, NEW b \in Nat, NEW l \in Int, l < s, l <= a, l <= b
    PROVE  AgreeUpTo(Held(Timeline(Collapse(Before(long, s)), held, start), start, a),
                     Held(Timeline(Collapse(long), held, start), start, b), start, l)
  <1> SUFFICES ASSUME NEW t \in start .. l
               PROVE  Held(Timeline(Collapse(Before(long, s)), held, start), start, a)[t]
                         = Held(Timeline(Collapse(long), held, start), start, b)[t]
    BY DEF AgreeUpTo
  <1>1. t \in start .. s - 1 /\ t \in start .. a /\ t \in start .. b
    OBVIOUS
  <1>2. StateAt(Timeline(Collapse(Before(long, s)), held, start), t)
           = StateAt(Timeline(Collapse(long), held, start), t)
    BY <1>1, PrefixStates
  <1> QED BY <1>1, <1>2 DEF Held

LEMMA LogIs ==
    ASSUME StoreOK, NEW start \in Int, NEW s \in Int, NEW u \in Int, s <= u
    PROVE  History(Log(start, u)) /\ Log(start, s) = Before(Log(start, u), s)
           /\ \A p \in Log(start, s) : p.at < s
  <1>1. History(readings) /\ \A p \in readings : p.at \in Int
    BY HistoryAssumption DEF StoreOK, ReadingsOK, History
  <1>2. Log(start, u) \subseteq readings
    BY DEF Log
  <1>3. Log(start, s) = Before(Log(start, u), s)
    BY <1>1 DEF Log, Before
  <1> QED BY <1>1, <1>2, <1>3, PartOfHistory DEF Log

\* What is certain stays certain.
LEMMA CertainStays ==
    ASSUME StoreOK, [Next]_vars, NEW run, NEW start, Certain(run, start)
    PROVE  Certain(run, start)'
  <1>0. /\ start \in Nat /\ start <= run.start /\ run.start < run.end /\ run.end < stored
        /\ run.start \in Int /\ run.end \in Int
        /\ stored \in Nat /\ stored' \in Nat /\ stored <= stored'
        /\ now \in Nat /\ now' \in Nat /\ now <= now' /\ stored <= now
    <2>1. stored \in Nat /\ stored' \in Nat /\ stored <= stored'
      BY ReadingsStay
    <2>2. now \in Nat /\ now' \in Nat /\ now <= now'
      BY SamplesGrow
    <2>3. stored <= now
      BY <2>2 DEF StoreOK, CarOK
    <2> QED BY <2>1, <2>2, <2>3 DEF Certain
  <1>1. StoreOK' /\ kind' = kind /\ Samples \subseteq Samples'
    BY StepStoreOK, SamplesGrow
  <1> DEFINE long == {p \in readings' : start <= p.at /\ p.at < stored'}
             short == Log(start, stored)
             held == HeldBefore(start)
  <1>2. /\ History(long) /\ short = Before(long, stored) /\ held' = held
        /\ long = Log(start, stored)'
    <2>1. History(long) /\ \A p \in readings' : p.at \in Int
      BY <1>1, HistoryAssumption, PartOfHistory DEF StoreOK, ReadingsOK, History
    <2>2. Log(start, stored) = {p \in readings' : start <= p.at /\ p.at < stored}
      BY <1>0, ReadingsStay DEF Log
    <2>3. short = Before(long, stored)
      BY <1>0, <2>1, <2>2 DEF Before
    <2>4. held' = held
      BY <1>0, LogStays
    <2> QED BY <2>1, <2>3, <2>4 DEF Log
  <1>3. Log(start, stored)' # {}
    <2>1. short # {}
      BY DEF Certain
    <2> QED BY <1>2, <2>1 DEF Before
  <1>4. IsStretch(StatesFrom(start)', start, run.start, run.end - 1)
    <2> DEFINE H == Held(Timeline(Collapse(short), held, start), start, now)
               G == Held(Timeline(Collapse(long), held, start), start, now')
               l == run.end - 1
    <2>1. StatesFrom(start) = H
      BY DEF StatesFrom
    <2>2. StatesFrom(start)' = G
      <3>1. StatesFrom(start)'
               = Held(Timeline(Collapse(Log(start, stored)'), HeldBefore(start)', start), start, now')
        BY DEF StatesFrom, Held, Timeline, Collapse, Before, Latest, StateAt
      <3> QED BY <1>2, <3>1
    <2> HIDE DEF long, short, held
    <2>3. \A t \in start .. l : H[t] = G[t]
      <3>1. l \in Int /\ l < stored /\ l <= now /\ l <= now' /\ start < stored /\ stored \in Int
        BY <1>0
      <3> HIDE DEF l
      <3>2. AgreeUpTo(Held(Timeline(Collapse(Before(long, stored)), held, start), start, now), G,
                      start, l)
        <4>1. now \in Nat /\ now' \in Nat /\ start \in Nat /\ History(long)
          BY <1>0, <1>2
        <4> QED BY <3>1, <4>1, LogPrefix
      <3> QED BY <1>2, <3>2 DEF AgreeUpTo
    <2> HIDE DEF H, G
    <2>4. IsStretch(H, start, run.start, l)
      BY <2>1 DEF Certain
    <2>5. start \in Int /\ l \in Int
      BY <1>0
    <2> HIDE DEF l
    <2>6. IsStretch(G, start, run.start, l)
      BY <1>0, <2>3, <2>4, <2>5, StretchSame
    <2> QED BY <2>2, <2>6 DEF l
  <1>5. /\ Amount(Within(Samples, run))' \in Nat
        /\ run.amount <= Amount(Within(Samples, run))'
    <2>1. Within(Samples, run) \subseteq Within(Samples', run)
      BY <1>1 DEF Within
    <2>2. Meter(Within(Samples', run))
      <3>1. samples' \subseteq Point(Nat) /\ History(samples') /\ (kind = "trip" => Rising(samples'))
        BY <1>1 DEF StoreOK, SamplesOK, History, Rising
      <3>2. Meter(samples')
        BY <3>1 DEF Meter, Series, Point
      <3>3. Within(Samples', run) \subseteq samples'
        BY DEF Within, Samples
      <3> QED BY <3>2, <3>3, PartOfMeter
    <2>3. Amount(Within(Samples, run)) \in Nat /\ run.amount \in Nat
          /\ run.amount <= Amount(Within(Samples, run))
      BY DEF Certain
    <2>4. Amount(Within(Samples, run)) # NaN
      BY <2>3 DEF NaN
    <2>5. Amount(Within(Samples', run)) \in Nat
          /\ Amount(Within(Samples, run)) <= Amount(Within(Samples', run))
      BY <2>1, <2>2, <2>4, AmountGrows
    <2>6. Amount(Within(Samples, run))' = Amount(Within(Samples', run))
      BY <1>1 DEF Amount, Within
    <2> QED BY <2>3, <2>5, <2>6
  <1>6. Kept(run.amount)' /\ run.amount \in Nat
    BY <1>1 DEF Certain, Kept
  <1> QED BY <1>0, <1>3, <1>4, <1>5, <1>6 DEF Certain

LEMMA ListStandsStill ==
    ASSUME StoreOK, [Next]_vars, ListStands, answer' = answer
    PROVE  ListStands'
  <1> SUFFICES ASSUME NEW run \in answer.list, Over(run)' PROVE Certain(run, answer.start)'
    BY DEF ListStands
  <1>1. PICK start : start = answer.start
    OBVIOUS
  <1>2. Certain(run, start)
    BY <1>1 DEF ListStands, Over
  <1>3. Certain(run, start)'
    BY <1>2, CertainStays
  <1>4. start = answer'.start
    BY <1>1
  <1> QED BY <1>3, <1>4 DEF Certain, StatesFrom, Log, Held, Timeline, HeldBefore

\* The log of a query stands while the query waits, and when it learns of the state before.
LEMMA LogStandsStill ==
    ASSUME StoreOK, [Next]_vars, LogStands, answer' = answer,
           query.step \in {"held", "series"} /\ query'.step \in {"held", "series"} =>
              /\ query'.start = query.start /\ query'.log = query.log
              /\ query'.step = "series" /\ query'.whole =>
                    \/ query'.held = HeldBefore(query.start)
                    \/ query.step = "series" /\ query.whole /\ query'.held = query.held,
           query'.step \in {"held", "series"} => query.step \in {"held", "series"},
           query'.step \in {"held", "series"} => query.start \in Nat
    PROVE  LogStands'
  <1> SUFFICES ASSUME query'.step \in {"held", "series"}
               PROVE  \E s \in query'.start + 1 .. stored' :
                         /\ query'.log = Log(query.start, s)'
                         /\ \A run \in answer'.list :
                               Over(run)' /\ answer'.start = query'.start => run.end < s
                         /\ query'.step = "series" /\ query'.whole =>
                               query'.held = HeldBefore(query.start)'
    BY DEF LogStands
  <1>1. PICK s \in query.start + 1 .. stored :
           /\ query.log = Log(query.start, s)
           /\ \A run \in answer.list : Over(run) /\ answer.start = query.start => run.end < s
           /\ query.step = "series" /\ query.whole => query.held = HeldBefore(query.start)
    BY DEF LogStands
  <1>2. PICK start : start = query.start
    OBVIOUS
  <1>3. start \in Nat /\ s \in Int /\ stored \in Nat /\ stored' \in Nat /\ stored <= stored'
        /\ start < s /\ s <= stored /\ start <= stored /\ start \in Int
    BY <1>1, <1>2, ReadingsStay
  <1>4. Log(start, s)' = Log(start, s) /\ HeldBefore(start)' = HeldBefore(start)
    BY <1>3, LogStays
  <1>5. query'.start = start /\ query'.log = query.log
    BY <1>2
  <1>6. Log(query.start, s)' = Log(start, s) /\ HeldBefore(query.start)' = HeldBefore(start)
    BY <1>4, <1>5 DEF Log, HeldBefore
  <1>7. \A run : Over(run)' <=> Over(run)
    BY DEF Over
  <1>8. s \in query'.start + 1 .. stored'
    BY <1>3, <1>5
  <1> QED BY <1>1, <1>2, <1>5, <1>6, <1>7, <1>8

\* A line of a list that was read as a whole.
LEMMA LineIsCertain ==
    ASSUME StoreOK, QueryOK, LogStands, query.step = "series", query.whole,
           NEW run \in query.runs, NEW r,
           r = Measured(run, InRange(Samples, query.start, query.end)),
           Kept(r.amount), ~r.open, r.amount # NaN
    PROVE  Certain(r, query.start)
  <1>0. /\ query.start \in Nat /\ query.end = now /\ now \in 0 .. Horizon /\ query.start < now
        /\ now \in Nat /\ Horizon \in Nat /\ now <= Horizon
        /\ query.runs = FoundRuns(Held(Timeline(Collapse(query.log), query.held, query.start),
                                       query.start, now), query.start, now)
    BY QueryRuns, HistoryAssumption
  <1>1. PICK s \in query.start + 1 .. stored :
           query.log = Log(query.start, s) /\ query.held = HeldBefore(query.start)
    BY DEF LogStands
  <1> DEFINE long == Log(query.start, stored)
             start == query.start
             T == Timeline(Collapse(query.log), query.held, start)
             H == Held(T, start, now)
             G == Held(Timeline(Collapse(long), query.held, start), start, now)
  <1>2. s \in Int /\ start < s /\ s <= stored /\ stored \in Nat /\ stored <= now
    BY <1>0, <1>1 DEF StoreOK, CarOK
  <1>3. /\ History(long) /\ query.log = Before(long, s) /\ \A p \in query.log : p.at < s
        /\ query.log # {} /\ IsLog(query.log, start, now)
    <2>1. query.log # {} /\ IsLog(query.log, start, now)
      BY <1>0 DEF QueryOK, WindowOK
    <2>2. start \in Int /\ stored \in Int
      BY <1>0, <1>2
    <2> HIDE DEF start
    <2>3. History(Log(start, stored)) /\ Log(start, s) = Before(Log(start, stored), s)
          /\ \A p \in Log(start, s) : p.at < s
      BY <1>2, <2>2, LogIs
    <2> QED BY <1>1, <2>1, <2>3 DEF start
  <1>4. long # {}
    BY <1>3 DEF Before
  <1>5. StatesFrom(start) = G
    BY <1>1 DEF StatesFrom
  <1> HIDE DEF long, start
  <1>6. IsTimeline(T, start, now) /\ \A p \in T : p.at < s
    <2>1. IsTimeline(T, start, now)
      BY <1>0, <1>3, TimelineIs DEF start
    <2>2. \A p \in T : p.at < s
      BY <1>2, <1>3 DEF Timeline, Collapse
    <2> QED BY <2>1, <2>2
  <1> HIDE DEF T
  <1>7. \A t \in s - 1 .. now - 1 : H[t] = H[s - 1]
    <2>1. \A t \in start .. now : H[t] = StateAt(T, t)
      BY DEF Held
    <2>2. \A t \in s - 1 .. now - 1 : StateAt(T, t) = StateAt(T, s - 1)
      BY <1>2, <1>6, LastStateHolds DEF IsTimeline
    <2>3. \A t \in s - 1 .. now - 1 : t \in start .. now
      BY <1>0, <1>2 DEF start
    <2>4. s - 1 \in start .. now
      BY <1>0, <1>2 DEF start
    <2> QED BY <2>1, <2>2, <2>3, <2>4
  <1>8. r.start = run.start /\ r.end = run.end /\ r.open = run.open
        /\ r.amount = Amount(Within(InRange(Samples, start, now), run))
    BY <1>0 DEF Measured, start
  <1>9. query.runs = FoundRuns(H, start, now)
    BY <1>0 DEF T, start
  <1> HIDE DEF H
  <1>10. PICK f, l \in start .. now - 1 : IsRun(H, start, now, f, l) /\ run = RunOf(f, l, now)
    BY <1>9, FoundRunsAre
  <1>11. run.start = f /\ run.end = l + 1 /\ run.open = (l + 1 = now) /\ f <= l
    BY <1>10 DEF RunOf, IsRun, IsStretch
  <1>12. start \in Nat /\ start < now /\ f \in Int /\ l \in Int /\ start <= f
    BY <1>0, <1>10 DEF start
  <1>13. l + 1 # now
    BY <1>8, <1>11
  <1>14. l + 1 < s
    BY <1>0, <1>2, <1>7, <1>10, <1>12, <1>13, ClosedEarlier
  <1>15. IsStretch(G, start, f, l)
    <2>1. AgreeUpTo(H, G, start, l)
      <3>1. l < s /\ l <= now
        BY <1>0, <1>10, <1>12, <1>14
      <3>2. AgreeUpTo(Held(Timeline(Collapse(Before(long, s)), query.held, start), start, now), G,
                      start, l)
        BY <1>0, <1>2, <1>3, <1>12, <3>1, LogPrefix
      <3> QED BY <1>3, <3>2 DEF H, T
    <2> HIDE DEF G
    <2>2. \A t \in start .. l : H[t] = G[t]
      BY <2>1 DEF AgreeUpTo
    <2>3. start \in Int
      BY <1>12
    <2> QED BY <1>10, <1>12, <2>2, <2>3, StretchSame DEF IsRun
  <1>16. Within(InRange(Samples, start, now), run) = Within(Samples, r)
    <2>1. \A p \in Samples : p.at \in 0 .. now
      BY SamplesAre
    <2>2. \A p \in Samples : f <= p.at /\ p.at <= l + 1 => start <= p.at /\ p.at < now
      BY <1>0, <1>2, <1>12, <1>14, <2>1
    <2> QED BY <1>8, <1>11, <2>2 DEF Within, InRange
  <1>17. r.amount \in Nat
    <2>1. Meter(Within(Samples, r))
      <3>1. Within(Samples, r) \subseteq Samples
        BY DEF Within
      <3> QED BY <3>1, SamplesAre, PartOfMeter
    <2> QED BY <1>8, <1>16, <2>1, AmountIs
  <1>18. r.end - 1 = l /\ r.end < stored /\ r.start < r.end /\ r.start \in Int /\ r.end \in Int
    BY <1>2, <1>8, <1>11, <1>12, <1>14
  <1>19. IsStretch(StatesFrom(start), start, r.start, r.end - 1)
    BY <1>5, <1>8, <1>11, <1>15, <1>18
  <1>20. Log(start, stored) # {}
    BY <1>4 DEF long, start
  <1> HIDE DEF G
  <1>21. start <= r.start
    BY <1>8, <1>11, <1>12
  <1>22. Certain(r, start)
    BY <1>8, <1>12, <1>16, <1>17, <1>18, <1>19, <1>20, <1>21 DEF Certain
  <1> QED BY <1>22 DEF start

LEMMA InitStands == Init => ListStands /\ LogStands
  <1> SUFFICES ASSUME Init PROVE ListStands /\ LogStands
    OBVIOUS
  <1>1. answer = NoAnswer /\ query = NoQuery
    BY DEF Init
  <1>2. query.step = "none" /\ answer.list = {}
    BY <1>1 DEF NoQuery, NoAnswer
  <1> QED BY <1>2 DEF ListStands, LogStands

LEMMA AskStands ==
    ASSUME StoreOK, PanelOK, ListStands, LogStands, Ask
    PROVE  ListStands' /\ LogStands'
  <1>h. Handler /\ [Next]_vars
    BY DEF Handler, Next
  <1>0. /\ stored \in Nat /\ now \in Nat /\ stored <= now /\ query = NoQuery /\ query.step = "none"
        /\ KeepsStore
    BY <1>h, HandlersRead DEF StoreOK, CarOK, Ask, NoQuery
  <1>1. PICK start \in Starts, whole \in BOOLEAN :
           LET found == InRange(Readings, start, now) IN
           /\ start < now
           /\ IF whole /\ found # {}
              THEN /\ query' = [step |-> "held", start |-> start, end |-> now, log |-> found]
                   /\ answer' = answer
              ELSE /\ answer' = [NoAnswer EXCEPT !.start = start, !.end = now, !.whole = whole]
                   /\ query' = query
    BY DEF Ask
  <1> DEFINE found == InRange(Readings, start, now)
  <1>2. start \in Nat
    BY HistoryAssumption
  <1>3. CASE whole /\ found # {}
    <2>1. query' = [step |-> "held", start |-> start, end |-> now, log |-> found] /\ answer' = answer
      BY <1>1, <1>3
    <2>2. ListStands'
      BY <1>h, <2>1, ListStandsStill
    <2>3. found = Log(start, stored)
      <3>1. \A p \in readings : p.at \in Int
        BY HistoryAssumption DEF StoreOK, ReadingsOK, History
      <3> QED BY <1>0, <3>1 DEF InRange, Readings, Log
    <2>4. start < stored
      <3>1. \A p \in readings : p.at \in Int
        BY HistoryAssumption DEF StoreOK, ReadingsOK, History
      <3>2. PICK p \in readings : start <= p.at /\ p.at < stored
        BY <1>3, <2>3 DEF Log
      <3> QED BY <1>0, <1>2, <3>1, <3>2
    <2> HIDE DEF found
    <2>5. query'.step = "held" /\ query'.start = start /\ query'.log = found
      BY <2>1
    <2>6. \A run \in answer.list : Over(run) /\ answer.start = start => run.end < stored
      BY DEF ListStands, Certain
    <2>7. /\ stored \in start + 1 .. stored' /\ Log(start, stored)' = Log(start, stored)
          /\ \A run : Over(run)' <=> Over(run)
      BY <1>0, <1>2, <2>1, <2>4 DEF KeepsStore, Log, Over
    <2>8. LogStands'
      <3>1. /\ stored \in query'.start + 1 .. stored'
            /\ query'.log = {p \in readings' : query'.start <= p.at /\ p.at < stored}
            /\ \A run \in answer'.list :
                  Over(run)' /\ answer'.start = query'.start => run.end < stored
        BY <1>0, <2>1, <2>3, <2>5, <2>6, <2>7 DEF KeepsStore, Log
      <3> QED BY <2>5, <3>1 DEF LogStands, Log
    <2> QED BY <2>2, <2>8
  <1>4. CASE ~(whole /\ found # {})
    <2>1. answer' = [NoAnswer EXCEPT !.start = start, !.end = now, !.whole = whole] /\ query' = query
      BY <1>1, <1>4
    <2>2. answer'.list = {} /\ query'.step = "none"
      BY <1>0, <2>1 DEF NoAnswer
    <2> QED BY <2>2 DEF ListStands, LogStands
  <1> QED BY <1>3, <1>4

LEMMA ReadHeldStands ==
    ASSUME StoreOK, PanelOK, ListStands, LogStands, ReadHeld
    PROVE  ListStands' /\ LogStands'
  <1>h. [Next]_vars
    BY DEF Next
  <1>0. answer' = answer /\ query.step = "held" /\ query.start \in Nat
    BY DEF ReadHeld, PanelOK, QueryOK, WindowOK
  <1>1. ListStands'
    BY <1>h, <1>0, ListStandsStill
  <1>2. PICK whole \in BOOLEAN :
           LET held == IF whole THEN HeldBefore(query.start) ELSE IdleState IN
           query' = [step |-> "series", whole |-> whole, start |-> query.start,
                     end |-> query.end, log |-> query.log, held |-> held,
                     runs |-> Segment(Collapse(query.log), held, query.start, query.end)]
    BY DEF ReadHeld
  <1>3. /\ query'.step = "series" /\ query'.start = query.start /\ query'.log = query.log
        /\ query'.whole => query'.held = HeldBefore(query.start)
    BY <1>2
  <1>4. LogStands'
    BY <1>h, <1>0, <1>3, LogStandsStill
  <1> QED BY <1>1, <1>4

LEMMA ReadSeriesStands ==
    ASSUME StoreOK, PanelOK, ListStands, LogStands, ReadSeries
    PROVE  ListStands' /\ LogStands'
  <1>h. [Next]_vars
    BY DEF Next
  <1>0. query.step = "series" /\ QueryOK
    BY DEF ReadSeries, PanelOK
  <1>1. PICK whole \in BOOLEAN :
           LET series == IF whole THEN InRange(Samples, query.start, query.end) ELSE {}
               list == Listed(query.runs, series)
           IN /\ answer' = [start |-> query.start, end |-> query.end, list |-> list,
                            whole |-> whole /\ query.whole]
              /\ \/ query' = NoQuery
                 \/ query' = [step |-> "price", whole |-> TRUE,
                              due |-> {[run |-> run, series |-> Within(series, run)] :
                                          run \in list}]
    BY DEF ReadSeries
  <1> DEFINE series == IF whole THEN InRange(Samples, query.start, query.end) ELSE {}
  <1>2. /\ answer'.start = query.start /\ answer'.list = Listed(query.runs, series)
        /\ answer'.whole = (whole /\ query.whole)
    BY <1>1
  <1>3. query'.step \in {"none", "price"}
    BY <1>1 DEF NoQuery
  <1>4. LogStands'
    BY <1>3 DEF LogStands
  <1>5. ASSUME NEW r \in answer'.list, Over(r)' PROVE Certain(r, answer.start)'
    <2>1. whole /\ query.whole /\ ~r.open /\ r.amount # NaN
      BY <1>2, <1>5 DEF Over
    <2>2. PICK run \in query.runs : r = Measured(run, series) /\ Kept(r.amount)
      BY <1>2 DEF Listed
    <2>3. series = InRange(Samples, query.start, query.end)
      BY <2>1
    <2>4. Certain(r, query.start)
      BY <1>0, <2>1, <2>2, <2>3, LineIsCertain
    <2>5. PICK start : start = query.start
      OBVIOUS
    <2>6. Certain(r, start)'
      BY <1>h, <2>4, <2>5, CertainStays
    <2>7. start = answer'.start
      BY <1>2, <2>5
    <2> QED BY <2>6, <2>7 DEF Certain, StatesFrom, Log, Held, Timeline, HeldBefore
  <1>6. ListStands'
    BY <1>5 DEF ListStands
  <1> QED BY <1>4, <1>6

LEMMA StepStands ==
    ASSUME StoreOK, PanelOK, ListStands, LogStands, [Next]_vars
    PROVE  ListStands' /\ LogStands'
  <1>1. CASE Tick
    <2>1. answer' = answer /\ query' = NoQuery /\ query'.step = "none"
      BY <1>1 DEF Tick, NoQuery
    <2> QED BY <2>1, ListStandsStill DEF LogStands
  <1>2. CASE Write \/ UNCHANGED vars
    <2>1. answer' = answer /\ query' = query
      BY <1>2 DEF Write, vars
    <2>2. query.step \in {"held", "series"} => query.start \in Nat
      BY DEF PanelOK, QueryOK, WindowOK
    <2>3. query.step = "series" /\ query.whole => query.step = "series" /\ query.whole
      OBVIOUS
    <2>4. LogStands'
      BY <2>1, <2>2, LogStandsStill
    <2> QED BY <2>1, <2>4, ListStandsStill
  <1>3. CASE Ask
    BY <1>3, AskStands
  <1>4. CASE ReadHeld
    BY <1>4, ReadHeldStands
  <1>5. CASE ReadSeries
    BY <1>5, ReadSeriesStands
  <1>6. CASE Summarise \/ ReadHours \/ Price
    <2>1. answer' = answer
      BY <1>6 DEF Summarise, ReadHours, Price
    <2>2. query'.step \in {"none", "hours", "price"}
      <3>1. CASE Summarise
        BY <3>1 DEF Summarise, NoQuery
      <3>2. CASE ReadHours
        BY <3>2 DEF ReadHours
      <3>3. CASE Price
        <4>1. query.step = "price"
          BY <3>3 DEF Price
        <4>2. PICK due : query' = NoQuery \/ query' = [query EXCEPT !.due = @ \ {due}]
          BY <3>3 DEF Price
        <4>3. NoQuery.step = "none"
          BY DEF NoQuery
        <4>4. query = [step |-> "price", whole |-> query.whole, due |-> query.due]
          BY <4>1 DEF PanelOK, QueryOK
        <4>5. query' = [query EXCEPT !.due = @ \ {due}] => query'.step = "price"
          BY <4>4
        <4> QED BY <4>2, <4>3, <4>5
      <3> QED BY <1>6, <3>1, <3>2, <3>3
    <2>3. LogStands'
      BY <2>2 DEF LogStands
    <2> QED BY <2>1, <2>3, ListStandsStill
  <1> QED BY <1>1, <1>2, <1>3, <1>4, <1>5, <1>6 DEF Next

\* A later list has what an earlier one had as over.
StaysListed ==
    \A run \in answer.list :
       /\ answer'.whole /\ answer'.start = answer.start /\ answer'.end >= answer.end
       /\ answer.whole /\ ~run.open /\ run.amount # NaN
       => \E later \in answer'.list :
             /\ later.start = run.start /\ later.end >= run.end
             /\ later.amount >= run.amount

LEMMA LaterHasIt ==
    ASSUME StoreOK, PanelOK, ListStands, LogStands, ReadSeries
    PROVE  StaysListed
  <1> SUFFICES ASSUME NEW run \in answer.list, answer'.whole, answer'.start = answer.start,
                      Over(run)
               PROVE  \E later \in answer'.list :
                         /\ later.start = run.start /\ later.end >= run.end
                         /\ later.amount >= run.amount
    BY DEF StaysListed, Over
  <1>0. query.step = "series" /\ QueryOK
    BY DEF ReadSeries, PanelOK
  <1>1. PICK whole \in BOOLEAN :
           answer' = [start |-> query.start, end |-> query.end,
                      list |-> Listed(query.runs, IF whole THEN InRange(Samples, query.start, query.end)
                                                  ELSE {}),
                      whole |-> whole /\ query.whole]
    BY DEF ReadSeries
  <1>2. whole /\ query.whole /\ answer.start = query.start
    BY <1>1
  <1> DEFINE start == query.start
             series == InRange(Samples, start, now)
  <1>3. /\ start \in Nat /\ query.end = now /\ now \in Nat /\ start < now
        /\ query.runs = FoundRuns(Held(Timeline(Collapse(query.log), query.held, start),
                                       start, now), start, now)
    BY <1>0, QueryRuns, HistoryAssumption
  <1>4. answer'.list = Listed(query.runs, series)
    BY <1>1, <1>2, <1>3
  <1>5. PICK s \in start + 1 .. stored :
           /\ query.log = Log(start, s) /\ query.held = HeldBefore(start)
           /\ run.end < s
    BY <1>0, <1>2 DEF LogStands
  <1>6. Certain(run, start)
    BY <1>2 DEF ListStands
  <1>7. /\ start \in Int /\ s \in Int /\ start < s /\ s <= stored /\ stored \in Nat /\ stored <= now
        /\ run.start \in Int /\ run.end \in Int /\ start <= run.start /\ run.start < run.end
        /\ IsStretch(StatesFrom(start), start, run.start, run.end - 1)
    BY <1>3, <1>5, <1>6 DEF Certain, StoreOK, CarOK
  <1> DEFINE long == Log(start, stored)
             H == Held(Timeline(Collapse(query.log), query.held, start), start, now)
             G == Held(Timeline(Collapse(long), query.held, start), start, now)
             l == run.end - 1
  <1>8. History(long) /\ query.log = Before(long, s)
    <2>1. History(Log(start, stored)) /\ Log(start, s) = Before(Log(start, stored), s)
      BY <1>7, LogIs
    <2> QED BY <1>5, <2>1
  <1>9. StatesFrom(start) = G
    BY <1>5 DEF StatesFrom
  <1>10. l \in Int /\ l < s /\ l <= now /\ l < now
    BY <1>3, <1>5, <1>7
  <1>11. query.runs = FoundRuns(H, start, now)
    BY <1>3
  <1> HIDE DEF start, long
  <1>12. AgreeUpTo(H, G, start, l)
    <2> HIDE DEF l
    <2>1. AgreeUpTo(Held(Timeline(Collapse(Before(long, s)), query.held, start), start, now), G,
                    start, l)
      BY <1>3, <1>7, <1>8, <1>10, LogPrefix
    <2> QED BY <1>8, <2>1
  <1> HIDE DEF H, G
  <1>13. IsStretch(H, start, run.start, l)
    <2>1. \A t \in start .. l : G[t] = H[t]
      BY <1>12 DEF AgreeUpTo
    <2>2. IsStretch(G, start, run.start, l)
      BY <1>7, <1>9
    <2> HIDE DEF l
    <2> QED BY <1>7, <1>10, <2>1, <2>2, StretchSame
  <1>14. PICK m \in l .. now - 1 : IsRun(H, start, now, run.start, m)
    <2> HIDE DEF l
    <2> QED BY <1>3, <1>7, <1>10, <1>13, StretchExtends
  <1> DEFINE found == RunOf(run.start, m, now)
             later == Measured(found, series)
             A == Within(Samples, run)
             B == Within(series, found)
  <1>15. found \in query.runs
    BY <1>11, <1>14, FoundRunsAre DEF IsRun
  <1>16. found.start = run.start /\ found.end = m + 1 /\ m + 1 >= run.end
    BY <1>7, <1>10, <1>14 DEF RunOf
  <1> HIDE DEF found
  <1>17. later.start = run.start /\ later.end >= run.end /\ later.amount = Amount(B)
    BY <1>7, <1>16 DEF Measured
  <1>18. A \subseteq B
    <2>1. \A p \in Samples : p.at \in Int
      BY <1>3, SamplesAre
    <2>2. \A p \in A : p \in Samples /\ run.start <= p.at /\ p.at <= run.end
      BY DEF Within
    <2>3. \A p \in A : start <= p.at /\ p.at < now /\ p.at <= m + 1
      BY <1>3, <1>5, <1>7, <1>10, <1>14, <2>1, <2>2
    <2> QED BY <1>16, <2>2, <2>3 DEF Within, InRange
  <1>19. Meter(B)
    <2>1. B \subseteq Samples
      BY DEF Within, InRange
    <2> QED BY <2>1, SamplesAre, PartOfMeter
  <1>20. /\ Amount(A) \in Nat /\ run.amount <= Amount(A) /\ run.amount \in Nat /\ Kept(run.amount)
    BY <1>6 DEF Certain
  <1> HIDE DEF A, B, later
  <1>21. Amount(B) \in Nat /\ Amount(A) <= Amount(B)
    <2>1. Amount(A) # NaN
      BY <1>20 DEF NaN
    <2> QED BY <1>18, <1>19, <2>1, AmountGrows
  <1>22. later.amount >= run.amount /\ later.amount \in Nat
    BY <1>17, <1>20, <1>21
  <1>23. Kept(later.amount)
    BY <1>20, <1>22, HistoryAssumption DEF Kept, NaN
  <1>24. later \in answer'.list
    BY <1>4, <1>15, <1>23 DEF Listed, later
  <1> QED BY <1>17, <1>22, <1>24

LEMMA ChangesKeepIt ==
    ASSUME StoreOK, PanelOK, ListStands, LogStands, [Next]_vars
    PROVE  answer' = answer \/ StaysListed
  <1>1. CASE ReadSeries
    BY <1>1, LaterHasIt
  <1>2. CASE Ask
    <2> SUFFICES ASSUME answer' # answer, answer'.whole, answer'.start = answer.start,
                        NEW run \in answer.list, Over(run)
                 PROVE  FALSE
      BY DEF StaysListed, Over
    <2>1. PICK start \in Starts, whole \in BOOLEAN :
             /\ answer' = [NoAnswer EXCEPT !.start = start, !.end = now, !.whole = whole]
             /\ ~(whole /\ InRange(Readings, start, now) # {})
      BY <1>2 DEF Ask
    <2>2. whole /\ answer.start = start
      BY <2>1 DEF NoAnswer
    <2>3. InRange(Readings, start, now) = {}
      BY <2>1, <2>2
    <2>4. Log(start, stored) # {}
      BY <2>2 DEF ListStands, Certain
    <2>5. Log(start, stored) \subseteq InRange(Readings, start, now)
      <3>1. \A p \in readings : p.at \in Int
        BY HistoryAssumption DEF StoreOK, ReadingsOK, History
      <3>2. stored \in Nat /\ now \in Nat /\ stored <= now
        BY DEF StoreOK, CarOK
      <3> QED BY <3>1, <3>2 DEF Log, InRange, Readings
    <2> QED BY <2>3, <2>4, <2>5
  <1>3. CASE Tick \/ Write \/ ReadHeld \/ Summarise \/ ReadHours \/ Price \/ UNCHANGED vars
    BY <1>3 DEF Tick, Write, ReadHeld, Summarise, ReadHours, Price, vars
  <1> QED BY <1>1, <1>2, <1>3 DEF Next

\* What has been listed as over stays listed: under its start (Trip.start_ms, by which the
\* panel finds it again), with as late an end and as much in it, whatever is written late.
THEOREM ListedAlwaysStay == Spec => ListedStay
  <1>1. Init => StoreOK /\ PanelOK /\ ListStands /\ LogStands
    BY InitStoreOK, InitPanelOK, InitStands
  <1>2. StoreOK /\ PanelOK /\ ListStands /\ LogStands /\ [Next]_vars
           => (StoreOK /\ PanelOK /\ ListStands /\ LogStands)'
    BY StepStoreOK, StepPanelOK, StepStands
  <1>3. StoreOK /\ PanelOK /\ ListStands /\ LogStands /\ [Next]_vars
           => [StaysListed]_answer
    BY ChangesKeepIt
  <1>4. Spec => [][StaysListed]_answer
    BY <1>1, <1>2, <1>3, PTL DEF Spec
  <1> QED BY <1>4 DEF ListedStay, StaysListed
=============================================================================
