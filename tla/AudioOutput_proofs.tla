------------------------- MODULE AudioOutput_proofs --------------------------
(***************************************************************************)
(* Proofs about AudioOutput, for any outputs, any writes at once and any   *)
(* bounds.                                                                 *)
(*                                                                         *)
(* The plan of the lock's holder is seen through a window of seven places  *)
(* in which "end" follows the last step; Follow says what may follow what, *)
(* and every lemma about a plan is one about those places.  On that rest   *)
(*   TypeInv    types, plans, jobs and the queue                           *)
(*   CurveInv   the chain is opened for a curve                            *)
(*   Choice     the host's own default is remembered, on disk as well      *)
(*   ChainInv   the sink is there while its process runs                   *)
(*   StateInv   the state is on while the chain is                         *)
(*   PlaceInv   where the sound goes while the chain comes and goes        *)
(*   Answered   what the service runs with once no write waits             *)
(*   Sound      what is heard, from one step of a plan to the next         *)
(* Choice and PlaceInv hold unless the host's default was lost, Answered   *)
(* unless a write was cut off, Sound unless either happened or a chain is  *)
(* gone; what was not lost, cut off or gone before a step may be after it. *)
(***************************************************************************)
EXTENDS AudioOutput, TLAPS

(***************************************************************************)
(* The plan of the lock's holder                                           *)
(***************************************************************************)

\* The steps to come, and no more after the last.
ahead == [i \in 1..7 |-> IF i \in DOMAIN lock.plan THEN lock.plan[i] ELSE "end"]
Comes(step) == \E i \in 1..7 : ahead[i] = step

\* What a step is followed by.
Follow(step) ==
    CASE step = "handback" -> {"forget"}
      [] step = "forget" -> {"sync", "stop", "failed"}
      [] step = "stop" -> {"off", "sync"}
      [] step \in {"sync", "start", "on", "failed", "off"} -> {"apply", "end"}
      [] step = "remember" -> {"start"}
      [] step = "target" -> {"takeover", "volume", "end"}
      [] step = "takeover" -> {"on"}
      [] step = "device" -> {"volume", "end"}
      [] OTHER -> {"end"}

LockType ==
    /\ lock \in [owner : Task \cup {None}, plan : Seq(Step)]
    /\ lock.owner = None <=> lock.plan = <<>>

Shape == \A i \in 1..6 : ahead[i + 1] \in Follow(ahead[i])

PlanInv == LockType /\ Shape

LEMMA NoTaskIsNone == None \notin Task /\ Main \in Task /\ \A t \in Request : t \in Task /\ t # Main
  BY ConstantsAssumption DEF Task

LEMMA AheadOf ==
    ASSUME LockType
    PROVE  /\ ahead \in [1..7 -> Step \cup {"end"}]
           /\ lock.plan = <<>> <=> ahead[1] = "end"
           /\ lock.plan # <<>> => Head(lock.plan) = ahead[1]
           /\ Len(lock.plan) \in Nat
           /\ \A i \in 1..7 : ahead[i] = IF i <= Len(lock.plan) THEN lock.plan[i] ELSE "end"
  <1>1. lock.plan \in Seq(Step) /\ "end" \notin Step
    BY DEF LockType, Step
  <1>2. Len(lock.plan) \in Nat /\ \A i \in 1..7 : ahead[i] = IF i <= Len(lock.plan) THEN lock.plan[i] ELSE "end"
    BY <1>1 DEF ahead
  <1>3. \A i \in 1..7 : i <= Len(lock.plan) => lock.plan[i] \in Step
    BY <1>1, <1>2
  <1>4. ahead \in [1..7 -> Step \cup {"end"}]
    BY <1>2, <1>3 DEF ahead
  <1>5. lock.plan = <<>> <=> Len(lock.plan) = 0
    BY <1>1
  <1>6. lock.plan # <<>> => Head(lock.plan) = lock.plan[1] /\ Len(lock.plan) >= 1
    BY <1>1, <1>2, <1>5
  <1> QED BY <1>1, <1>2, <1>3, <1>4, <1>5, <1>6

\* The plan of a holder that goes on.
LEMMA GoesOn ==
    ASSUME LockType, lock.plan # <<>>, NEW plan \in Seq(Step), Go(plan)
    PROVE  /\ LockType'
           /\ \A i \in 1..7 : ahead'[i] = IF i <= Len(plan) THEN plan[i] ELSE "end"
           /\ lock'.owner = IF ahead'[1] = "end" THEN None ELSE lock.owner
  <1> DEFINE planned == lock'.plan
  <1>1. planned = plan /\ lock' \in [owner : Task \cup {None}, plan : Seq(Step)]
    BY DEF Go, Free, LockType
  <1>2. planned = <<>> <=> lock'.owner = None
    BY NoTaskIsNone DEF Go, Free, LockType
  <1>3. LockType'
    BY <1>1, <1>2 DEF LockType
  <1>4. Len(plan) \in Nat /\ \A i \in 1..7 : ahead'[i] = IF i <= Len(plan) THEN plan[i] ELSE "end"
    BY <1>1 DEF ahead
  <1>5. plan = <<>> <=> Len(plan) = 0
    OBVIOUS
  <1>6. \A i \in 1..7 : i <= Len(plan) => plan[i] # "end"
    BY DEF Step
  <1>7. plan = <<>> <=> ahead'[1] = "end"
    BY <1>4, <1>5, <1>6
  <1> QED BY <1>3, <1>4, <1>7 DEF Go, Free

\* It does the next step.
LEMMA GoesOnWithRest ==
    ASSUME PlanInv, lock.plan # <<>>, Go(Rest)
    PROVE  /\ PlanInv'
           /\ \A i \in 1..6 : ahead'[i] = ahead[i + 1]
           /\ ahead'[7] = "end"
           /\ lock'.owner = IF ahead'[1] = "end" THEN None ELSE lock.owner
  <1>1. Rest \in Seq(Step) /\ Len(Rest) = Len(lock.plan) - 1 /\ Len(lock.plan) \in Nat \ {0}
        /\ \A i \in 1..Len(Rest) : Rest[i] = lock.plan[i + 1]
    BY DEF PlanInv, LockType, Rest
  <1>2. \A i \in 1..7 : ahead[i] = IF i <= Len(lock.plan) THEN lock.plan[i] ELSE "end"
    BY AheadOf DEF PlanInv
  <1>3. LockType' /\ \A i \in 1..7 : ahead'[i] = IF i <= Len(Rest) THEN Rest[i] ELSE "end"
    BY <1>1, GoesOn DEF PlanInv
  <1>4. \A i \in 1..6 : ahead'[i] = ahead[i + 1]
    BY <1>1, <1>2, <1>3
  <1>5. ahead[7] = "end"
    BY <1>2 DEF PlanInv, Shape, Follow
  <1>6. ahead'[7] = "end"
    <2>1. 7 <= Len(lock.plan) => lock.plan[7] \in Step
      BY <1>1 DEF PlanInv, LockType
    <2>2. Len(Rest) < 7
      BY <1>1, <1>2, <1>5, <2>1 DEF Step
    <2> QED BY <1>1, <1>3, <2>2
  <1>7. Shape'
    BY <1>4, <1>5, <1>6 DEF PlanInv, Shape, Follow
  <1> QED BY <1>1, <1>3, <1>4, <1>6, <1>7, GoesOn DEF PlanInv

\* It puts other steps before the rest.
Joins(whole, first) == whole = first \o Rest

LEMMA GoesOnWithMore ==
    ASSUME PlanInv, lock.plan # <<>>, NEW first \in Seq(Step), Len(first) <= 5,
           NEW whole, Joins(whole, first), Go(whole)
    PROVE  /\ LockType'
           /\ \A i \in 1..7 : i <= Len(first) => ahead'[i] = first[i]
           /\ \A i \in 1..7 : i > Len(first) => ahead'[i] = IF i - Len(first) < 7 THEN ahead[i - Len(first) + 1]
                                                           ELSE "end"
           /\ lock'.owner = IF ahead'[1] = "end" THEN None ELSE lock.owner
  <1>1. Rest \in Seq(Step) /\ Len(Rest) = Len(lock.plan) - 1 /\ Len(lock.plan) \in Nat \ {0}
        /\ \A i \in 1..Len(Rest) : Rest[i] = lock.plan[i + 1]
    BY DEF PlanInv, LockType, Rest
  <1>2. \A i \in 1..7 : ahead[i] = IF i <= Len(lock.plan) THEN lock.plan[i] ELSE "end"
    BY AheadOf DEF PlanInv
  <1>3. Len(first) \in Nat
    OBVIOUS
  <1>4. whole \in Seq(Step) /\ Len(whole) = Len(first) + Len(Rest)
    BY <1>1 DEF Joins
  <1>5. \A i \in 1..Len(first) + Len(Rest) :
            whole[i] = IF i <= Len(first) THEN first[i] ELSE Rest[i - Len(first)]
    BY <1>1, <1>3 DEF Joins
  <1>6. Len(lock.plan) < 7
    <2>1. 7 <= Len(lock.plan) => lock.plan[7] \in Step
      BY <1>1 DEF PlanInv, LockType
    <2>2. ahead[7] = "end"
      BY <1>2 DEF PlanInv, Shape, Follow
    <2> QED BY <1>1, <1>2, <2>1, <2>2 DEF Step
  <1>7. LockType' /\ \A i \in 1..7 : ahead'[i] = IF i <= Len(whole) THEN whole[i] ELSE "end"
    BY <1>4, GoesOn DEF PlanInv
  <1>8. lock'.owner = IF ahead'[1] = "end" THEN None ELSE lock.owner
    BY <1>4, GoesOn DEF PlanInv
  <1>9. ASSUME NEW i \in 1..7, i <= Len(first) PROVE ahead'[i] = first[i]
    <2>1. Len(Rest) \in Nat
      BY <1>1
    <2>2. i \in 1..Len(first) + Len(Rest) /\ i <= Len(whole)
      BY <1>3, <1>4, <1>9, <2>1
    <2>3. whole[i] = first[i]
      BY <1>5, <1>9, <2>2
    <2> QED BY <1>7, <2>2, <2>3
  <1>10. ASSUME NEW i \in 1..7, i > Len(first)
         PROVE  ahead'[i] = IF i - Len(first) < 7 THEN ahead[i - Len(first) + 1] ELSE "end"
    <2>1. PICK n \in 1..7 : i = n + Len(first) /\ n = i - Len(first)
      BY <1>3, <1>10
    <2>2. PICK size \in Nat : size = Len(Rest) /\ size < 6 /\ size + 1 = Len(lock.plan)
      BY <1>1, <1>6
    <2>3. PICK long \in Nat : long = Len(first)
      BY <1>3
    <2>4. ASSUME n <= size PROVE ahead'[i] = lock.plan[n + 1] /\ n + 1 \in 1..7 /\ n < 7
      <3>1. whole[i] = Rest[n]
        BY <1>5, <1>10, <2>1, <2>2, <2>3, <2>4
      <3>2. Rest[n] = lock.plan[n + 1]
        <4>1. n \in 1..Len(Rest)
          BY <2>1, <2>2, <2>4
        <4> QED BY <1>1, <4>1
      <3>3. i <= Len(whole)
        BY <1>4, <2>1, <2>2, <2>3, <2>4
      <3> QED BY <1>7, <2>1, <2>2, <2>4, <3>1, <3>2, <3>3
    <2>5. ASSUME n > size PROVE ahead'[i] = "end"
      <3>1. ~(i <= Len(whole))
        BY <1>4, <2>1, <2>2, <2>3, <2>5
      <3> QED BY <1>7, <3>1
    <2>6. CASE n <= size
      <3>1. ahead[n + 1] = lock.plan[n + 1]
        BY <1>2, <2>1, <2>2, <2>4, <2>6
      <3> QED BY <2>1, <2>3, <2>4, <2>6, <3>1
    <2>7. CASE n > size
      <3>1. n < 7 => ahead[n + 1] = "end"
        BY <1>2, <2>1, <2>2, <2>7
      <3> QED BY <2>1, <2>3, <2>5, <2>7, <3>1
    <2> QED BY <2>1, <2>2, <2>6, <2>7
  <1> QED BY <1>7, <1>8, <1>9, <1>10

\* The first in line takes the lock with a plan.
LEMMA Takes ==
    ASSUME NEW t \in Task, NEW plan \in Seq(Step), Take(t, plan)
    PROVE  /\ LockType'
           /\ \A i \in 1..7 : ahead'[i] = IF i <= Len(plan) THEN plan[i] ELSE "end"
           /\ lock'.owner = IF ahead'[1] = "end" THEN None ELSE t
  <1> DEFINE planned == lock'.plan
  <1>1. planned = plan /\ lock' \in [owner : Task \cup {None}, plan : Seq(Step)]
    BY DEF Take, Free
  <1>2. planned = <<>> <=> lock'.owner = None
    BY NoTaskIsNone DEF Take, Free
  <1>3. LockType'
    BY <1>1, <1>2 DEF LockType
  <1>4. Len(plan) \in Nat /\ \A i \in 1..7 : ahead'[i] = IF i <= Len(plan) THEN plan[i] ELSE "end"
    BY <1>1 DEF ahead
  <1>5. plan = <<>> <=> Len(plan) = 0
    OBVIOUS
  <1>6. \A i \in 1..7 : i <= Len(plan) => plan[i] # "end"
    BY DEF Step
  <1>7. plan = <<>> <=> ahead'[1] = "end"
    BY <1>4, <1>5, <1>6
  <1> QED BY <1>3, <1>4, <1>7 DEF Take, Free

LEMMA AtIs ==
    ASSUME PlanInv, NEW step, At(step)
    PROVE  lock.plan # <<>> /\ ahead[1] = step /\ lock.owner \in Task
  BY AheadOf, NoTaskIsNone DEF PlanInv, LockType, At

\* After the steps that a plan may end with, or that "apply" may follow.
LEMMA NearTheEnd ==
    ASSUME PlanInv, ahead[1] \in {"sync", "start", "on", "failed", "off", "apply", "end"}
    PROVE  ahead[2] \in {"apply", "end"} /\ ahead[3] = "end"
  <1>1. ahead[2] \in Follow(ahead[1]) /\ ahead[3] \in Follow(ahead[2])
    BY DEF PlanInv, Shape
  <1> QED BY <1>1 DEF Follow

LEMMA SyncGoesOn ==
    ASSUME PlanInv, At("sync"), Go(SyncPlan \o Rest)
    PROVE  /\ PlanInv'
           /\ \/ /\ service.curve /\ ~Running
                 /\ ahead'[1] = "remember" /\ ahead'[2] = "start" /\ ahead'[3] = ahead[2] /\ ahead'[4] = "end"
              \/ /\ ~service.curve /\ Running
                 /\ ahead'[1] = "handback" /\ ahead'[2] = "forget" /\ ahead'[3] = "stop"
                 /\ ahead'[4] = "off" /\ ahead'[5] = ahead[2] /\ ahead'[6] = "end"
              \/ /\ service.curve <=> Running
                 /\ ahead'[1] = ahead[2] /\ ahead'[2] = "end"
           /\ lock'.owner = IF ahead'[1] = "end" THEN None ELSE lock.owner
  <1> DEFINE whole == SyncPlan \o Rest
  <1>0. Go(whole)
    OBVIOUS
  <1>00. PICK plan : plan = whole /\ Go(plan)
    BY <1>0
  <1>1. lock.plan # <<>> /\ ahead[1] = "sync" /\ Joins(plan, SyncPlan) /\ Go(plan)
    BY <1>00, AtIs DEF Joins
  <1> HIDE DEF whole
  <1>2. ahead[2] \in {"apply", "end"} /\ ahead[3] = "end"
    BY <1>1, NearTheEnd
  <1>3. \A i \in 3..7 : ahead[i] = "end"
    BY <1>2 DEF PlanInv, Shape, Follow
  <1>4. CASE service.curve /\ ~Running
    <2>1. SyncPlan = <<"remember", "start">>
      BY <1>4 DEF SyncPlan
    <2>2. SyncPlan \in Seq(Step) /\ Len(SyncPlan) <= 5 /\ Len(SyncPlan) = 2 /\ SyncPlan[1] = "remember" /\ SyncPlan[2] = "start"
      BY <2>1 DEF Step
    <2>3. /\ LockType'
          /\ \A i \in 1..7 : i <= Len(SyncPlan) => ahead'[i] = SyncPlan[i]
          /\ \A i \in 1..7 : i > Len(SyncPlan) =>
                ahead'[i] = IF i - Len(SyncPlan) < 7 THEN ahead[i - Len(SyncPlan) + 1] ELSE "end"
          /\ lock'.owner = IF ahead'[1] = "end" THEN None ELSE lock.owner
      BY <1>1, <2>2, GoesOnWithMore, Zenon
    <2>4. ahead'[1] = "remember" /\ ahead'[2] = "start" /\ ahead'[3] = ahead[2]
      BY <2>2, <2>3
    <2>5. ahead'[4] = "end" /\ ahead'[5] = "end" /\ ahead'[6] = "end" /\ ahead'[7] = "end"
      BY <1>3, <2>2, <2>3
    <2>6. Shape'
      BY <1>2, <2>4, <2>5 DEF Shape, Follow
    <2> QED BY <1>4, <2>3, <2>4, <2>5, <2>6 DEF PlanInv
  <1>5. CASE ~service.curve /\ Running
    <2>1. SyncPlan = <<"handback", "forget", "stop", "off">>
      BY <1>5 DEF SyncPlan
    <2>2. SyncPlan \in Seq(Step) /\ Len(SyncPlan) <= 5 /\ Len(SyncPlan) = 4 /\ SyncPlan[1] = "handback" /\ SyncPlan[2] = "forget"
          /\ SyncPlan[3] = "stop" /\ SyncPlan[4] = "off"
      BY <2>1 DEF Step
    <2>3. /\ LockType'
          /\ \A i \in 1..7 : i <= Len(SyncPlan) => ahead'[i] = SyncPlan[i]
          /\ \A i \in 1..7 : i > Len(SyncPlan) =>
                ahead'[i] = IF i - Len(SyncPlan) < 7 THEN ahead[i - Len(SyncPlan) + 1] ELSE "end"
          /\ lock'.owner = IF ahead'[1] = "end" THEN None ELSE lock.owner
      BY <1>1, <2>2, GoesOnWithMore, Zenon
    <2>4. ahead'[1] = "handback" /\ ahead'[2] = "forget" /\ ahead'[3] = "stop" /\ ahead'[4] = "off"
          /\ ahead'[5] = ahead[2]
      BY <2>2, <2>3
    <2>5. ahead'[6] = "end" /\ ahead'[7] = "end"
      BY <1>3, <2>2, <2>3
    <2>6. Shape'
      BY <1>2, <2>4, <2>5 DEF Shape, Follow
    <2> QED BY <1>5, <2>3, <2>4, <2>5, <2>6 DEF PlanInv
  <1>6. CASE service.curve <=> Running
    <2>1. SyncPlan = <<>>
      BY <1>6 DEF SyncPlan
    <2>2. SyncPlan \in Seq(Step) /\ Len(SyncPlan) <= 5 /\ Len(SyncPlan) = 0
      BY <2>1
    <2>3. /\ LockType'
          /\ \A i \in 1..7 : i > Len(SyncPlan) =>
                ahead'[i] = IF i - Len(SyncPlan) < 7 THEN ahead[i - Len(SyncPlan) + 1] ELSE "end"
          /\ lock'.owner = IF ahead'[1] = "end" THEN None ELSE lock.owner
      BY <1>1, <2>2, GoesOnWithMore, Zenon
    <2>4. ahead'[1] = ahead[2] /\ ahead'[7] = "end"
      BY <2>2, <2>3
    <2>5. \A i \in 2..6 : ahead'[i] = "end"
      BY <1>3, <2>2, <2>3
    <2>6. Shape'
      BY <1>2, <2>4, <2>5 DEF Shape, Follow
    <2> QED BY <1>6, <2>3, <2>4, <2>5, <2>6 DEF PlanInv
  <1> QED BY <1>4, <1>5, <1>6

LEMMA StartGoesOn ==
    ASSUME PlanInv, At("start"), NEW first, NEW second, NEW third, Go(<<first, second, third>> \o Rest),
           \/ first = "target" /\ second = "takeover" /\ third = "on"
           \/ first = "handback" /\ second = "forget" /\ third = "failed"
    PROVE  /\ PlanInv'
           /\ ahead'[1] = first /\ ahead'[2] = second /\ ahead'[3] = third /\ ahead'[4] = ahead[2] /\ ahead'[5] = "end"
           /\ lock'.owner = lock.owner
  <1> DEFINE plan == <<first, second, third>>
  <1>1. lock.plan # <<>> /\ ahead[1] = "start"
    BY AtIs
  <1>2. ahead[2] \in {"apply", "end"} /\ ahead[3] = "end"
    BY <1>1, NearTheEnd
  <1>3. \A i \in 3..7 : ahead[i] = "end"
    BY <1>2 DEF PlanInv, Shape, Follow
  <1>4. plan \in Seq(Step) /\ Len(plan) <= 5 /\ Len(plan) = 3 /\ plan[1] = first /\ plan[2] = second /\ plan[3] = third
    BY DEF Step
  <1> HIDE DEF plan
  <1>5. /\ LockType'
        /\ \A i \in 1..7 : i <= Len(plan) => ahead'[i] = plan[i]
        /\ \A i \in 1..7 : i > Len(plan) =>
                ahead'[i] = IF i - Len(plan) < 7 THEN ahead[i - Len(plan) + 1] ELSE "end"
        /\ lock'.owner = IF ahead'[1] = "end" THEN None ELSE lock.owner
    <2>1. PICK whole : Joins(whole, plan) /\ Go(whole)
      BY DEF plan, Joins
    <2> QED BY <1>1, <1>4, <2>1, GoesOnWithMore, Zenon
  <1>6. ahead'[1] = first /\ ahead'[2] = second /\ ahead'[3] = third /\ ahead'[4] = ahead[2]
    BY <1>4, <1>5
  <1>7. ahead'[5] = "end" /\ ahead'[6] = "end" /\ ahead'[7] = "end"
    BY <1>3, <1>4, <1>5
  <1>8. Shape'
    BY <1>2, <1>6, <1>7 DEF Shape, Follow
  <1> QED BY <1>5, <1>6, <1>7, <1>8 DEF PlanInv

\* What a write of the audio settings, and the first start, ask for.
Asked(plan, output, changed, hasVolume) ==
    /\ plan \in Seq(Step)
    /\ \/ changed /\ Running /\ hasVolume
          /\ Len(plan) = 2 /\ plan[1] = "target" /\ plan[2] = "volume"
       \/ changed /\ Running /\ ~hasVolume
          /\ Len(plan) = 1 /\ plan[1] = "target"
       \/ changed /\ ~Running /\ output # None /\ hasVolume
          /\ Len(plan) = 2 /\ plan[1] = "device" /\ plan[2] = "volume"
       \/ changed /\ ~Running /\ output # None /\ ~hasVolume
          /\ Len(plan) = 1 /\ plan[1] = "device"
       \/ ~(changed /\ (Running \/ output # None)) /\ hasVolume
          /\ Len(plan) = 1 /\ plan[1] = "volume"
       \/ ~(changed /\ (Running \/ output # None)) /\ ~hasVolume
          /\ Len(plan) = 0

\* What is ahead when the plan is that.
Applies(output, changed, hasVolume) ==
    \/ changed /\ Running /\ hasVolume
       /\ ahead'[1] = "target" /\ ahead'[2] = "volume" /\ ahead'[3] = "end"
    \/ changed /\ Running /\ ~hasVolume
       /\ ahead'[1] = "target" /\ ahead'[2] = "end" /\ ahead'[3] = "end"
    \/ changed /\ ~Running /\ output # None /\ hasVolume
       /\ ahead'[1] = "device" /\ ahead'[2] = "volume" /\ ahead'[3] = "end"
    \/ changed /\ ~Running /\ output # None /\ ~hasVolume
       /\ ahead'[1] = "device" /\ ahead'[2] = "end" /\ ahead'[3] = "end"
    \/ ~(changed /\ (Running \/ output # None)) /\ hasVolume
       /\ ahead'[1] = "volume" /\ ahead'[2] = "end" /\ ahead'[3] = "end"
    \/ ~(changed /\ (Running \/ output # None)) /\ ~hasVolume
       /\ ahead'[1] = "end" /\ ahead'[2] = "end" /\ ahead'[3] = "end"

LEMMA ApplyPlans ==
    ASSUME NEW output, NEW changed \in BOOLEAN, NEW hasVolume \in BOOLEAN,
           NEW plan, plan = ApplyPlan(output, changed, hasVolume)
    PROVE  Asked(plan, output, changed, hasVolume) /\ Len(plan) <= 5
  <1> DEFINE moves == CASE changed /\ Running -> <<"target">>
                        [] changed /\ ~Running /\ output # None -> <<"device">>
                        [] OTHER -> <<>>
             sounds == IF hasVolume THEN <<"volume">> ELSE <<>>
  <1>1. plan = moves \o sounds
    BY DEF ApplyPlan
  <1>2. CASE changed /\ Running /\ hasVolume
    <2>1. moves = <<"target">> BY <1>2
    <2>2. sounds = <<"volume">> BY <1>2
    <2>3. plan = <<"target">> \o <<"volume">> BY <1>1, <2>1, <2>2
    <2>4. plan \in Seq(Step) /\ Len(plan) = 2 /\ plan[1] = "target" /\ plan[2] = "volume" BY <2>3 DEF Step
    <2>5. Len(plan) <= 5 BY <2>4
    <2>6. Asked(plan, output, changed, hasVolume) BY <1>2, <2>4, Zenon DEF Asked
    <2> QED BY <2>5, <2>6
  <1>3. CASE changed /\ Running /\ ~hasVolume
    <2>1. moves = <<"target">> BY <1>3
    <2>2. sounds = <<>> BY <1>3
    <2>3. plan = <<"target">> \o <<>> BY <1>1, <2>1, <2>2
    <2>4. plan \in Seq(Step) /\ Len(plan) = 1 /\ plan[1] = "target" BY <2>3 DEF Step
    <2>5. Len(plan) <= 5 BY <2>4
    <2>6. Asked(plan, output, changed, hasVolume) BY <1>3, <2>4, Zenon DEF Asked
    <2> QED BY <2>5, <2>6
  <1>4. CASE changed /\ ~Running /\ output # None /\ hasVolume
    <2>1. moves = <<"device">> BY <1>4
    <2>2. sounds = <<"volume">> BY <1>4
    <2>3. plan = <<"device">> \o <<"volume">> BY <1>1, <2>1, <2>2
    <2>4. plan \in Seq(Step) /\ Len(plan) = 2 /\ plan[1] = "device" /\ plan[2] = "volume" BY <2>3 DEF Step
    <2>5. Len(plan) <= 5 BY <2>4
    <2>6. Asked(plan, output, changed, hasVolume) BY <1>4, <2>4, Zenon DEF Asked
    <2> QED BY <2>5, <2>6
  <1>5. CASE changed /\ ~Running /\ output # None /\ ~hasVolume
    <2>1. moves = <<"device">> BY <1>5
    <2>2. sounds = <<>> BY <1>5
    <2>3. plan = <<"device">> \o <<>> BY <1>1, <2>1, <2>2
    <2>4. plan \in Seq(Step) /\ Len(plan) = 1 /\ plan[1] = "device" BY <2>3 DEF Step
    <2>5. Len(plan) <= 5 BY <2>4
    <2>6. Asked(plan, output, changed, hasVolume) BY <1>5, <2>4, Zenon DEF Asked
    <2> QED BY <2>5, <2>6
  <1>6. CASE ~(changed /\ (Running \/ output # None)) /\ hasVolume
    <2>1. moves = <<>> BY <1>6
    <2>2. sounds = <<"volume">> BY <1>6
    <2>3. plan = <<>> \o <<"volume">> BY <1>1, <2>1, <2>2
    <2>4. plan \in Seq(Step) /\ Len(plan) = 1 /\ plan[1] = "volume" BY <2>3 DEF Step
    <2>5. Len(plan) <= 5 BY <2>4
    <2>6. Asked(plan, output, changed, hasVolume) BY <1>6, <2>4, Zenon DEF Asked
    <2> QED BY <2>5, <2>6
  <1>7. CASE ~(changed /\ (Running \/ output # None)) /\ ~hasVolume
    <2>1. moves = <<>> BY <1>7
    <2>2. sounds = <<>> BY <1>7
    <2>3. plan = <<>> \o <<>> BY <1>1, <2>1, <2>2
    <2>4. plan \in Seq(Step) /\ Len(plan) = 0 BY <2>3
    <2>5. Len(plan) <= 5 BY <2>4
    <2>6. Asked(plan, output, changed, hasVolume) BY <1>7, <2>4, Zenon DEF Asked
    <2> QED BY <2>5, <2>6
  <1> QED BY <1>2, <1>3, <1>4, <1>5, <1>6, <1>7, Zenon

LEMMA AskedIsAhead ==
    ASSUME NEW output, NEW changed, NEW hasVolume, NEW plan, Asked(plan, output, changed, hasVolume),
           LockType', \A i \in 1..7 : i <= Len(plan) => ahead'[i] = plan[i],
           \A i \in 1..7 : i > Len(plan) => ahead'[i] = "end"
    PROVE  PlanInv' /\ Applies(output, changed, hasVolume)
  <1>1. ASSUME changed /\ Running, hasVolume,
             Len(plan) = 2 /\ plan[1] = "target" /\ plan[2] = "volume"
       PROVE  PlanInv' /\ Applies(output, changed, hasVolume)
    <2>1. ahead'[1] = "target" /\ ahead'[2] = "volume" /\ ahead'[3] = "end"
      BY <1>1
    <2>2. \A i \in 3..7 : ahead'[i] = "end" BY <1>1
    <2>3. Shape' BY <2>1, <2>2 DEF Shape, Follow
    <2>4. Applies(output, changed, hasVolume) BY <1>1, <2>1, Zenon DEF Applies
    <2> QED BY <2>3, <2>4 DEF PlanInv
  <1>2. ASSUME changed /\ Running, ~hasVolume,
             Len(plan) = 1 /\ plan[1] = "target"
       PROVE  PlanInv' /\ Applies(output, changed, hasVolume)
    <2>1. ahead'[1] = "target" /\ ahead'[2] = "end" /\ ahead'[3] = "end"
      BY <1>2
    <2>2. \A i \in 3..7 : ahead'[i] = "end" BY <1>2
    <2>3. Shape' BY <2>1, <2>2 DEF Shape, Follow
    <2>4. Applies(output, changed, hasVolume) BY <1>2, <2>1, Zenon DEF Applies
    <2> QED BY <2>3, <2>4 DEF PlanInv
  <1>3. ASSUME changed /\ ~Running /\ output # None, hasVolume,
             Len(plan) = 2 /\ plan[1] = "device" /\ plan[2] = "volume"
       PROVE  PlanInv' /\ Applies(output, changed, hasVolume)
    <2>1. ahead'[1] = "device" /\ ahead'[2] = "volume" /\ ahead'[3] = "end"
      BY <1>3
    <2>2. \A i \in 3..7 : ahead'[i] = "end" BY <1>3
    <2>3. Shape' BY <2>1, <2>2 DEF Shape, Follow
    <2>4. Applies(output, changed, hasVolume) BY <1>3, <2>1, Zenon DEF Applies
    <2> QED BY <2>3, <2>4 DEF PlanInv
  <1>4. ASSUME changed /\ ~Running /\ output # None, ~hasVolume,
             Len(plan) = 1 /\ plan[1] = "device"
       PROVE  PlanInv' /\ Applies(output, changed, hasVolume)
    <2>1. ahead'[1] = "device" /\ ahead'[2] = "end" /\ ahead'[3] = "end"
      BY <1>4
    <2>2. \A i \in 3..7 : ahead'[i] = "end" BY <1>4
    <2>3. Shape' BY <2>1, <2>2 DEF Shape, Follow
    <2>4. Applies(output, changed, hasVolume) BY <1>4, <2>1, Zenon DEF Applies
    <2> QED BY <2>3, <2>4 DEF PlanInv
  <1>5. ASSUME ~(changed /\ (Running \/ output # None)), hasVolume,
             Len(plan) = 1 /\ plan[1] = "volume"
       PROVE  PlanInv' /\ Applies(output, changed, hasVolume)
    <2>1. ahead'[1] = "volume" /\ ahead'[2] = "end" /\ ahead'[3] = "end"
      BY <1>5
    <2>2. \A i \in 3..7 : ahead'[i] = "end" BY <1>5
    <2>3. Shape' BY <2>1, <2>2 DEF Shape, Follow
    <2>4. Applies(output, changed, hasVolume) BY <1>5, <2>1, Zenon DEF Applies
    <2> QED BY <2>3, <2>4 DEF PlanInv
  <1>6. ASSUME ~(changed /\ (Running \/ output # None)), ~hasVolume,
             Len(plan) = 0
       PROVE  PlanInv' /\ Applies(output, changed, hasVolume)
    <2>1. ahead'[1] = "end" /\ ahead'[2] = "end" /\ ahead'[3] = "end"
      BY <1>6
    <2>2. \A i \in 3..7 : ahead'[i] = "end" BY <1>6
    <2>3. Shape' BY <2>1, <2>2 DEF Shape, Follow
    <2>4. Applies(output, changed, hasVolume) BY <1>6, <2>1, Zenon DEF Applies
    <2> QED BY <2>3, <2>4 DEF PlanInv
  <1> QED BY <1>1, <1>2, <1>3, <1>4, <1>5, <1>6, Zenon DEF Asked

LEMMA ApplyGoesOn ==
    ASSUME PlanInv, At("apply"), NEW output, NEW hasVolume \in BOOLEAN,
           Go(ApplyPlan(output, TRUE, hasVolume) \o Rest)
    PROVE  /\ PlanInv' /\ Applies(output, TRUE, hasVolume)
           /\ lock'.owner = IF ahead'[1] = "end" THEN None ELSE lock.owner
  <1>1. lock.plan # <<>> /\ ahead[1] = "apply"
    BY AtIs
  <1>2. \A i \in 2..7 : ahead[i] = "end"
    BY <1>1 DEF PlanInv, Shape, Follow
  <1>3. PICK plan : plan = ApplyPlan(output, TRUE, hasVolume)
    OBVIOUS
  <1>4. PICK whole : Joins(whole, plan) /\ Go(whole)
    BY <1>3 DEF Joins
  <1>5. Asked(plan, output, TRUE, hasVolume) /\ Len(plan) <= 5
    BY <1>3, ApplyPlans, Zenon
  <1>6. plan \in Seq(Step)
    BY <1>5, Zenon DEF Asked
  <1>7. /\ LockType'
        /\ \A i \in 1..7 : i <= Len(plan) => ahead'[i] = plan[i]
        /\ \A i \in 1..7 : i > Len(plan) =>
                ahead'[i] = IF i - Len(plan) < 7 THEN ahead[i - Len(plan) + 1] ELSE "end"
        /\ lock'.owner = IF ahead'[1] = "end" THEN None ELSE lock.owner
    BY <1>1, <1>4, <1>5, <1>6, GoesOnWithMore, Zenon
  <1>8. \A i \in 1..7 : i > Len(plan) => ahead'[i] = "end"
    <2>1. Len(plan) \in Nat BY <1>6
    <2> QED BY <1>2, <1>7, <2>1
  <1> QED BY <1>5, <1>7, <1>8, AskedIsAhead, Zenon

LEMMA AudioBegins ==
    ASSUME NEW t \in Task, NEW output, NEW changed \in BOOLEAN, Take(t, ApplyPlan(output, changed, TRUE))
    PROVE  PlanInv' /\ Applies(output, changed, TRUE) /\ lock'.owner = t
  <1>1. PICK plan : plan = ApplyPlan(output, changed, TRUE) /\ Take(t, plan)
    OBVIOUS
  <1>2. Asked(plan, output, changed, TRUE)
    <2>1. TRUE \in BOOLEAN OBVIOUS
    <2> QED BY <1>1, <2>1, ApplyPlans, Zenon
  <1>3. plan \in Seq(Step)
    BY <1>2, Zenon DEF Asked
  <1>4. /\ LockType'
        /\ \A i \in 1..7 : ahead'[i] = IF i <= Len(plan) THEN plan[i] ELSE "end"
        /\ lock'.owner = IF ahead'[1] = "end" THEN None ELSE t
    BY <1>1, <1>3, Takes, Zenon
  <1>5. /\ \A i \in 1..7 : i <= Len(plan) => ahead'[i] = plan[i]
        /\ \A i \in 1..7 : i > Len(plan) => ahead'[i] = "end"
    BY <1>3, <1>4
  <1>6. PlanInv' /\ Applies(output, changed, TRUE)
    BY <1>2, <1>4, <1>5, AskedIsAhead, Zenon
  <1>7. ahead'[1] # "end"
    BY <1>6, Zenon DEF Applies
  <1> QED BY <1>4, <1>6, <1>7

LEMMA StartBegins ==
    ASSUME BeginStart
    PROVE  /\ PlanInv'
           /\ IF ~service.curve /\ config.hostDefault # None
              THEN ahead'[1] = "handback" /\ ahead'[2] = "forget" /\ ahead'[3] = "sync" /\ ahead'[4] = "apply"
              ELSE ahead'[1] = "sync" /\ ahead'[2] = "apply" /\ ahead'[3] = "end"
           /\ ahead'[5] = "end" /\ lock'.owner = Main
  <1> DEFINE first == IF ~service.curve /\ config.hostDefault # None THEN <<"handback", "forget">> ELSE <<>>
  <1>1. PICK plan : plan = first \o <<"sync", "apply">> /\ Take(Main, plan)
    BY DEF BeginStart
  <1>2. CASE ~service.curve /\ config.hostDefault # None
    <2>1. plan = <<"handback", "forget">> \o <<"sync", "apply">>
      BY <1>1, <1>2
    <2>2. plan \in Seq(Step) /\ Len(plan) = 4 /\ plan[1] = "handback" /\ plan[2] = "forget"
          /\ plan[3] = "sync" /\ plan[4] = "apply"
      BY <2>1 DEF Step
    <2>3. LockType' /\ (\A i \in 1..7 : ahead'[i] = IF i <= Len(plan) THEN plan[i] ELSE "end")
          /\ lock'.owner = IF ahead'[1] = "end" THEN None ELSE Main
      BY <1>1, <2>2, Takes, NoTaskIsNone, Zenon
    <2>4. ahead'[1] = "handback" /\ ahead'[2] = "forget" /\ ahead'[3] = "sync" /\ ahead'[4] = "apply"
          /\ ahead'[5] = "end" /\ ahead'[6] = "end" /\ ahead'[7] = "end"
      BY <2>2, <2>3
    <2>5. Shape'
      BY <2>4 DEF Shape, Follow
    <2> QED BY <1>2, <2>3, <2>4, <2>5 DEF PlanInv
  <1>3. CASE ~(~service.curve /\ config.hostDefault # None)
    <2>1. plan = <<>> \o <<"sync", "apply">>
      BY <1>1, <1>3
    <2>2. plan \in Seq(Step) /\ Len(plan) = 2 /\ plan[1] = "sync" /\ plan[2] = "apply"
      BY <2>1 DEF Step
    <2>3. LockType' /\ (\A i \in 1..7 : ahead'[i] = IF i <= Len(plan) THEN plan[i] ELSE "end")
          /\ lock'.owner = IF ahead'[1] = "end" THEN None ELSE Main
      BY <1>1, <2>2, Takes, NoTaskIsNone, Zenon
    <2>4. ahead'[1] = "sync" /\ ahead'[2] = "apply" /\ ahead'[3] = "end" /\ ahead'[4] = "end"
          /\ ahead'[5] = "end" /\ ahead'[6] = "end" /\ ahead'[7] = "end"
      BY <2>2, <2>3
    <2>5. Shape'
      BY <2>4 DEF Shape, Follow
    <2> QED BY <1>3, <2>3, <2>4, <2>5 DEF PlanInv
  <1> QED BY <1>2, <1>3

\* The plans with nothing or little to do.
LEMMA LittleBegins ==
    ASSUME NEW t \in Task
    PROVE  /\ Take(t, <<>>) => PlanInv' /\ ahead'[1] = "end" /\ lock' = Free
           /\ Take(t, <<"sync">>) => PlanInv' /\ ahead'[1] = "sync" /\ ahead'[2] = "end" /\ lock'.owner = t
           /\ Take(t, <<"stop", "sync">>) =>
                  PlanInv' /\ ahead'[1] = "stop" /\ ahead'[2] = "sync" /\ ahead'[3] = "end" /\ lock'.owner = t
  <1>1. ASSUME Take(t, <<>>) PROVE PlanInv' /\ ahead'[1] = "end" /\ lock' = Free
    <2>1. PICK plan : plan = <<>> /\ Take(t, plan) BY <1>1
    <2>2. plan \in Seq(Step) /\ Len(plan) = 0 BY <2>1
    <2>3. LockType' /\ (\A i \in 1..7 : ahead'[i] = IF i <= Len(plan) THEN plan[i] ELSE "end")
      BY <2>1, <2>2, Takes, Zenon
    <2>4. \A i \in 1..7 : ahead'[i] = "end" BY <2>2, <2>3
    <2>5. Shape' BY <2>4 DEF Shape, Follow
    <2> QED BY <1>1, <2>3, <2>4, <2>5 DEF PlanInv, Take
  <1>2. ASSUME Take(t, <<"sync">>) PROVE PlanInv' /\ ahead'[1] = "sync" /\ ahead'[2] = "end" /\ lock'.owner = t
    <2>1. PICK plan : plan = <<"sync">> /\ Take(t, plan) BY <1>2
    <2>2. plan \in Seq(Step) /\ Len(plan) = 1 /\ plan[1] = "sync" BY <2>1 DEF Step
    <2>3. LockType' /\ (\A i \in 1..7 : ahead'[i] = IF i <= Len(plan) THEN plan[i] ELSE "end")
          /\ lock'.owner = IF ahead'[1] = "end" THEN None ELSE t
      BY <2>1, <2>2, Takes, Zenon
    <2>4. ahead'[1] = "sync" /\ \A i \in 2..7 : ahead'[i] = "end" BY <2>2, <2>3
    <2>5. Shape' BY <2>4 DEF Shape, Follow
    <2> QED BY <2>3, <2>4, <2>5 DEF PlanInv
  <1>3. ASSUME Take(t, <<"stop", "sync">>)
        PROVE  PlanInv' /\ ahead'[1] = "stop" /\ ahead'[2] = "sync" /\ ahead'[3] = "end" /\ lock'.owner = t
    <2>1. PICK plan : plan = <<"stop", "sync">> /\ Take(t, plan) BY <1>3
    <2>2. plan \in Seq(Step) /\ Len(plan) = 2 /\ plan[1] = "stop" /\ plan[2] = "sync" BY <2>1 DEF Step
    <2>3. LockType' /\ (\A i \in 1..7 : ahead'[i] = IF i <= Len(plan) THEN plan[i] ELSE "end")
          /\ lock'.owner = IF ahead'[1] = "end" THEN None ELSE t
      BY <2>1, <2>2, Takes, Zenon
    <2>4. ahead'[1] = "stop" /\ ahead'[2] = "sync" /\ \A i \in 3..7 : ahead'[i] = "end" BY <2>2, <2>3
    <2>5. Shape' BY <2>4 DEF Shape, Follow
    <2> QED BY <2>3, <2>4, <2>5 DEF PlanInv
  <1> QED BY <1>1, <1>2, <1>3

(***************************************************************************)
(* The tasks, their jobs and their place in the queue                      *)
(***************************************************************************)

AnyJob == [kind : {"none", "start", "check", "audio", "curve"}, output : Device \cup {None},
           volume : Volume \cup {None}, curve : BOOLEAN]

JobType ==
    /\ job \in [Task -> AnyJob]
    /\ \A t \in Task : job[t].kind = "none" <=> job[t] = NoJob
    /\ \A t \in Task : job[t].kind = "audio" => job[t].volume \in Volume
    /\ \A t \in Request : job[t].kind \in {"none", "audio", "curve"}
    /\ job[Main].kind # "curve"

\* A task with a job waits for the lock or holds it, once.
QueueInv ==
    /\ queue \in Seq(Task)
    /\ \A t \in Task : job[t] # NoJob <=> lock.owner = t \/ \E i \in DOMAIN queue : queue[i] = t
    /\ \A i \in DOMAIN queue :
           queue[i] # lock.owner /\ \A j \in DOMAIN queue : queue[i] = queue[j] => i = j

\* What the run task is at says what it has asked for.
PhaseInv ==
    /\ phase \in {"down", "detecting", "probing", "starting", "adopting", "ready"}
    /\ job[Main].kind = "start" <=> phase = "starting"
    /\ job[Main].kind # "none" => phase \in {"starting", "ready"}
    /\ phase = "down" => lock = Free /\ queue = <<>>
    /\ Comes("apply") => lock.owner = Main /\ phase = "starting"

TaskInv == PlanInv /\ JobType /\ QueueInv /\ PhaseInv

LEMMA NoJobType == NoJob \in AnyJob /\ NoJob.kind = "none"
  <1>1. FALSE \in BOOLEAN
    OBVIOUS
  <1> QED BY <1>1 DEF NoJob, AnyJob

LEMMA ComesAhead ==
    ASSUME PlanInv, NEW step, step # "end"
    PROVE  Comes(step) <=> \/ ahead[1] = step \/ ahead[2] = step \/ ahead[3] = step
                           \/ ahead[4] = step \/ ahead[5] = step
  <1>1. ahead[6] = "end" /\ ahead[7] = "end"
    BY DEF PlanInv, Shape, Follow
  <1> QED BY <1>1 DEF Comes

\* A holder that goes on, or lets the lock go.
LEMMA GoKeepsTasks ==
    ASSUME TaskInv, lock.plan # <<>>, NEW plan, Go(plan), PlanInv', UNCHANGED queue,
           lock'.owner = IF ahead'[1] = "end" THEN None ELSE lock.owner,
           Comes("apply")' => Comes("apply")
    PROVE  /\ JobType' /\ QueueInv' /\ PhaseInv'
           /\ IF ahead'[1] = "end"
              THEN /\ lock' = Free /\ job' = [job EXCEPT ![lock.owner] = NoJob]
                   /\ phase' = IF job[lock.owner].kind # "start" THEN phase
                               ELSE IF config.volume = None THEN "adopting" ELSE "ready"
              ELSE UNCHANGED <<job, phase>> /\ lock'.owner = lock.owner
  <1>1. lock.owner \in Task /\ lock.owner # None /\ job[lock.owner] # NoJob
    BY NoTaskIsNone DEF TaskInv, PlanInv, LockType, QueueInv
  <1>2. phase # "down"
    BY DEF TaskInv, PhaseInv, Free
  <1>3. plan = <<>> <=> ahead'[1] = "end"
    <2>1. lock'.plan = plan
      BY DEF Go, Free
    <2>2. plan \in Seq(Step) /\ ahead'[1] = IF 1 \in DOMAIN plan THEN plan[1] ELSE "end"
      BY <2>1 DEF PlanInv, LockType, ahead
    <2>3. plan # <<>> => 1 \in DOMAIN plan /\ plan[1] \in Step
      BY <2>2
    <2> QED BY <2>2, <2>3 DEF Step
  <1>4. CASE ahead'[1] # "end"
    <2>1. plan # <<>>
      BY <1>3, <1>4
    <2>2. UNCHANGED <<job, phase>> /\ lock'.owner = lock.owner
      BY <1>1, <2>1 DEF Go
    <2>3. JobType' /\ QueueInv'
      BY <2>2 DEF TaskInv, JobType, QueueInv
    <2>4. PhaseInv'
      BY <1>2, <2>2 DEF TaskInv, PhaseInv
    <2> QED BY <1>4, <2>2, <2>3, <2>4
  <1>5. CASE ahead'[1] = "end"
    <2>1. plan = <<>>
      BY <1>3, <1>5
    <2>2. /\ lock' = Free /\ job' = [job EXCEPT ![lock.owner] = NoJob]
          /\ phase' = IF job[lock.owner].kind # "start" THEN phase
                      ELSE IF config.volume = None THEN "adopting" ELSE "ready"
      BY <2>1 DEF Go
    <2>3. \A t \in Task : job'[t] = IF t = lock.owner THEN NoJob ELSE job[t]
      BY <2>2 DEF TaskInv, JobType
    <2>4. job' \in [Task -> AnyJob]
      BY <2>2, NoJobType DEF TaskInv, JobType
    <2>5. JobType'
      BY <2>3, <2>4, NoJobType, NoTaskIsNone DEF TaskInv, JobType
    <2>6. QueueInv'
      BY <1>1, <2>2, <2>3, NoTaskIsNone DEF TaskInv, QueueInv, Free
    <2>7. ~Comes("apply")'
      <3>1. \A i \in 1..7 : ahead'[i] = "end"
        BY <1>5 DEF PlanInv, Shape, Follow
      <3> QED BY <3>1 DEF Comes
    <2>8. (job'[Main].kind = "start" <=> phase' = "starting") /\ (job'[Main].kind # "none" => phase' \in {"starting", "ready"})
      <3>1. CASE lock.owner = Main
        <4>1. job'[Main].kind = "none"
          BY <2>3, <3>1, NoJobType, NoTaskIsNone
        <4>2. phase' # "starting"
          BY <2>2, <3>1 DEF TaskInv, PhaseInv
        <4> QED BY <4>1, <4>2
      <3>2. CASE lock.owner # Main
        <4>1. job'[Main] = job[Main]
          BY <2>3, <3>2, NoTaskIsNone
        <4>2. lock.owner \in Request /\ job[lock.owner].kind # "start"
          BY <1>1, <3>2 DEF TaskInv, JobType, Task
        <4>3. phase' = phase
          BY <2>2, <4>2
        <4> QED BY <4>1, <4>3 DEF TaskInv, PhaseInv
      <3> QED BY <3>1, <3>2
    <2>10. phase' # "down" /\ phase' \in {"down", "detecting", "probing", "starting", "adopting", "ready"}
      BY <1>2, <2>2 DEF TaskInv, PhaseInv
    <2> QED BY <1>5, <2>2, <2>5, <2>6, <2>7, <2>8, <2>10 DEF PhaseInv
  <1> QED BY <1>4, <1>5

\* The first in line takes the lock, or is done as it does.
LEMMA TakeKeepsTasks ==
    ASSUME TaskInv, NEW t \in Task, NEW plan, Take(t, plan), PlanInv',
           lock'.owner = IF ahead'[1] = "end" THEN None ELSE t,
           ahead'[1] = "end" => job[t].kind # "start",
           Comes("apply")' => ahead'[1] # "end" /\ t = Main /\ phase = "starting"
    PROVE  /\ JobType' /\ QueueInv' /\ PhaseInv'
           /\ ahead'[1] = "end" => lock' = Free /\ job' = [job EXCEPT ![t] = NoJob]
           /\ ahead'[1] # "end" => job' = job
           /\ queue # <<>> /\ t = queue[1] /\ job[t] # NoJob
           /\ Len(queue) \in Nat \ {0} /\ Len(queue') = Len(queue) - 1
           /\ \A i \in 1..Len(queue') : queue'[i] = queue[i + 1]
  <1>1. /\ lock = Free /\ queue # <<>> /\ queue \in Seq(Task) /\ queue' = Tail(queue) /\ t = queue[1]
        /\ phase' = phase
    BY DEF Take, TaskInv, QueueInv
  <1>2. /\ Len(queue) \in Nat \ {0} /\ queue' \in Seq(Task) /\ Len(queue') = Len(queue) - 1
        /\ \A i \in 1..Len(queue') : queue'[i] = queue[i + 1]
        /\ DOMAIN queue = 1..Len(queue) /\ DOMAIN queue' = 1..Len(queue')
    BY <1>1
  <1>3. job[t] # NoJob /\ lock.owner = None
    BY <1>1, <1>2 DEF TaskInv, QueueInv, Free
  <1>4. plan = <<>> <=> ahead'[1] = "end"
    <2>1. lock'.plan = plan
      BY DEF Take, Free
    <2>2. plan \in Seq(Step) /\ ahead'[1] = IF 1 \in DOMAIN plan THEN plan[1] ELSE "end"
      BY <2>1 DEF PlanInv, LockType, ahead
    <2>3. plan # <<>> => 1 \in DOMAIN plan /\ plan[1] \in Step
      BY <2>2
    <2> QED BY <2>2, <2>3 DEF Step
  <1>5. phase # "down"
    BY <1>1 DEF TaskInv, PhaseInv
  \* Those that still wait are the others.
  <1>6. \A other \in Task : (\E i \in DOMAIN queue' : queue'[i] = other)
            <=> other # t /\ (\E i \in DOMAIN queue : queue[i] = other)
    <2>1. ASSUME NEW other \in Task, NEW i \in DOMAIN queue', queue'[i] = other
          PROVE  other # t /\ \E k \in DOMAIN queue : queue[k] = other
      <3>1. i + 1 \in DOMAIN queue /\ i + 1 # 1 /\ queue[i + 1] = other /\ 1 \in DOMAIN queue
        BY <1>2, <2>1
      <3> QED BY <1>1, <3>1 DEF TaskInv, QueueInv
    <2>2. ASSUME NEW other \in Task, other # t, NEW i \in DOMAIN queue, queue[i] = other
          PROVE  \E k \in DOMAIN queue' : queue'[k] = other
      <3>1. i - 1 \in DOMAIN queue' /\ queue'[i - 1] = queue[(i - 1) + 1]
        BY <1>1, <1>2, <2>2
      <3>2. (i - 1) + 1 = i
        BY <1>2
      <3> QED BY <2>2, <3>1, <3>2
    <2> QED BY <2>1, <2>2
  <1>7. \A i, j \in DOMAIN queue' : queue'[i] = queue'[j] => i = j
    <2> SUFFICES ASSUME NEW i \in DOMAIN queue', NEW j \in DOMAIN queue', queue'[i] = queue'[j]
                 PROVE  i = j
      OBVIOUS
    <2>1. i + 1 \in DOMAIN queue /\ j + 1 \in DOMAIN queue /\ queue[i + 1] = queue[j + 1]
      BY <1>2
    <2>2. i + 1 = j + 1
      BY <2>1 DEF TaskInv, QueueInv
    <2> QED BY <1>2, <2>2
  <1>8. \A i \in DOMAIN queue' : queue'[i] \in Task /\ queue'[i] # t
    <2> SUFFICES ASSUME NEW i \in DOMAIN queue' PROVE queue'[i] \in Task /\ queue'[i] # t
      OBVIOUS
    <2>1. queue'[i] \in Task
      BY <1>2
    <2> QED BY <1>6, <2>1
  <1>9. CASE ahead'[1] # "end"
    <2>1. job' = job /\ lock'.owner = t
      BY <1>4, <1>9 DEF Take
    <2>2. JobType'
      BY <2>1 DEF TaskInv, JobType
    <2>3. QueueInv'
      BY <1>1, <1>2, <1>3, <1>6, <1>7, <1>8, <2>1, NoTaskIsNone DEF TaskInv, QueueInv
    <2>4. PhaseInv'
      BY <1>1, <1>5, <2>1 DEF TaskInv, PhaseInv
    <2> QED BY <1>1, <1>2, <1>3, <1>9, <2>1, <2>2, <2>3, <2>4
  <1>10. CASE ahead'[1] = "end"
    <2>1. lock' = Free /\ job' = [job EXCEPT ![t] = NoJob]
      BY <1>4, <1>10 DEF Take
    <2>2. \A other \in Task : job'[other] = IF other = t THEN NoJob ELSE job[other]
      BY <2>1 DEF TaskInv, JobType
    <2>3. job' \in [Task -> AnyJob]
      BY <2>1, NoJobType DEF TaskInv, JobType
    <2>4. JobType'
      BY <2>2, <2>3, NoJobType, NoTaskIsNone DEF TaskInv, JobType
    <2>5. QueueInv'
      BY <1>1, <1>2, <1>3, <1>6, <1>7, <1>8, <2>1, <2>2, NoTaskIsNone DEF TaskInv, QueueInv, Free
    <2>6. ~Comes("apply")'
      BY <1>10
    <2>7. t # Main => job'[Main] = job[Main]
      BY <2>2, NoTaskIsNone
    <2>8. t = Main => job'[Main].kind = "none" /\ phase # "starting"
      BY <1>10, <2>2, NoJobType DEF TaskInv, PhaseInv
    <2>9. PhaseInv'
      BY <1>1, <1>5, <2>6, <2>7, <2>8 DEF TaskInv, PhaseInv
    <2> QED BY <1>1, <1>2, <1>3, <1>10, <2>1, <2>4, <2>5, <2>9
  <1> QED BY <1>9, <1>10

\* A task asks for the lock.
LEMMA AskKeepsTasks ==
    ASSUME TaskInv, NEW t \in Task, NEW asked \in AnyJob, job[t] = NoJob, UNCHANGED lock,
           job' = [job EXCEPT ![t] = asked], queue' = Append(queue, t),
           asked.kind # "none", asked.kind = "audio" => asked.volume \in Volume,
           t # Main => asked.kind \in {"audio", "curve"}, t = Main => asked.kind # "curve"
    PROVE  /\ PlanInv' /\ JobType' /\ QueueInv' /\ ahead' = ahead
           /\ Len(queue) \in Nat /\ Len(queue') = Len(queue) + 1 /\ queue'[Len(queue) + 1] = t
           /\ \A i \in 1..Len(queue) : queue'[i] = queue[i]
           /\ \A other \in Task : job'[other] = IF other = t THEN asked ELSE job[other]
  <1>1. /\ queue \in Seq(Task) /\ Len(queue) \in Nat /\ queue' \in Seq(Task) /\ Len(queue') = Len(queue) + 1
        /\ queue'[Len(queue) + 1] = t /\ \A i \in 1..Len(queue) : queue'[i] = queue[i]
        /\ DOMAIN queue = 1..Len(queue) /\ DOMAIN queue' = 1..Len(queue) + 1
    BY DEF TaskInv, QueueInv
  <1>2. asked # NoJob
    BY NoJobType
  <1>3. \A other \in Task : job'[other] = IF other = t THEN asked ELSE job[other]
    BY DEF TaskInv, JobType
  <1>4. lock.owner # t /\ \A i \in DOMAIN queue : queue[i] # t
    BY DEF TaskInv, QueueInv
  <1>5. job' \in [Task -> AnyJob]
    BY DEF TaskInv, JobType
  <1>6. JobType'
    BY <1>2, <1>3, <1>5, NoTaskIsNone DEF TaskInv, JobType
  <1>7. \A i \in DOMAIN queue' : i \in DOMAIN queue \/ i = Len(queue) + 1
    BY <1>1
  <1>8. \A other \in Task : (\E i \in DOMAIN queue' : queue'[i] = other)
            <=> other = t \/ (\E i \in DOMAIN queue : queue[i] = other)
    BY <1>1, <1>7
  <1>9. \A i \in DOMAIN queue' :
            queue'[i] # lock'.owner /\ \A j \in DOMAIN queue' : queue'[i] = queue'[j] => i = j
    BY <1>1, <1>4, <1>7 DEF TaskInv, QueueInv
  <1>10. QueueInv'
    BY <1>1, <1>2, <1>3, <1>8, <1>9 DEF TaskInv, QueueInv
  <1>11. PlanInv' /\ ahead' = ahead
    BY DEF TaskInv, PlanInv, LockType, Shape, ahead
  <1> QED BY <1>1, <1>3, <1>6, <1>10, <1>11

\* A task leaves the queue.
LEMMA WithoutOne ==
    ASSUME QueueInv, NEW t \in Task
    PROVE  /\ Without(t) \in Seq(Task)
           /\ \A other \in Task : (\E i \in DOMAIN Without(t) : Without(t)[i] = other)
                  <=> other # t /\ (\E i \in DOMAIN queue : queue[i] = other)
           /\ \A i, j \in DOMAIN Without(t) : Without(t)[i] = Without(t)[j] => i = j
  <1>1. /\ queue \in Seq(Task) /\ Len(queue) \in Nat /\ DOMAIN queue = 1..Len(queue)
        /\ \A i, j \in DOMAIN queue : queue[i] = queue[j] => i = j
    BY DEF QueueInv
  <1>2. CASE \E i \in DOMAIN queue : queue[i] = t
    <2>1. PICK place \in DOMAIN queue : place = CHOOSE i \in DOMAIN queue : queue[i] = t
      BY <1>2
    <2>2. queue[place] = t /\ place \in 1..Len(queue)
      BY <1>1, <1>2, <2>1
    <2> DEFINE less == [i \in 1..Len(queue) - 1 |-> queue[IF i < place THEN i ELSE i + 1]]
    <2>3. Without(t) = less
      BY <1>2, <2>1 DEF Without
    <2>4. DOMAIN less = 1..Len(queue) - 1
      OBVIOUS
    <2>5. \A i \in DOMAIN less : less[i] = IF i < place THEN queue[i] ELSE queue[i + 1]
      BY <1>1, <2>2
    <2>6. \A i \in 1..Len(queue) - 1 : i \in DOMAIN queue /\ i + 1 \in DOMAIN queue
      BY <1>1
    <2>7. less \in Seq(Task)
      <3>1. \A i \in 1..Len(queue) - 1 : less[i] \in Task
        BY <1>1, <2>4, <2>5, <2>6
      <3>2. less \in [1..Len(queue) - 1 -> Task]
        BY <3>1
      <3>3. Len(queue) - 1 \in Nat
        BY <1>1, <2>2
      <3> QED BY <3>2, <3>3
    <2> HIDE DEF less
    <2>8. ASSUME NEW i \in DOMAIN less, NEW j \in DOMAIN less, less[i] = less[j] PROVE i = j
      <3>1. PICK k \in DOMAIN queue : less[i] = queue[k] /\ k = IF i < place THEN i ELSE i + 1
        BY <2>4, <2>5, <2>6
      <3>2. PICK l \in DOMAIN queue : less[j] = queue[l] /\ l = IF j < place THEN j ELSE j + 1
        BY <2>4, <2>5, <2>6
      <3>3. k = l
        BY <1>1, <2>8, <3>1, <3>2
      <3> QED BY <1>1, <2>2, <2>4, <3>1, <3>2, <3>3
    <2>9. ASSUME NEW other \in Task, NEW i \in DOMAIN less, less[i] = other
          PROVE  other # t /\ \E k \in DOMAIN queue : queue[k] = other
      <3>1. PICK k \in DOMAIN queue : less[i] = queue[k] /\ k = IF i < place THEN i ELSE i + 1
        BY <2>4, <2>5, <2>6
      <3>2. k # place
        BY <1>1, <2>2, <2>4, <3>1
      <3> QED BY <1>1, <2>2, <2>9, <3>1, <3>2
    <2>10. ASSUME NEW other \in Task, other # t, NEW k \in DOMAIN queue, queue[k] = other
           PROVE  \E i \in DOMAIN less : less[i] = other
      <3>1. k # place /\ k \in 1..Len(queue)
        BY <1>1, <2>2, <2>10
      <3>2. PICK i \in 1..Len(queue) - 1 : k = IF i < place THEN i ELSE i + 1
        <4>1. CASE k < place
          BY <1>1, <2>2, <3>1, <4>1
        <4>2. CASE ~(k < place)
          <5>1. k - 1 \in 1..Len(queue) - 1 /\ ~(k - 1 < place) /\ k = (k - 1) + 1
            BY <1>1, <2>2, <3>1, <4>2
          <5> QED BY <5>1
        <4> QED BY <4>1, <4>2
      <3> QED BY <2>4, <2>5, <2>10, <3>2
    <2> QED BY <2>3, <2>7, <2>8, <2>9, <2>10
  <1>3. CASE ~\E i \in DOMAIN queue : queue[i] = t
    BY <1>1, <1>3 DEF Without
  <1> QED BY <1>2, <1>3

\* What becomes of the holder, its job and the phase.
Continues ==
    IF ahead'[1] = "end"
    THEN /\ lock' = Free /\ job' = [job EXCEPT ![lock.owner] = NoJob]
         /\ phase' = IF job[lock.owner].kind # "start" THEN phase
                     ELSE IF config.volume = None THEN "adopting" ELSE "ready"
    ELSE UNCHANGED <<job, phase>> /\ lock'.owner = lock.owner

LEMMA RestStep ==
    ASSUME TaskInv, NEW step, At(step), Go(Rest), UNCHANGED queue
    PROVE  /\ TaskInv' /\ Continues /\ ahead[1] = step /\ lock.owner \in Task
           /\ \A i \in 1..6 : ahead'[i] = ahead[i + 1]
           /\ ahead'[7] = "end"
  <1>1. lock.plan # <<>> /\ ahead[1] = step /\ lock.owner \in Task
    BY AtIs DEF TaskInv
  <1>2. /\ PlanInv' /\ ahead'[7] = "end"
        /\ \A i \in 1..6 : ahead'[i] = ahead[i + 1]
        /\ lock'.owner = IF ahead'[1] = "end" THEN None ELSE lock.owner
    BY <1>1, GoesOnWithRest DEF TaskInv
  <1>3. Comes("apply")' => Comes("apply")
    BY <1>2 DEF Comes
  <1>4. PICK plan : plan = Rest /\ Go(plan)
    OBVIOUS
  <1>5. JobType' /\ QueueInv' /\ PhaseInv' /\ Continues
    BY <1>1, <1>2, <1>3, <1>4, GoKeepsTasks DEF Continues
  <1> QED BY <1>1, <1>2, <1>5 DEF TaskInv

LEMMA SyncStep ==
    ASSUME TaskInv, At("sync"), Go(SyncPlan \o Rest), UNCHANGED queue
    PROVE  /\ TaskInv' /\ Continues /\ ahead[1] = "sync" /\ lock.owner \in Task
           /\ ahead[2] \in {"apply", "end"} /\ ahead[3] = "end"
           /\ \/ /\ service.curve /\ ~Running
                 /\ ahead'[1] = "remember" /\ ahead'[2] = "start" /\ ahead'[3] = ahead[2] /\ ahead'[4] = "end"
              \/ /\ ~service.curve /\ Running
                 /\ ahead'[1] = "handback" /\ ahead'[2] = "forget" /\ ahead'[3] = "stop"
                 /\ ahead'[4] = "off" /\ ahead'[5] = ahead[2] /\ ahead'[6] = "end"
              \/ /\ service.curve <=> Running
                 /\ ahead'[1] = ahead[2] /\ ahead'[2] = "end"
  <1>1. lock.plan # <<>> /\ ahead[1] = "sync" /\ lock.owner \in Task
    BY AtIs DEF TaskInv
  <1>2. ahead[2] \in {"apply", "end"} /\ ahead[3] = "end"
    BY <1>1, NearTheEnd DEF TaskInv
  <1>3. /\ PlanInv'
        /\ \/ /\ service.curve /\ ~Running
              /\ ahead'[1] = "remember" /\ ahead'[2] = "start" /\ ahead'[3] = ahead[2] /\ ahead'[4] = "end"
           \/ /\ ~service.curve /\ Running
              /\ ahead'[1] = "handback" /\ ahead'[2] = "forget" /\ ahead'[3] = "stop"
              /\ ahead'[4] = "off" /\ ahead'[5] = ahead[2] /\ ahead'[6] = "end"
           \/ /\ service.curve <=> Running
              /\ ahead'[1] = ahead[2] /\ ahead'[2] = "end"
        /\ lock'.owner = IF ahead'[1] = "end" THEN None ELSE lock.owner
    BY SyncGoesOn DEF TaskInv
  <1>4. Comes("apply")' => Comes("apply")
    <2>1. Comes("apply") <=> ahead[2] = "apply"
      BY <1>1, <1>2, ComesAhead DEF TaskInv, PlanInv, Shape, Follow
    <2>2. Comes("apply")' => ahead[2] = "apply"
      <3>1. CASE ahead'[1] = "remember"
        <4>1. ahead'[2] = "start" /\ ahead'[3] = ahead[2] /\ \A i \in 4..7 : ahead'[i] = "end"
          BY <1>2, <1>3, <3>1 DEF PlanInv, Shape, Follow
        <4> QED BY <3>1, <4>1 DEF Comes
      <3>2. CASE ahead'[1] = "handback"
        <4>1. ahead'[2] = "forget" /\ ahead'[3] = "stop" /\ ahead'[4] = "off" /\ ahead'[5] = ahead[2]
              /\ ahead'[6] = "end" /\ ahead'[7] = "end"
          BY <1>2, <1>3, <3>2 DEF PlanInv, Shape, Follow
        <4> QED BY <3>2, <4>1 DEF Comes
      <3>3. CASE ahead'[1] = ahead[2] /\ ahead'[2] = "end"
        <4>1. \A i \in 2..7 : ahead'[i] = "end"
          BY <1>2, <1>3, <3>3 DEF PlanInv, Shape, Follow
        <4> QED BY <3>3, <4>1 DEF Comes
      <3> QED BY <1>3, <3>1, <3>2, <3>3
    <2> QED BY <2>1, <2>2
  <1>5. PICK plan : plan = SyncPlan \o Rest /\ Go(plan)
    OBVIOUS
  <1>6. JobType' /\ QueueInv' /\ PhaseInv' /\ Continues
    BY <1>1, <1>3, <1>4, <1>5, GoKeepsTasks DEF Continues
  <1> QED BY <1>1, <1>2, <1>3, <1>6 DEF TaskInv

LEMMA StartStep ==
    ASSUME TaskInv, At("start"), NEW first, NEW second, NEW third, Go(<<first, second, third>> \o Rest), UNCHANGED queue,
           \/ first = "target" /\ second = "takeover" /\ third = "on"
           \/ first = "handback" /\ second = "forget" /\ third = "failed"
    PROVE  /\ TaskInv' /\ ahead[1] = "start" /\ lock.owner \in Task
           /\ ahead[2] \in {"apply", "end"} /\ ahead[3] = "end"
           /\ ahead'[1] = first /\ ahead'[2] = second /\ ahead'[3] = third /\ ahead'[4] = ahead[2] /\ ahead'[5] = "end"
           /\ UNCHANGED <<job, phase>> /\ lock'.owner = lock.owner
  <1>1. lock.plan # <<>> /\ ahead[1] = "start" /\ lock.owner \in Task
    BY AtIs DEF TaskInv
  <1>2. ahead[2] \in {"apply", "end"} /\ ahead[3] = "end"
    BY <1>1, NearTheEnd DEF TaskInv
  <1>3. /\ PlanInv'
        /\ ahead'[1] = first /\ ahead'[2] = second /\ ahead'[3] = third /\ ahead'[4] = ahead[2] /\ ahead'[5] = "end"
        /\ lock'.owner = lock.owner
    BY StartGoesOn DEF TaskInv
  <1>4. ahead'[1] # "end" /\ \A i \in 1..7 : ahead'[i] = "apply" => ahead[2] = "apply"
    BY <1>3 DEF PlanInv, Shape, Follow
  <1>5. Comes("apply")' => Comes("apply")
    BY <1>4 DEF Comes
  <1>6. lock'.owner = IF ahead'[1] = "end" THEN None ELSE lock.owner
    BY <1>3, <1>4
  <1>7. PICK plan : plan = <<first, second, third>> \o Rest /\ Go(plan)
    OBVIOUS
  <1>8. JobType' /\ QueueInv' /\ PhaseInv' /\ UNCHANGED <<job, phase>>
    BY <1>1, <1>3, <1>4, <1>5, <1>6, <1>7, GoKeepsTasks
  <1> QED BY <1>1, <1>2, <1>3, <1>8 DEF TaskInv

LEMMA ApplyStep ==
    ASSUME TaskInv, At("apply"), NEW output, NEW hasVolume \in BOOLEAN,
           Go(ApplyPlan(output, TRUE, hasVolume) \o Rest), UNCHANGED queue
    PROVE  /\ TaskInv' /\ Continues /\ ahead[1] = "apply" /\ lock.owner = Main /\ phase = "starting"
           /\ Applies(output, TRUE, hasVolume) /\ ~Comes("apply")'
  <1>1. lock.plan # <<>> /\ ahead[1] = "apply"
    BY AtIs DEF TaskInv
  <1>2. Comes("apply")
    BY <1>1 DEF Comes
  <1>3. PlanInv' /\ Applies(output, TRUE, hasVolume) /\ lock'.owner = IF ahead'[1] = "end" THEN None ELSE lock.owner
    BY ApplyGoesOn DEF TaskInv
  <1>4. ~Comes("apply")'
    <2>1. ahead'[1] # "apply" /\ ahead'[2] # "apply" /\ ahead'[3] = "end"
      BY <1>3 DEF Applies
    <2>2. \A i \in 4..7 : ahead'[i] = "end"
      BY <1>3, <2>1 DEF PlanInv, Shape, Follow
    <2> QED BY <2>1, <2>2 DEF Comes
  <1>5. PICK plan : plan = ApplyPlan(output, TRUE, hasVolume) \o Rest /\ Go(plan)
    OBVIOUS
  <1>6. JobType' /\ QueueInv' /\ PhaseInv' /\ Continues
    BY <1>1, <1>3, <1>4, <1>5, GoKeepsTasks, Zenon DEF Continues
  <1> QED BY <1>1, <1>2, <1>3, <1>4, <1>6 DEF TaskInv, PhaseInv

(***************************************************************************)
(* Types                                                                   *)
(***************************************************************************)

ConfigType ==
    /\ config \in [output : Device \cup {None}, volume : Volume \cup {None},
                   curve : BOOLEAN, hostDefault : Device \cup {None}]
    /\ kept \in Device \cup {None}

ServiceType ==
    service \in [output : Device \cup {None}, volume : Volume, curve : BOOLEAN,
                 state : {"detecting", "off", "on", "failed"},
                 chain : {"none", "started", "running"}]

HostType ==
    host \in [default : Device \cup {Chain}, chain : BOOLEAN, target : Device \cup {None},
              volume : [Device -> Volume]]

FlagType ==
    cut \in BOOLEAN /\ lost \in BOOLEAN /\ gone \in BOOLEAN /\ failed \subseteq {"volume", "target"}

\* An output that is to become the default is one; and before the equalizer is
\* detected no task has anything to do with the chain.
NothingEarly ==
    /\ Comes("device") => service.output # None
    /\ phase \in {"down", "detecting", "probing"} =>
           service.state = "detecting" /\ service.chain = "none" /\ ahead[1] \in {"end", "device", "volume"}

ValueInv == ConfigType /\ ServiceType /\ HostType /\ FlagType /\ NothingEarly

LEMMA OutputsAreDevices ==
    ASSUME ConfigType, ServiceType, HostType
    PROVE  Heard \in Device /\ Target \in Device \cup {None} /\ None \notin Device /\ StoredVolume \in Volume
  <1>1. Fallback \in Device /\ None \notin Device /\ Chain \notin Device
    BY ConstantsAssumption
  <1>2. host.default \in Device \cup {Chain} /\ host.target \in Device \cup {None}
    BY DEF HostType
  <1>3. Heard \in Device
    BY <1>1, <1>2 DEF Heard
  <1>4. Target \in Device \cup {None}
    BY DEF Target, ConfigType, ServiceType
  <1>5. StoredVolume \in Volume
    BY DEF StoredVolume, ConfigType, DefaultVolume, Volume
  <1> QED BY <1>1, <1>3, <1>4, <1>5

\* Setting a volume sets nothing else, or fails.
LEMMA VolumeIsSet ==
    ASSUME ConfigType, ServiceType, HostType, NEW volume \in Volume, SetVolume(volume)
    PROVE  /\ HostType' /\ host'.default = host.default /\ host'.chain = host.chain /\ host'.target = host.target
           /\ \/ failed' = failed \cup {"volume"}
              \/ /\ failed' = failed \ {"volume"}
                 /\ CASE Running /\ Target # None -> host'.volume = [host.volume EXCEPT ![Target] = volume]
                      [] host.default = Chain /\ host.chain /\ Target = None -> host' = host
                      [] OTHER -> host'.volume = [host.volume EXCEPT ![Heard] = volume]
  <1>1. Heard \in Device /\ Target \in Device \cup {None} /\ None \notin Device
    BY OutputsAreDevices
  <1> DEFINE set == CASE Running /\ Target # None -> [host EXCEPT !.volume[Target] = volume]
                      [] host.default = Chain /\ host.chain /\ Target = None -> host
                      [] OTHER -> [host EXCEPT !.volume[Heard] = volume]
  <1>0. \/ host' = set /\ failed' = failed \ {"volume"}
        \/ host' = host /\ failed' = failed \cup {"volume"}
    BY DEF SetVolume, Command
  <1>5. CASE host' = host /\ failed' = failed \cup {"volume"}
    BY <1>5 DEF HostType
  <1>6. CASE host' = set /\ failed' = failed \ {"volume"}
    <2>2. CASE Running /\ Target # None
      <3>1. host' = [host EXCEPT !.volume[Target] = volume]
        BY <1>6, <2>2
      <3>2. host' = [host EXCEPT !.volume = [host.volume EXCEPT ![Target] = volume]]
        BY <3>1 DEF HostType
      <3>3. [host.volume EXCEPT ![Target] = volume] \in [Device -> Volume]
        BY DEF HostType
      <3> QED BY <1>6, <2>2, <3>2, <3>3 DEF HostType
    <2>3. CASE ~(Running /\ Target # None) /\ host.default = Chain /\ host.chain /\ Target = None
      BY <1>6, <2>3 DEF HostType
    <2>4. CASE ~(Running /\ Target # None) /\ ~(host.default = Chain /\ host.chain /\ Target = None)
      <3>1. host' = [host EXCEPT !.volume[Heard] = volume]
        BY <1>6, <2>4
      <3>2. host' = [host EXCEPT !.volume = [host.volume EXCEPT ![Heard] = volume]]
        BY <3>1 DEF HostType
      <3>3. [host.volume EXCEPT ![Heard] = volume] \in [Device -> Volume]
        BY <1>1 DEF HostType
      <3> QED BY <1>6, <2>4, <3>2, <3>3 DEF HostType
    <2> QED BY <2>2, <2>3, <2>4
  <1> QED BY <1>0, <1>5, <1>6

\* Nor does pointing the chain at its target.
LEMMA TargetIsSet ==
    ASSUME ConfigType, ServiceType, HostType, FlagType, DoTarget
    PROVE  /\ HostType' /\ FlagType' /\ UNCHANGED <<service, config, lost, cut, gone, queue>>
           /\ host'.default = host.default /\ host'.chain = host.chain
           /\ \/ failed' = failed \cup {"target"} /\ host' = host
              \/ failed' = failed \ {"target"} /\ (host.chain => host'.target = Target)
  <1>1. Target \in Device \cup {None}
    BY OutputsAreDevices
  <1>2. UNCHANGED <<service, config, lost, cut, gone, queue>>
    BY DEF DoTarget, bounds
  <1>3. \/ failed' = failed \cup {"target"} /\ host' = host
        \/ failed' = failed \ {"target"} /\ host' = [host EXCEPT !.target = IF host.chain THEN Target ELSE @]
    BY DEF DoTarget, Command
  <1> QED BY <1>1, <1>2, <1>3 DEF HostType, FlagType

LEMMA DefaultIsSet ==
    ASSUME HostType, NEW output \in Device \cup {Chain}, MakeDefault(output), FlagType
    PROVE  /\ HostType' /\ lost' \in BOOLEAN /\ (lost => lost')
           /\ host'.chain = host.chain /\ host'.target = host.target /\ host'.volume = host.volume
           /\ lost' \/ host'.default = output
  BY DEF MakeDefault, HostType, FlagType, Trouble

LEMMA ValueIsKept ==
    ASSUME ConfigType, FlagType, NEW value \in Device \cup {None}, Keep(value)
    PROVE  /\ ConfigType' /\ lost' \in BOOLEAN /\ (lost => lost')
           /\ config' = [config EXCEPT !.hostDefault = value]
           /\ lost' \/ (kept = config.hostDefault => kept' = value)
  BY DEF Keep, ConfigType, FlagType

\* What comes is ahead within five steps; a device is the first of them.
LEMMA ComesIn ==
    ASSUME NEW plan, \A i \in 1..6 : plan[i + 1] \in Follow(plan[i])
    PROVE  /\ (\E i \in 1..7 : plan[i] = "device") <=> plan[1] = "device"
           /\ plan[6] = "end" /\ plan[7] = "end"
           /\ (\E i \in 1..7 : plan[i] = "sync")
                  <=> plan[1] = "sync" \/ plan[2] = "sync" \/ plan[3] = "sync" \/ plan[4] = "sync"
           /\ (\E i \in 1..7 : plan[i] = "off")
                  <=> plan[1] = "off" \/ plan[2] = "off" \/ plan[3] = "off" \/ plan[4] = "off"
           /\ (\E i \in 1..7 : plan[i] = "failed") <=> plan[1] = "failed" \/ plan[2] = "failed" \/ plan[3] = "failed"
           /\ (\E i \in 1..7 : plan[i] = "volume") <=> plan[1] = "volume" \/ plan[2] = "volume"
           /\ (\E i \in 1..7 : plan[i] = "handback") <=> plan[1] = "handback"
           /\ (\E i \in 1..7 : plan[i] = "apply")
                  <=> plan[1] = "apply" \/ plan[2] = "apply" \/ plan[3] = "apply" \/ plan[4] = "apply" \/ plan[5] = "apply"
  <1>1. /\ plan[2] \in Follow(plan[1]) /\ plan[3] \in Follow(plan[2]) /\ plan[4] \in Follow(plan[3])
        /\ plan[5] \in Follow(plan[4]) /\ plan[6] \in Follow(plan[5]) /\ plan[7] \in Follow(plan[6])
    OBVIOUS
  <1>2. plan[6] = "end" /\ plan[7] = "end"
    BY <1>1 DEF Follow
  <1>3. ASSUME NEW step, step # "end"
        PROVE  (\E i \in 1..7 : plan[i] = step) <=> \/ plan[1] = step \/ plan[2] = step \/ plan[3] = step
                                                   \/ plan[4] = step \/ plan[5] = step
    BY <1>2, <1>3
  <1>4. plan[2] # "device" /\ plan[3] # "device" /\ plan[4] # "device" /\ plan[5] # "device"
    BY <1>1 DEF Follow
  <1>5. plan[2] # "handback" /\ plan[3] # "handback" /\ plan[4] # "handback" /\ plan[5] # "handback"
    BY <1>1 DEF Follow
  <1>6. plan[5] # "sync" /\ plan[5] # "off"
    BY <1>1 DEF Follow
  <1>7. plan[4] # "failed" /\ plan[5] # "failed"
    BY <1>1 DEF Follow
  <1>8. plan[3] # "volume" /\ plan[4] # "volume" /\ plan[5] # "volume"
    BY <1>1 DEF Follow
  <1> QED BY <1>2, <1>3, <1>4, <1>5, <1>6, <1>7, <1>8

LEMMA ComesNow ==
    ASSUME PlanInv
    PROVE  /\ Comes("device") <=> ahead[1] = "device"
           /\ ahead[6] = "end" /\ ahead[7] = "end"
           /\ Comes("sync") <=> ahead[1] = "sync" \/ ahead[2] = "sync" \/ ahead[3] = "sync" \/ ahead[4] = "sync"
           /\ Comes("off") <=> ahead[1] = "off" \/ ahead[2] = "off" \/ ahead[3] = "off" \/ ahead[4] = "off"
           /\ Comes("failed") <=> ahead[1] = "failed" \/ ahead[2] = "failed" \/ ahead[3] = "failed"
           /\ Comes("volume") <=> ahead[1] = "volume" \/ ahead[2] = "volume"
           /\ Comes("handback") <=> ahead[1] = "handback"
           /\ Comes("apply") <=> \/ ahead[1] = "apply" \/ ahead[2] = "apply" \/ ahead[3] = "apply"
                                \/ ahead[4] = "apply" \/ ahead[5] = "apply"
  <1>1. \A i \in 1..6 : ahead[i + 1] \in Follow(ahead[i])
    BY DEF PlanInv, Shape
  <1> QED BY <1>1, ComesIn DEF Comes

LEMMA ComesNext ==
    ASSUME PlanInv'
    PROVE  /\ Comes("device")' <=> ahead'[1] = "device"
           /\ ahead'[6] = "end" /\ ahead'[7] = "end"
           /\ Comes("sync")' <=> ahead'[1] = "sync" \/ ahead'[2] = "sync" \/ ahead'[3] = "sync" \/ ahead'[4] = "sync"
           /\ Comes("off")' <=> ahead'[1] = "off" \/ ahead'[2] = "off" \/ ahead'[3] = "off" \/ ahead'[4] = "off"
           /\ Comes("failed")' <=> ahead'[1] = "failed" \/ ahead'[2] = "failed" \/ ahead'[3] = "failed"
           /\ Comes("volume")' <=> ahead'[1] = "volume" \/ ahead'[2] = "volume"
           /\ Comes("handback")' <=> ahead'[1] = "handback"
           /\ Comes("apply")' <=> \/ ahead'[1] = "apply" \/ ahead'[2] = "apply" \/ ahead'[3] = "apply"
                                 \/ ahead'[4] = "apply" \/ ahead'[5] = "apply"
  <1>1. \A i \in 1..6 : ahead'[i + 1] \in Follow(ahead'[i])
    BY DEF PlanInv, Shape
  <1> QED BY <1>1, ComesIn DEF Comes

TypeInv == TaskInv /\ ValueInv

\* The steps of a holder that are not among the first two find the service started.
LEMMA StepIsLate ==
    ASSUME ValueInv, ahead[1] \notin {"end", "device", "volume"}, Continues \/ UNCHANGED phase
    PROVE  phase \notin {"down", "detecting", "probing"} /\ phase' \notin {"down", "detecting", "probing"}
  BY DEF ValueInv, NothingEarly, Continues

LEMMA RestKeepsTypes ==
    ASSUME TypeInv, NEW step, At(step), Go(Rest), UNCHANGED queue,
           step \in {"device", "volume"} => UNCHANGED <<service.state, service.chain>>,
           UNCHANGED service.output, ConfigType', ServiceType', HostType', FlagType'
    PROVE  TypeInv'
  <1>1. /\ TaskInv' /\ Continues /\ ahead[1] = step
        /\ ahead'[1] = ahead[2] /\ ahead[2] \in Follow(ahead[1])
    BY RestStep DEF TypeInv, TaskInv, PlanInv, Shape
  <1>2. ahead'[1] = "device" => FALSE
    BY <1>1 DEF Follow
  <1>3. ~Comes("device")'
    BY <1>1, <1>2, ComesNext DEF TaskInv
  <1>4. CASE step \in {"device", "volume"}
    <2>1. phase' \in {"down", "detecting", "probing"} => phase' = phase
      BY <1>1 DEF Continues
    <2>2. ahead'[1] \in {"end", "device", "volume"} \/ ahead'[1] = "takeover"
      BY <1>1, <1>4 DEF Follow
    <2>3. ahead'[1] # "takeover"
      BY <1>1, <1>4 DEF Follow
    <2> QED BY <1>1, <1>3, <1>4, <2>1, <2>2, <2>3 DEF TypeInv, ValueInv, NothingEarly
  <1>5. CASE step \notin {"device", "volume"}
    <2>1. step # "end"
      BY AheadOf, AtIs DEF TypeInv, TaskInv, PlanInv
    <2>2. phase' \notin {"down", "detecting", "probing"}
      BY <1>1, <1>5, <2>1, StepIsLate DEF TypeInv
    <2> QED BY <1>1, <1>3, <2>2 DEF TypeInv, ValueInv, NothingEarly
  <1> QED BY <1>4, <1>5

LEMMA HolderKeepsTypes ==
    ASSUME TypeInv, Holder PROVE TypeInv'
  <1> USE DEF rest, bounds
  <1>0. /\ ConfigType /\ ServiceType /\ HostType /\ FlagType /\ TaskInv /\ ValueInv
        /\ Heard \in Device /\ Target \in Device \cup {None} /\ None \notin Device
    BY OutputsAreDevices DEF TypeInv, ValueInv
  <1>1. CASE DoDevice
    <2>1. service.output \in Device
      <3>1. ahead[1] = "device"
        BY <1>0, <1>1, AtIs DEF DoDevice, TaskInv
      <3>2. Comes("device")
        BY <3>1 DEF Comes
      <3> QED BY <1>0, <3>2 DEF ValueInv, NothingEarly, ServiceType
    <2>2. HostType' /\ FlagType'
      BY <1>0, <1>1, <2>1, DefaultIsSet DEF DoDevice, FlagType
    <2>3. ConfigType' /\ ServiceType'
      BY <1>0, <1>1 DEF DoDevice, ConfigType, ServiceType
    <2> QED BY <1>1, <2>2, <2>3, RestKeepsTypes DEF DoDevice
  <1>2. CASE DoVolume
    <2> DEFINE volume == IF job[lock.owner].kind = "audio" THEN job[lock.owner].volume ELSE service.volume
    <2>1. lock.owner \in Task
      BY <1>0, <1>2, AtIs DEF DoVolume, TaskInv
    <2>2. volume \in Volume
      BY <1>0, <2>1 DEF TaskInv, JobType, ServiceType
    <2>3. SetVolume(volume) /\ service' = [service EXCEPT !.volume = volume]
      BY <1>2 DEF DoVolume
    <2> HIDE DEF volume
    <2>4. HostType'
      BY <1>0, <2>2, <2>3, VolumeIsSet
    <2>5. ServiceType' /\ service'.output = service.output /\ service'.state = service.state
          /\ service'.chain = service.chain
      BY <1>0, <2>2, <2>3 DEF ServiceType
    <2>6. ConfigType' /\ FlagType'
      BY <1>0, <1>2, <2>2, <2>3, VolumeIsSet DEF DoVolume, ConfigType, FlagType
    <2> QED BY <1>2, <2>4, <2>5, <2>6, RestKeepsTypes DEF DoVolume
  <1>3. CASE DoRemember
    <2>1. ConfigType' /\ FlagType'
      BY <1>0, <1>3, ValueIsKept DEF DoRemember, ConfigType, FlagType, Trouble
    <2>2. ServiceType' /\ HostType'
      BY <1>0, <1>3 DEF DoRemember, ServiceType, HostType
    <2> QED BY <1>3, <2>1, <2>2, RestKeepsTypes DEF DoRemember
  <1>4. CASE DoStart
    <2>1. ConfigType' /\ FlagType'
      BY <1>0, <1>4 DEF DoStart, ConfigType, FlagType
    <2>2. ServiceType' /\ HostType'
      BY <1>0, <1>4 DEF DoStart, ServiceType, HostType
    <2>3. /\ TaskInv' /\ ~Comes("device")' /\ UNCHANGED phase /\ ahead[1] = "start"
      <3>1. CASE UNCHANGED <<lock, job, phase>>
        <4>1. ahead' = ahead /\ ahead[1] = "start"
          BY <1>0, <1>4, <3>1, AtIs DEF DoStart, ahead, TaskInv
        <4>2. TaskInv'
          BY <1>0, <1>4, <3>1, <4>1 DEF DoStart, TaskInv, PlanInv, LockType, Shape, JobType, QueueInv, PhaseInv, Comes
        <4> QED BY <3>1, <4>1, <4>2, ComesNext DEF TaskInv
      <3>2. CASE Go(<<"target", "takeover", "on">> \o Rest)
        <4>1. TaskInv' /\ ahead'[1] = "target" /\ ahead[1] = "start" /\ UNCHANGED phase
          BY <1>0, <1>4, <3>2, StartStep DEF DoStart
        <4> QED BY <4>1, ComesNext DEF TaskInv
      <3>3. CASE Go(<<"handback", "forget", "failed">> \o Rest)
        <4>1. TaskInv' /\ ahead'[1] = "handback" /\ ahead[1] = "start" /\ UNCHANGED phase
          BY <1>0, <1>4, <3>3, StartStep DEF DoStart
        <4> QED BY <4>1, ComesNext DEF TaskInv
      <3> QED BY <1>4, <3>1, <3>2, <3>3, Zenon DEF DoStart
    <2>4. phase' \notin {"down", "detecting", "probing"}
      BY <1>0, <2>3, StepIsLate
    <2> QED BY <2>1, <2>2, <2>3, <2>4 DEF TypeInv, ValueInv, NothingEarly
  <1>5. CASE DoTarget
    <2>1. FlagType' /\ HostType' /\ service' = service
      BY <1>0, <1>5, TargetIsSet
    <2>2. ConfigType' /\ ServiceType'
      BY <1>0, <1>5 DEF DoTarget, ConfigType, ServiceType
    <2> QED BY <1>5, <2>1, <2>2, RestKeepsTypes DEF DoTarget
  <1>6. CASE DoTakeover
    <2>1. HostType' /\ FlagType'
      BY <1>0, <1>6, DefaultIsSet DEF DoTakeover, FlagType, HostType
    <2>2. ConfigType' /\ ServiceType'
      BY <1>0, <1>6 DEF DoTakeover, ConfigType, ServiceType
    <2> QED BY <1>6, <2>1, <2>2, RestKeepsTypes DEF DoTakeover
  <1>7. CASE DoOn
    <2>1. HostType' /\ failed' \subseteq {"volume", "target"}
      BY <1>0, <1>7, VolumeIsSet DEF DoOn, ServiceType, FlagType
    <2>2. ServiceType' /\ service'.output = service.output
      BY <1>0, <1>7 DEF DoOn, ServiceType
    <2>3. gone' \in BOOLEAN
      BY <1>0, <1>7 DEF DoOn, HostType
    <2>4. ConfigType' /\ FlagType'
      BY <1>0, <1>7, <2>1, <2>3 DEF DoOn, ConfigType, FlagType
    <2> QED BY <1>7, <2>1, <2>2, <2>4, RestKeepsTypes DEF DoOn
  <1>8. CASE DoHandback
    <2>1. HostType' /\ FlagType'
      BY <1>0, <1>8, DefaultIsSet DEF DoHandback, FlagType, HostType
    <2>2. ConfigType' /\ ServiceType'
      BY <1>0, <1>8 DEF DoHandback, ConfigType, ServiceType
    <2> QED BY <1>8, <2>1, <2>2, RestKeepsTypes DEF DoHandback
  <1>9. CASE DoForget
    <2>1. ConfigType' /\ FlagType'
      BY <1>0, <1>9, ValueIsKept DEF DoForget, FlagType
    <2>2. ServiceType' /\ HostType'
      BY <1>0, <1>9 DEF DoForget, ServiceType, HostType
    <2> QED BY <1>9, <2>1, <2>2, RestKeepsTypes DEF DoForget
  <1>10. CASE DoFailed
    <2>1. ServiceType' /\ service'.output = service.output
      BY <1>0, <1>10 DEF DoFailed, ServiceType
    <2>2. ConfigType' /\ FlagType' /\ HostType'
      BY <1>0, <1>10 DEF DoFailed, ConfigType, FlagType, HostType
    <2> QED BY <1>10, <2>1, <2>2, RestKeepsTypes DEF DoFailed
  <1>11. CASE DoStop
    <2>1. ServiceType' /\ service'.output = service.output /\ HostType'
      BY <1>0, <1>11 DEF DoStop, ServiceType, HostType
    <2>2. ConfigType' /\ FlagType'
      BY <1>0, <1>11 DEF DoStop, ConfigType, FlagType
    <2> QED BY <1>11, <2>1, <2>2, RestKeepsTypes DEF DoStop
  <1>12. CASE DoOff
    <2>1. HostType' /\ failed' \subseteq {"volume", "target"}
      BY <1>0, <1>12, VolumeIsSet DEF DoOff, ServiceType, FlagType
    <2>2. ServiceType' /\ service'.output = service.output
      BY <1>0, <1>12 DEF DoOff, ServiceType
    <2>3. ConfigType' /\ FlagType'
      BY <1>0, <1>12, <2>1 DEF DoOff, ConfigType, FlagType
    <2> QED BY <1>12, <2>1, <2>2, <2>3, RestKeepsTypes DEF DoOff
  <1>13. CASE DoSync
    <2>1. ServiceType' /\ ConfigType' /\ FlagType' /\ HostType'
      BY <1>0, <1>13 DEF DoSync, ServiceType, ConfigType, FlagType, HostType
    <2>2. TaskInv' /\ Continues /\ ahead[1] = "sync" /\ ahead'[1] \in {"remember", "handback", "apply", "end"}
      BY <1>0, <1>13, SyncStep DEF DoSync
    <2>3. ~Comes("device")'
      BY <2>2, ComesNext DEF TaskInv
    <2>4. phase' \notin {"down", "detecting", "probing"}
      BY <1>0, <2>2, StepIsLate
    <2> QED BY <2>1, <2>2, <2>3, <2>4 DEF TypeInv, ValueInv, NothingEarly
  <1>14. CASE DoApply
    <2>1. ServiceType' /\ ConfigType' /\ FlagType' /\ HostType' /\ service' = service
      BY <1>0, <1>14 DEF DoApply, ServiceType, ConfigType, FlagType, HostType
    <2>2. PICK hasVolume \in BOOLEAN : hasVolume = (config.volume # None)
      OBVIOUS
    <2>3. At("apply") /\ Go(ApplyPlan(service.output, TRUE, hasVolume) \o Rest) /\ UNCHANGED queue
      BY <1>14, <2>2, Zenon DEF DoApply
    <2>4. TaskInv' /\ Continues /\ phase = "starting" /\ Applies(service.output, TRUE, hasVolume)
      BY <1>0, <2>3, ApplyStep, Zenon
    <2>5. Comes("device")' => service.output # None
      <3>1. ahead'[1] = "device" => service.output # None
        BY <2>4 DEF Applies
      <3> QED BY <2>4, <3>1, ComesNext DEF TaskInv
    <2>6. phase' \notin {"down", "detecting", "probing"}
      BY <2>4 DEF Continues
    <2> QED BY <2>1, <2>4, <2>5, <2>6 DEF TypeInv, ValueInv, NothingEarly
  <1> QED BY <1>1, <1>2, <1>3, <1>4, <1>5, <1>6, <1>7, <1>8, <1>9, <1>10, <1>11, <1>12, <1>13, <1>14
      DEF Holder

\* What each task finds when the lock is its own.
LEMMA StartTakes ==
    ASSUME TypeInv, BeginStart
    PROVE  /\ TaskInv' /\ job' = job /\ phase = "starting" /\ phase' = phase
           /\ queue # <<>> /\ queue[1] = Main /\ Len(queue) \in Nat \ {0} /\ Len(queue') = Len(queue) - 1
           /\ \A i \in 1..Len(queue') : queue'[i] = queue[i + 1]
  <1>1. /\ PlanInv' /\ ahead'[1] \in {"handback", "sync"} /\ lock'.owner = Main
    BY StartBegins
  <1>2. PICK plan : Take(Main, plan)
    BY DEF BeginStart
  <1>3. phase = "starting" /\ phase' = phase
    BY <1>2 DEF BeginStart, TypeInv, TaskInv, PhaseInv, Take
  <1> QED BY <1>1, <1>2, <1>3, TakeKeepsTasks, NoTaskIsNone DEF TypeInv, TaskInv

LEMMA AudioTakes ==
    ASSUME TypeInv, NEW t \in Task, BeginAudio(t)
    PROVE  /\ TaskInv' /\ job' = job /\ lock'.owner = t /\ phase' = phase
           /\ Applies(job[t].output, job[t].output # service.output, TRUE) /\ ~Comes("apply")'
           /\ queue # <<>> /\ queue[1] = t /\ Len(queue) \in Nat \ {0} /\ Len(queue') = Len(queue) - 1
           /\ \A i \in 1..Len(queue') : queue'[i] = queue[i + 1]
  <1>1. PICK changed \in BOOLEAN : changed = (job[t].output # service.output)
    OBVIOUS
  <1>2. Take(t, ApplyPlan(job[t].output, changed, TRUE))
    BY <1>1, Zenon DEF BeginAudio
  <1>3. PlanInv' /\ Applies(job[t].output, changed, TRUE) /\ lock'.owner = t
    BY <1>2, AudioBegins, Zenon
  <1>4. ahead'[1] \in {"target", "device", "volume"} /\ ahead'[2] \in {"volume", "end"} /\ ahead'[3] = "end"
    BY <1>3, Zenon DEF Applies
  <1>5. ~Comes("apply")'
    <2>1. \A i \in 3..7 : ahead'[i] = "end"
      BY <1>3, <1>4 DEF PlanInv, Shape, Follow
    <2> QED BY <1>4, <2>1 DEF Comes
  <1>6. PICK plan : Take(t, plan)
    BY <1>2
  <1>7. lock'.owner = IF ahead'[1] = "end" THEN None ELSE t
    BY <1>3, <1>4
  <1>8. phase' = phase
    BY <1>6 DEF Take
  <1>9. Applies(job[t].output, job[t].output # service.output, TRUE)
    BY <1>1, <1>3, Zenon
  <1> QED BY <1>3, <1>4, <1>5, <1>6, <1>7, <1>8, <1>9, TakeKeepsTasks DEF TypeInv, TaskInv

LEMMA CurveTakes ==
    ASSUME TypeInv, NEW t \in Task, BeginCurve(t)
    PROVE  /\ TaskInv' /\ phase' = phase
           /\ IF phase \in {"detecting", "probing"}
              THEN ahead'[1] = "end" /\ lock' = Free /\ job' = [job EXCEPT ![t] = NoJob]
              ELSE ahead'[1] = "sync" /\ ahead'[2] = "end" /\ lock'.owner = t /\ job' = job
           /\ queue # <<>> /\ queue[1] = t /\ Len(queue) \in Nat \ {0} /\ Len(queue') = Len(queue) - 1
           /\ \A i \in 1..Len(queue') : queue'[i] = queue[i + 1]
  <1>1. job[t].kind = "curve"
    BY DEF BeginCurve
  <1>2. CASE phase \in {"detecting", "probing"}
    <2>1. Take(t, <<>>)
      BY <1>2 DEF BeginCurve
    <2>2. PlanInv' /\ ahead'[1] = "end" /\ lock' = Free
      BY <2>1, LittleBegins
    <2>3. ~Comes("apply")'
      <3>1. \A i \in 1..7 : ahead'[i] = "end"
        BY <2>2 DEF PlanInv, Shape, Follow
      <3> QED BY <3>1 DEF Comes
    <2>4. PICK plan : Take(t, plan)
      BY <2>1
    <2>5. lock'.owner = None /\ phase' = phase
      BY <2>2, <2>4 DEF Free, Take
    <2> QED BY <1>1, <1>2, <2>2, <2>3, <2>4, <2>5, TakeKeepsTasks DEF TypeInv, TaskInv
  <1>3. CASE phase \notin {"detecting", "probing"}
    <2>1. Take(t, <<"sync">>)
      BY <1>3 DEF BeginCurve
    <2>2. PlanInv' /\ ahead'[1] = "sync" /\ ahead'[2] = "end" /\ lock'.owner = t
      BY <2>1, LittleBegins
    <2>3. ~Comes("apply")'
      <3>1. \A i \in 2..7 : ahead'[i] = "end"
        BY <2>2 DEF PlanInv, Shape, Follow
      <3> QED BY <2>2, <3>1 DEF Comes
    <2>4. PICK plan : Take(t, plan)
      BY <2>1
    <2>5. phase' = phase
      BY <2>4 DEF Take
    <2> QED BY <1>1, <1>3, <2>2, <2>3, <2>4, <2>5, TakeKeepsTasks DEF TypeInv, TaskInv
  <1> QED BY <1>2, <1>3

LEMMA CheckTakes ==
    ASSUME TypeInv, BeginCheck
    PROVE  /\ TaskInv' /\ phase' = phase /\ phase = "ready" /\ service' = service
           /\ \/ /\ service.state # "on" \/ Running
                 /\ ahead'[1] = "end" /\ lock' = Free /\ job' = [job EXCEPT ![Main] = NoJob]
              \/ /\ service.state = "on" /\ ~(Running /\ host.chain)
                 /\ ahead'[1] = "stop" /\ ahead'[2] = "sync" /\ ahead'[3] = "end" /\ lock'.owner = Main /\ job' = job
           /\ queue # <<>> /\ queue[1] = Main /\ Len(queue) \in Nat \ {0} /\ Len(queue') = Len(queue) - 1
           /\ \A i \in 1..Len(queue') : queue'[i] = queue[i + 1]
  <1>0. job[Main].kind = "check" /\ phase = "ready" /\ Main \in Task
    BY NoTaskIsNone DEF BeginCheck, TypeInv, TaskInv, PhaseInv
  <1>1. CASE Take(Main, <<>>) /\ service' = service /\ (service.state # "on" \/ Running)
    <2>1. PlanInv' /\ ahead'[1] = "end" /\ lock' = Free
      BY <1>0, <1>1, LittleBegins
    <2>2. ~Comes("apply")'
      <3>1. \A i \in 1..7 : ahead'[i] = "end"
        BY <2>1 DEF PlanInv, Shape, Follow
      <3> QED BY <3>1 DEF Comes
    <2>3. PICK plan : Take(Main, plan)
      BY <1>1
    <2>4. lock'.owner = None /\ phase' = phase
      BY <2>1, <2>3 DEF Free, Take
    <2> QED BY <1>0, <1>1, <2>1, <2>2, <2>3, <2>4, TakeKeepsTasks DEF TypeInv, TaskInv
  <1>2. CASE Take(Main, <<"stop", "sync">>) /\ service.state = "on" /\ ~(Running /\ host.chain) /\ service' = service
    <2>1. PlanInv' /\ ahead'[1] = "stop" /\ ahead'[2] = "sync" /\ ahead'[3] = "end" /\ lock'.owner = Main
      BY <1>0, <1>2, LittleBegins
    <2>2. ~Comes("apply")'
      <3>1. \A i \in 3..7 : ahead'[i] = "end"
        BY <2>1 DEF PlanInv, Shape, Follow
      <3> QED BY <2>1, <3>1 DEF Comes
    <2>3. PICK plan : Take(Main, plan)
      BY <1>2
    <2>4. phase' = phase
      BY <2>3 DEF Take
    <2> QED BY <1>0, <1>2, <2>1, <2>2, <2>3, <2>4, TakeKeepsTasks DEF TypeInv, TaskInv
  <1> QED BY <1>1, <1>2 DEF BeginCheck

LEMMA BeginKeepsTypes ==
    ASSUME TypeInv, Begin PROVE TypeInv'
  <1>0. ConfigType /\ ServiceType /\ HostType /\ FlagType /\ NothingEarly
    BY DEF TypeInv, ValueInv
  <1>1. ASSUME NEW t, NEW plan, Take(t, plan) PROVE ConfigType' /\ HostType' /\ FlagType'
    BY <1>0, <1>1 DEF Take, ConfigType, HostType, FlagType
  <1>2. CASE BeginStart
    <2>1. TaskInv' /\ phase' = "starting"
      BY <1>2, StartTakes
    <2>2. ConfigType' /\ HostType' /\ FlagType'
      BY <1>1, <1>2 DEF BeginStart
    <2>3. ServiceType'
      BY <1>0, <1>2 DEF BeginStart, ServiceType
    <2>4. ahead'[1] # "device"
      BY <1>2, StartBegins
    <2> QED BY <2>1, <2>2, <2>3, <2>4, ComesNext DEF TypeInv, ValueInv, NothingEarly, TaskInv
  <1>3. CASE BeginCheck
    <2>1. TaskInv' /\ phase' = "ready" /\ service' = service /\ ahead'[1] # "device"
      BY <1>3, CheckTakes
    <2>2. ConfigType' /\ HostType' /\ FlagType'
      BY <1>1, <1>3 DEF BeginCheck
    <2>3. ServiceType'
      BY <1>0, <2>1 DEF ServiceType
    <2> QED BY <2>1, <2>2, <2>3, ComesNext DEF TypeInv, ValueInv, NothingEarly, TaskInv
  <1>4. ASSUME NEW t \in Task, BeginAudio(t) PROVE TypeInv'
    <2>1. TaskInv' /\ phase' = phase /\ Applies(job[t].output, job[t].output # service.output, TRUE)
      BY <1>4, AudioTakes
    <2>2. ConfigType' /\ HostType' /\ FlagType'
      BY <1>1, <1>4 DEF BeginAudio
    <2>3. ServiceType' /\ service' = [service EXCEPT !.output = job[t].output] /\ service'.output = job[t].output
      BY <1>0, <1>4 DEF BeginAudio, ServiceType, TypeInv, TaskInv, JobType, AnyJob
    <2>4. service'.state = service.state /\ service'.chain = service.chain
      BY <1>0, <2>3 DEF ServiceType
    <2>5. ahead'[1] = "device" => job[t].output # None
      BY <2>1 DEF Applies
    <2>6. ahead'[1] = "target" => Running
      BY <2>1, Zenon DEF Applies
    <2>7. ahead'[1] \in {"target", "device", "volume", "end"}
      BY <2>1, Zenon DEF Applies
    <2> QED BY <1>0, <2>1, <2>2, <2>3, <2>4, <2>5, <2>6, <2>7, ComesNext
        DEF TypeInv, ValueInv, NothingEarly, TaskInv, Running
  <1>5. ASSUME NEW t \in Task, BeginCurve(t) PROVE TypeInv'
    <2>1. /\ TaskInv' /\ phase' = phase /\ ahead'[1] \in {"end", "sync"}
          /\ phase \in {"detecting", "probing"} => ahead'[1] = "end"
      BY <1>5, CurveTakes
    <2>2. ConfigType' /\ HostType' /\ FlagType'
      BY <1>1, <1>5 DEF BeginCurve
    <2>3. ServiceType' /\ service'.state = service.state /\ service'.chain = service.chain
      BY <1>0, <1>5 DEF BeginCurve, ServiceType, TypeInv, TaskInv, JobType, AnyJob
    <2>4. phase # "down"
      BY <1>5 DEF BeginCurve, Take, TypeInv, TaskInv, PhaseInv
    <2> QED BY <1>0, <2>1, <2>2, <2>3, <2>4, ComesNext DEF TypeInv, ValueInv, NothingEarly, TaskInv
  <1> QED BY <1>2, <1>3, <1>4, <1>5 DEF Begin

LEMMA SameTasks ==
    ASSUME TaskInv, UNCHANGED <<lock, job, queue>>
    PROVE  PlanInv' /\ JobType' /\ QueueInv' /\ ahead' = ahead /\ \A step : Comes(step)' <=> Comes(step)
  <1>1. ahead' = ahead
    BY DEF ahead
  <1> QED BY <1>1 DEF TaskInv, PlanInv, LockType, Shape, JobType, QueueInv, Comes

LEMMA FreeTasks ==
    ASSUME lock' = Free
    PROVE  PlanInv' /\ (\A i \in 1..7 : ahead'[i] = "end") /\ \A step : step # "end" => ~Comes(step)'
  <1>1. lock'.plan = <<>> /\ lock'.owner = None
    BY DEF Free
  <1>2. \A i \in 1..7 : ahead'[i] = "end"
    BY <1>1 DEF ahead
  <1>3. LockType'
    BY <1>1 DEF LockType, Free
  <1> QED BY <1>2, <1>3 DEF PlanInv, Shape, Follow, Comes

LEMMA CutKeepsTasks ==
    ASSUME TaskInv, NEW t \in Request, Cut(t)
    PROVE  TaskInv'
  <1>1. /\ job' = [job EXCEPT ![t] = NoJob] /\ queue' = Without(t) /\ phase' = phase
        /\ lock' = IF lock.owner = t THEN Free ELSE lock
    BY DEF Cut
  <1>2. t \in Task /\ t # Main
    BY NoTaskIsNone
  <1>3. \A other \in Task : job'[other] = IF other = t THEN NoJob ELSE job[other]
    BY <1>1, <1>2 DEF TaskInv, JobType
  <1>4. job' \in [Task -> AnyJob]
    BY <1>1, NoJobType DEF TaskInv, JobType
  <1>5. JobType'
    BY <1>2, <1>3, <1>4, NoJobType, NoTaskIsNone DEF TaskInv, JobType
  <1>6. /\ queue' \in Seq(Task)
        /\ \A other \in Task : (\E i \in DOMAIN queue' : queue'[i] = other)
               <=> other # t /\ (\E i \in DOMAIN queue : queue[i] = other)
        /\ \A i, j \in DOMAIN queue' : queue'[i] = queue'[j] => i = j
    BY <1>1, <1>2, WithoutOne DEF TaskInv
  <1>7. lock'.owner = IF lock.owner = t THEN None ELSE lock.owner
    BY <1>1 DEF Free
  <1>8. \A i \in DOMAIN queue' : queue'[i] \in Task /\ queue'[i] # lock'.owner
    <2> SUFFICES ASSUME NEW i \in DOMAIN queue' PROVE queue'[i] \in Task /\ queue'[i] # lock'.owner
      OBVIOUS
    <2>1. queue'[i] \in Task
      BY <1>6
    <2>2. PICK k \in DOMAIN queue : queue[k] = queue'[i]
      BY <1>6, <2>1
    <2> QED BY <1>7, <2>1, <2>2, NoTaskIsNone DEF TaskInv, QueueInv
  <1>9. QueueInv'
    BY <1>2, <1>3, <1>6, <1>7, <1>8, NoTaskIsNone DEF TaskInv, QueueInv
  <1>10. PlanInv' /\ (Comes("apply")' => Comes("apply") /\ lock.owner # t)
    <2>1. CASE lock.owner = t
      BY <1>1, <2>1, FreeTasks
    <2>2. CASE lock.owner # t
      <3>1. lock' = lock /\ ahead' = ahead
        BY <1>1, <2>2 DEF ahead
      <3> QED BY <2>2, <3>1 DEF TaskInv, PlanInv, LockType, Shape, Comes
    <2> QED BY <2>1, <2>2
  <1>11. phase = "down" => lock' = Free /\ queue' = <<>>
    BY <1>1 DEF TaskInv, PhaseInv, Without
  <1>12. PhaseInv'
    BY <1>1, <1>2, <1>3, <1>7, <1>10, <1>11, NoTaskIsNone DEF TaskInv, PhaseInv
  <1> QED BY <1>5, <1>9, <1>10, <1>12 DEF TaskInv

LEMMA AskedIsAJob ==
    ASSUME ConfigType', NEW t \in Task, job \in [Task -> AnyJob], NEW kind \in {"audio", "curve"}, Ask(t, kind)
    PROVE  \E asked \in AnyJob :
               /\ job' = [job EXCEPT ![t] = asked] /\ queue' = Append(queue, t)
               /\ asked.kind = kind /\ asked.output = config'.output /\ asked.curve = config'.curve
               /\ asked.volume = StoredVolume' /\ asked.volume \in Volume
  <1> DEFINE asked == [kind |-> kind, output |-> config'.output, curve |-> config'.curve,
                       volume |-> IF config'.volume = None THEN DefaultVolume ELSE config'.volume]
  <1>1. asked.volume \in Volume /\ asked.volume = StoredVolume'
    BY DEF ConfigType, StoredVolume, DefaultVolume, Volume
  <1>2. asked \in AnyJob
    BY <1>1 DEF AnyJob, ConfigType
  <1> QED BY <1>1, <1>2 DEF Ask

\* A write, and the adoption of the host's volume: the last in the queue asks
\* for what has just been configured.
LEMMA AskStep ==
    ASSUME TaskInv, ConfigType', NEW t \in Task, NEW kind \in {"audio", "curve"}, job[t] = NoJob, Ask(t, kind),
           UNCHANGED lock, t = Main => kind = "audio" /\ phase = "adopting" /\ phase' = "ready",
           t # Main => phase # "down" /\ UNCHANGED phase
    PROVE  /\ TaskInv' /\ ahead' = ahead
           /\ Len(queue) \in Nat /\ Len(queue') = Len(queue) + 1 /\ queue'[Len(queue) + 1] = t
           /\ \A i \in 1..Len(queue) : queue'[i] = queue[i]
           /\ \A other \in Task : other # t => job'[other] = job[other]
           /\ job'[t].kind = kind /\ job'[t].output = config'.output /\ job'[t].volume = StoredVolume'
           /\ \A step : Comes(step)' <=> Comes(step)
  <1>1. PICK asked \in AnyJob :
            /\ job' = [job EXCEPT ![t] = asked] /\ queue' = Append(queue, t)
            /\ asked.kind = kind /\ asked.output = config'.output /\ asked.curve = config'.curve
            /\ asked.volume = StoredVolume' /\ asked.volume \in Volume
    BY AskedIsAJob DEF TaskInv, JobType
  <1>2. /\ PlanInv' /\ JobType' /\ QueueInv' /\ ahead' = ahead
        /\ Len(queue) \in Nat /\ Len(queue') = Len(queue) + 1 /\ queue'[Len(queue) + 1] = t
        /\ \A i \in 1..Len(queue) : queue'[i] = queue[i]
        /\ \A other \in Task : job'[other] = IF other = t THEN asked ELSE job[other]
    BY <1>1, AskKeepsTasks
  <1>3. \A step : Comes(step)' <=> Comes(step)
    BY <1>2 DEF Comes
  <1>4. job'[Main].kind = "start" <=> phase' = "starting"
    BY <1>1, <1>2, NoTaskIsNone DEF TaskInv, PhaseInv
  <1>5. job'[Main].kind # "none" => phase' \in {"starting", "ready"}
    BY <1>1, <1>2, NoTaskIsNone DEF TaskInv, PhaseInv
  <1>6. Comes("apply") => t # Main
    BY DEF TaskInv, PhaseInv
  <1>7. PhaseInv'
    BY <1>2, <1>3, <1>4, <1>5, <1>6 DEF TaskInv, PhaseInv
  <1> QED BY <1>1, <1>2, <1>3, <1>7 DEF TaskInv

LEMMA WriteStep ==
    ASSUME TypeInv, NEW t \in Request, Write(t)
    PROVE  /\ TypeInv' /\ ahead' = ahead /\ \A step : Comes(step)' <=> Comes(step)
           /\ Len(queue) \in Nat /\ Len(queue') = Len(queue) + 1 /\ queue'[Len(queue) + 1] = t
           /\ \A i \in 1..Len(queue) : queue'[i] = queue[i]
           /\ \A other \in Task : other # t => job'[other] = job[other]
           /\ config'.hostDefault = config.hostDefault /\ kept' = config.hostDefault
           /\ \/ /\ job'[t].kind = "curve"
                 /\ config'.output = config.output /\ config'.volume = config.volume
              \/ /\ job'[t].kind = "audio" /\ job'[t].output = config'.output /\ job'[t].volume = StoredVolume'
  <1>1. t \in Task /\ t # Main /\ job[t] = NoJob /\ UNCHANGED <<lock, phase, service, host, lost, gone, failed, cut>>
        /\ phase # "down"
    BY NoTaskIsNone DEF Write
  <1>2. /\ ConfigType' /\ config'.hostDefault = config.hostDefault /\ kept' = config.hostDefault
        /\ \/ Ask(t, "curve") /\ config'.output = config.output /\ config'.volume = config.volume
           \/ Ask(t, "audio")
    <2>0. ConfigType
      BY DEF TypeInv, ValueInv
    <2>1. CASE config' = [config EXCEPT !.curve = ~config.curve] /\ Ask(t, "curve")
      <3>1. (~config.curve) \in BOOLEAN
        <4>1. \A flag \in BOOLEAN : (~flag) \in BOOLEAN
          BY Zenon
        <4>2. config.curve \in BOOLEAN
          BY <2>0 DEF ConfigType
        <4> QED BY <4>1, <4>2, Zenon
      <3>2. kept' = config.hostDefault /\ kept' \in Device \cup {None}
        BY <2>0 DEF Write, ConfigType
      <3>3. config' \in [output : Device \cup {None}, volume : Volume \cup {None},
                         curve : BOOLEAN, hostDefault : Device \cup {None}]
        BY <2>0, <2>1, <3>1 DEF ConfigType
      <3>4. /\ config'.hostDefault = config.hostDefault /\ config'.output = config.output
            /\ config'.volume = config.volume
        BY <2>0, <2>1 DEF ConfigType
      <3> QED BY <2>1, <3>2, <3>3, <3>4 DEF ConfigType
    <2>2. ASSUME NEW output \in Device \cup {None}, config' = [config EXCEPT !.output = output], Ask(t, "audio")
          PROVE  ConfigType' /\ config'.hostDefault = config.hostDefault /\ kept' = config.hostDefault
      BY <2>0, <2>2 DEF Write, ConfigType
    <2>3. ASSUME NEW volume \in Volume, config' = [config EXCEPT !.volume = volume], Ask(t, "audio")
          PROVE  ConfigType' /\ config'.hostDefault = config.hostDefault /\ kept' = config.hostDefault
      BY <2>0, <2>3 DEF Write, ConfigType
    <2> QED BY <2>1, <2>2, <2>3 DEF Write
  <1>3. PICK kind \in {"audio", "curve"} :
            Ask(t, kind) /\ (kind = "curve" => config'.output = config.output /\ config'.volume = config.volume)
    BY <1>2
  <1>4. /\ TaskInv' /\ ahead' = ahead
        /\ Len(queue) \in Nat /\ Len(queue') = Len(queue) + 1 /\ queue'[Len(queue) + 1] = t
        /\ \A i \in 1..Len(queue) : queue'[i] = queue[i]
        /\ \A other \in Task : other # t => job'[other] = job[other]
        /\ job'[t].kind = kind /\ job'[t].output = config'.output /\ job'[t].volume = StoredVolume'
        /\ \A step : Comes(step)' <=> Comes(step)
    BY <1>1, <1>2, <1>3, AskStep DEF TypeInv
  <1>5. ValueInv'
    BY <1>1, <1>2, <1>4 DEF TypeInv, ValueInv, ServiceType, HostType, FlagType, NothingEarly
  <1> QED BY <1>2, <1>3, <1>4, <1>5 DEF TypeInv

LEMMA HostVolumesAreVolumes ==
    ASSUME ConfigType, ServiceType, HostType PROVE HostVolumes \subseteq Volume
  BY OutputsAreDevices DEF HostVolumes, HostType

LEMMA AdoptStep ==
    ASSUME TypeInv, Adopt
    PROVE  /\ TypeInv' /\ ahead' = ahead /\ \A step : Comes(step)' <=> Comes(step)
           /\ UNCHANGED <<lock, host, cut, lost, gone, failed>>
           /\ \E volume \in HostVolumes :
                  /\ service' = [service EXCEPT !.volume = volume]
                  /\ \/ volume = StoredVolume /\ UNCHANGED <<config, kept, job, queue>>
                     \/ /\ config' = [config EXCEPT !.volume = volume] /\ kept' = config.hostDefault
                        /\ Len(queue) \in Nat /\ Len(queue') = Len(queue) + 1 /\ queue'[Len(queue) + 1] = Main
                        /\ \A i \in 1..Len(queue) : queue'[i] = queue[i]
                        /\ \A other \in Task : other # Main => job'[other] = job[other]
                        /\ job'[Main].kind = "audio" /\ job'[Main].output = config'.output
                        /\ job'[Main].volume = StoredVolume'
  <1>0. ConfigType /\ ServiceType /\ HostType /\ FlagType /\ NothingEarly /\ TaskInv
    BY DEF TypeInv, ValueInv
  <1>1. PICK volume \in HostVolumes :
            /\ service' = [service EXCEPT !.volume = volume]
            /\ \/ volume = StoredVolume /\ UNCHANGED <<config, kept, job, queue>>
               \/ /\ volume # StoredVolume /\ config' = [config EXCEPT !.volume = volume]
                  /\ kept' = config.hostDefault /\ Ask(Main, "audio")
    BY DEF Adopt
  <1>2. volume \in Volume
    BY <1>0, HostVolumesAreVolumes
  <1>3. phase = "adopting" /\ phase' = "ready" /\ UNCHANGED <<lock, host, cut, lost, gone, failed>>
    BY DEF Adopt
  <1>4. ServiceType' /\ service'.output = service.output
    BY <1>0, <1>1, <1>2 DEF ServiceType
  <1>5. job[Main] = NoJob /\ Main \in Task /\ job[Main].kind = "none"
    BY <1>0, <1>3, NoTaskIsNone DEF TaskInv, PhaseInv, JobType
  <1>6. CASE volume = StoredVolume /\ UNCHANGED <<config, kept, job, queue>>
    <2>1. PlanInv' /\ JobType' /\ QueueInv' /\ ahead' = ahead /\ \A step : Comes(step)' <=> Comes(step)
      BY <1>0, <1>3, <1>6, SameTasks
    <2>2. PhaseInv'
      BY <1>0, <1>3, <1>5, <1>6, <2>1 DEF TaskInv, PhaseInv
    <2>3. ValueInv'
      BY <1>0, <1>3, <1>4, <1>6, <2>1 DEF ValueInv, ConfigType, HostType, FlagType, NothingEarly
    <2> QED BY <1>0, <1>1, <1>3, <1>6, <2>1, <2>2, <2>3 DEF TypeInv, TaskInv
  <1>7. CASE config' = [config EXCEPT !.volume = volume] /\ kept' = config.hostDefault /\ Ask(Main, "audio")
    <2>1. ConfigType'
      BY <1>0, <1>2, <1>7 DEF ConfigType
    <2>2. /\ TaskInv' /\ ahead' = ahead
          /\ Len(queue) \in Nat /\ Len(queue') = Len(queue) + 1 /\ queue'[Len(queue) + 1] = Main
          /\ \A i \in 1..Len(queue) : queue'[i] = queue[i]
          /\ \A other \in Task : other # Main => job'[other] = job[other]
          /\ job'[Main].kind = "audio" /\ job'[Main].output = config'.output /\ job'[Main].volume = StoredVolume'
          /\ \A step : Comes(step)' <=> Comes(step)
      BY <1>0, <1>3, <1>5, <1>7, <2>1, AskStep
    <2>3. ValueInv'
      BY <1>0, <1>3, <1>4, <2>1, <2>2 DEF ValueInv, HostType, FlagType, NothingEarly
    <2> QED BY <1>0, <1>1, <1>3, <1>7, <2>2, <2>3 DEF TypeInv
  <1> QED BY <1>1, <1>6, <1>7

LEMMA NextKeepsTypes ==
    ASSUME TypeInv, Next PROVE TypeInv'
  <1>0. ConfigType /\ ServiceType /\ HostType /\ FlagType /\ NothingEarly /\ TaskInv /\ ValueInv
    BY DEF TypeInv, ValueInv
  <1>1. CASE Begin
    BY <1>1, BeginKeepsTypes
  <1>2. CASE Holder
    BY <1>2, HolderKeepsTypes
  <1>3. CASE Start
    <2>1. PlanInv' /\ JobType' /\ QueueInv' /\ ahead' = ahead /\ \A step : Comes(step)' <=> Comes(step)
      BY <1>0, <1>3, SameTasks DEF Start
    <2>2. phase = "down" /\ phase' = "detecting" /\ lock = Free
      BY <1>0, <1>3 DEF Start, TaskInv, PhaseInv
    <2>3. PhaseInv'
      BY <1>0, <1>3, <2>1, <2>2 DEF Start, TaskInv, PhaseInv
    <2>4. ConfigType' /\ HostType' /\ cut' \in BOOLEAN /\ lost' \in BOOLEAN /\ gone' \in BOOLEAN
          /\ failed' = {}
      BY <1>0, <1>3 DEF Start, ConfigType, HostType, FlagType
    <2>5. ServiceType' /\ service'.state = "detecting" /\ service'.chain = "none"
      BY <1>0, <1>3 DEF Start, ConfigType, ServiceType, DefaultVolume, Volume
    <2>6. \A i \in 1..7 : ahead[i] = "end"
      BY <2>2 DEF ahead, Free
    <2>7. ~Comes("device") /\ ahead[1] = "end"
      BY <2>6 DEF Comes
    <2> QED BY <2>1, <2>3, <2>4, <2>5, <2>7 DEF TypeInv, TaskInv, ValueInv, FlagType, NothingEarly
  <1>4. CASE DetectBackend
    <2>1. PlanInv' /\ JobType' /\ QueueInv' /\ ahead' = ahead /\ \A step : Comes(step)' <=> Comes(step)
      BY <1>0, <1>4, SameTasks DEF DetectBackend, rest, bounds
    <2>2. PhaseInv'
      BY <1>0, <1>4, <2>1 DEF DetectBackend, rest, bounds, TaskInv, PhaseInv
    <2>3. ValueInv'
      BY <1>0, <1>4, <2>1 DEF DetectBackend, rest, bounds, ValueInv, ConfigType, ServiceType, HostType, FlagType,
                              NothingEarly
    <2> QED BY <2>1, <2>2, <2>3 DEF TypeInv, TaskInv
  <1>5. CASE DetectEqualizer
    <2> DEFINE asked == [NoJob EXCEPT !.kind = "start"]
    <2>1. asked \in AnyJob /\ asked.kind = "start"
      BY NoJobType DEF AnyJob, NoJob
    <2>2. job[Main] = NoJob /\ Main \in Task
      BY <1>0, <1>5, NoTaskIsNone DEF DetectEqualizer, TaskInv, PhaseInv, JobType
    <2>3. job' = [job EXCEPT ![Main] = asked] /\ queue' = Append(queue, Main)
      BY <1>5 DEF DetectEqualizer
    <2> HIDE DEF asked
    <2>4. /\ PlanInv' /\ JobType' /\ QueueInv' /\ ahead' = ahead
          /\ \A other \in Task : job'[other] = IF other = Main THEN asked ELSE job[other]
      BY <1>0, <1>5, <2>1, <2>2, <2>3, AskKeepsTasks DEF DetectEqualizer
    <2>5. \A step : Comes(step)' <=> Comes(step)
      BY <2>4 DEF Comes
    <2>6. ~Comes("apply")
      BY <1>0, <1>5 DEF DetectEqualizer, TaskInv, PhaseInv
    <2>7. PhaseInv'
      BY <1>0, <1>5, <2>1, <2>2, <2>4, <2>5, <2>6 DEF DetectEqualizer, PhaseInv
    <2>8. ValueInv'
      BY <1>0, <1>5, <2>4, <2>5 DEF DetectEqualizer, ValueInv, ConfigType, ServiceType, HostType, FlagType, NothingEarly
    <2> QED BY <2>4, <2>7, <2>8 DEF TypeInv, TaskInv
  <1>6. CASE Adopt
    BY <1>0, <1>6, AdoptStep DEF TypeInv
  <1>7. CASE CannotAdopt
    <2>1. PlanInv' /\ JobType' /\ QueueInv' /\ ahead' = ahead /\ \A step : Comes(step)' <=> Comes(step)
      BY <1>0, <1>7, SameTasks DEF CannotAdopt
    <2>2. PhaseInv'
      BY <1>0, <1>7, <2>1 DEF CannotAdopt, TaskInv, PhaseInv
    <2>3. ValueInv'
      BY <1>0, <1>7, <2>1 DEF CannotAdopt, ValueInv, ConfigType, ServiceType, HostType, FlagType, NothingEarly
    <2> QED BY <2>1, <2>2, <2>3 DEF TypeInv, TaskInv
  <1>8. CASE Check
    <2>2. CASE UNCHANGED <<job, queue>>
      <3>1. PlanInv' /\ JobType' /\ QueueInv' /\ ahead' = ahead /\ \A step : Comes(step)' <=> Comes(step)
        BY <1>0, <1>8, <2>2, SameTasks DEF Check
      <3>2. PhaseInv'
        BY <1>0, <1>8, <2>2, <3>1 DEF Check, TaskInv, PhaseInv
      <3>3. ValueInv'
        BY <1>0, <1>8, <3>1 DEF Check, ValueInv, ConfigType, ServiceType, HostType, FlagType, NothingEarly
      <3> QED BY <3>1, <3>2, <3>3 DEF TypeInv, TaskInv
    <2>3. CASE job' = [job EXCEPT ![Main] = [NoJob EXCEPT !.kind = "check"]] /\ queue' = Append(queue, Main)
      <3> DEFINE asked == [NoJob EXCEPT !.kind = "check"]
      <3>1. asked \in AnyJob /\ asked.kind = "check"
        BY NoJobType DEF AnyJob, NoJob
      <3>2. job[Main] = NoJob /\ Main \in Task /\ phase = "ready" /\ phase' = phase
        BY <1>8, NoTaskIsNone DEF Check
      <3>3. job' = [job EXCEPT ![Main] = asked]
        BY <2>3
      <3> HIDE DEF asked
      <3>4. /\ PlanInv' /\ JobType' /\ QueueInv' /\ ahead' = ahead
            /\ \A other \in Task : job'[other] = IF other = Main THEN asked ELSE job[other]
        <4>1. /\ queue' = Append(queue, Main) /\ UNCHANGED lock /\ asked.kind # "none" /\ asked.kind # "curve"
              /\ (asked.kind = "audio" => asked.volume \in Volume)
              /\ (Main # Main => asked.kind \in {"audio", "curve"})
          BY <1>8, <2>3, <3>1 DEF Check
        <4> QED BY <1>0, <3>1, <3>2, <3>3, <4>1, AskKeepsTasks
      <3>5. \A step : Comes(step)' <=> Comes(step)
        BY <3>4 DEF Comes
      <3>6. ~Comes("apply")
        BY <1>0, <3>2 DEF TaskInv, PhaseInv
      <3>7. PhaseInv'
        BY <1>0, <3>1, <3>2, <3>4, <3>5, <3>6 DEF PhaseInv
      <3>8. ValueInv'
        BY <1>0, <1>8, <3>2, <3>4, <3>5 DEF Check, ValueInv, ConfigType, ServiceType, HostType, FlagType, NothingEarly
      <3> QED BY <3>4, <3>7, <3>8 DEF TypeInv, TaskInv
    <2> QED BY <1>8, <2>2, <2>3 DEF Check
  <1>9. CASE ChainLost
    <2>1. PlanInv' /\ JobType' /\ QueueInv' /\ ahead' = ahead /\ \A step : Comes(step)' <=> Comes(step)
      BY <1>0, <1>9, SameTasks DEF ChainLost
    <2>2. PhaseInv'
      BY <1>0, <1>9, <2>1 DEF ChainLost, TaskInv, PhaseInv
    <2>3. HostType' /\ FlagType' /\ ConfigType'
      BY <1>0, <1>9 DEF ChainLost, ConfigType, HostType, FlagType
    <2>4. ServiceType' /\ service'.state = service.state /\ service'.output = service.output
          /\ (service.chain = "none" => service'.chain = "none")
      BY <1>0, <1>9 DEF ChainLost, ServiceType
    <2>5. ValueInv'
      BY <1>0, <1>9, <2>1, <2>3, <2>4 DEF ChainLost, ValueInv, NothingEarly
    <2> QED BY <2>1, <2>2, <2>5 DEF TypeInv, TaskInv
  <1>10. CASE Crash
    <2>1. lock' = Free /\ queue' = <<>> /\ job' = [t \in Task |-> NoJob] /\ phase' = "down"
      BY <1>10 DEF Crash
    <2>2. PlanInv' /\ ahead'[1] = "end" /\ \A step : step # "end" => ~Comes(step)'
      BY <2>1, FreeTasks
    <2>3. JobType'
      BY <2>1, NoJobType, NoTaskIsNone DEF JobType
    <2>4. QueueInv'
      BY <2>1, NoTaskIsNone DEF QueueInv, Free
    <2>5. PhaseInv'
      BY <2>1, <2>2, NoJobType, NoTaskIsNone DEF PhaseInv
    <2>6. ConfigType' /\ HostType' /\ FlagType'
      BY <1>0, <1>10 DEF Crash, ConfigType, HostType, FlagType
    <2>7. ServiceType' /\ service'.state = "detecting" /\ service'.chain = "none"
      BY <1>0, <1>10 DEF Crash, ServiceType
    <2> QED BY <2>2, <2>3, <2>4, <2>5, <2>6, <2>7 DEF TypeInv, TaskInv, ValueInv, NothingEarly
  <1>11. ASSUME NEW t \in Request, Write(t) PROVE TypeInv'
    BY <1>11, WriteStep
  <1>12. ASSUME NEW t \in Request, Cut(t) PROVE TypeInv'
    <2>1. TaskInv'
      BY <1>0, <1>12, CutKeepsTasks
    <2>2. phase' = phase /\ service' = service /\ (lock' = Free \/ lock' = lock)
      BY <1>12 DEF Cut
    <2>3. (Comes("device")' => Comes("device")) /\ (ahead'[1] = "end" \/ ahead'[1] = ahead[1])
      <3>1. CASE lock' = Free
        BY <3>1, FreeTasks
      <3>2. CASE lock' = lock
        <4>1. ahead' = ahead
          BY <3>2 DEF ahead
        <4> QED BY <4>1 DEF Comes
      <3> QED BY <2>2, <3>1, <3>2
    <2>4. ConfigType' /\ ServiceType' /\ HostType' /\ FlagType'
      BY <1>0, <1>12 DEF Cut, ConfigType, ServiceType, HostType, FlagType
    <2> QED BY <1>0, <2>1, <2>2, <2>3, <2>4 DEF TypeInv, ValueInv, NothingEarly
  <1> QED BY <1>1, <1>2, <1>3, <1>4, <1>5, <1>6, <1>7, <1>8, <1>9, <1>10, <1>11, <1>12 DEF Next

LEMMA TypeInvHolds == Spec => []TypeInv
  <1>1. Init => TypeInv
    <2> SUFFICES ASSUME Init PROVE TypeInv
      OBVIOUS
    <2>1. lock = Free /\ queue = <<>> /\ job = [t \in Task |-> NoJob] /\ phase = "down"
      BY DEF Init
    <2>2. \A i \in 1..7 : ahead[i] = "end"
      BY <2>1 DEF ahead, Free
    <2>3. PlanInv /\ ~Comes("device") /\ ~Comes("apply")
      BY <2>1, <2>2 DEF PlanInv, LockType, Shape, Follow, Comes, Free
    <2>4. JobType /\ QueueInv
      BY <2>1, NoJobType, NoTaskIsNone DEF JobType, QueueInv, Free
    <2>5. PhaseInv
      BY <2>1, <2>3, NoJobType, NoTaskIsNone DEF PhaseInv
    <2>6. ConfigType
      BY DEF Init, ConfigType, Volume
    <2>7. ServiceType
      BY DEF Init, ServiceType, Volume, DefaultVolume
    <2>8. HostType
      BY DEF Init, HostType
    <2>9. FlagType
      BY DEF Init, FlagType
    <2>10. NothingEarly
      BY <2>2, <2>3 DEF Init, NothingEarly
    <2> QED BY <2>3, <2>4, <2>5, <2>6, <2>7, <2>8, <2>9, <2>10 DEF TypeInv, TaskInv, ValueInv
  <1>2. TypeInv /\ [Next]_vars => TypeInv'
    <2> SUFFICES ASSUME TypeInv, [Next]_vars PROVE TypeInv'
      OBVIOUS
    <2>1. CASE Next
      BY <2>1, NextKeepsTypes
    <2>2. CASE UNCHANGED vars
      <3>1. PlanInv' /\ JobType' /\ QueueInv' /\ ahead' = ahead /\ \A step : Comes(step)' <=> Comes(step)
        BY <2>2, SameTasks DEF vars, TypeInv
      <3>2. PhaseInv'
        BY <2>2, <3>1 DEF vars, TypeInv, TaskInv, PhaseInv
      <3> QED BY <2>2, <3>1, <3>2
          DEF vars, TypeInv, TaskInv, ValueInv, ConfigType, ServiceType, HostType, FlagType, NothingEarly
    <2> QED BY <2>1, <2>2
  <1> QED BY <1>1, <1>2, PTL DEF Spec

(***************************************************************************)
(* The chain is opened for a curve                                         *)
(***************************************************************************)

\* The holder is about to start the chain, or to bring it in.
Opening == ahead[1] \in {"remember", "start", "takeover", "on"} \/ ahead[2] = "takeover"

CurveInv ==
    /\ Opening => service.curve
    /\ service.state = "on" /\ ~service.curve => cut \/ Comes("sync") \/ Comes("off")

\* Nothing is ahead of a lock that is free.
LEMMA FreeEnds ==
    ASSUME lock = Free
    PROVE  (\A i \in 1..7 : ahead[i] = "end") /\ \A step : step # "end" => ~Comes(step)
  <1>1. \A i \in 1..7 : ahead[i] = "end"
    BY DEF ahead, Free
  <1> QED BY <1>1 DEF Comes

\* What the lock's next holder has ahead of it opens nothing yet.
LEMMA BeginOpensNothing ==
    ASSUME TypeInv, Begin
    PROVE  /\ TypeInv' /\ ~Opening' /\ lock = Free /\ UNCHANGED <<config, kept, host, cut, lost, gone, failed>>
           /\ service'.chain = service.chain /\ service'.volume = service.volume
           /\ \/ service'.state = "off"
              \/ service'.state = service.state /\ service'.curve = service.curve
              \/ service.state = "detecting" /\ service'.state = service.state
              \/ Comes("sync")'
           /\ ahead'[1] \in {"end", "handback", "sync", "target", "device", "volume", "stop"}
           /\ ahead'[1] = "stop" => ahead'[2] = "sync"
  <1>0. ServiceType /\ TaskInv /\ NothingEarly
    BY DEF TypeInv, ValueInv
  <1>1. ASSUME NEW t, NEW plan, Take(t, plan)
        PROVE  lock = Free /\ UNCHANGED <<config, kept, host, cut, lost, gone, failed>>
    BY <1>1 DEF Take
  <1>2. TypeInv'
    BY BeginKeepsTypes
  <1>3. CASE BeginStart
    <2>1. ahead'[1] \in {"handback", "sync"} /\ ahead'[2] \in {"forget", "apply"}
      BY <1>3, StartBegins
    <2>2. lock = Free /\ UNCHANGED <<config, kept, host, cut, lost, gone, failed>>
      BY <1>1, <1>3 DEF BeginStart
    <2>3. service'.state = "off" /\ service'.chain = service.chain /\ service'.volume = service.volume
      BY <1>0, <1>3 DEF BeginStart, ServiceType
    <2> QED BY <1>2, <2>1, <2>2, <2>3 DEF Opening
  <1>4. CASE BeginCheck
    <2>1. service' = service /\ (ahead'[1] = "end" \/ (ahead'[1] = "stop" /\ ahead'[2] = "sync"))
          /\ ahead'[2] \in Follow(ahead'[1])
      BY <1>2, <1>4, CheckTakes DEF TypeInv, TaskInv, PlanInv, Shape
    <2>2. lock = Free /\ UNCHANGED <<config, kept, host, cut, lost, gone, failed>>
      BY <1>1, <1>4 DEF BeginCheck
    <2> QED BY <1>2, <2>1, <2>2 DEF Opening, Follow
  <1>5. ASSUME NEW t \in Task, BeginAudio(t)
        PROVE  /\ ~Opening' /\ lock = Free /\ UNCHANGED <<config, kept, host, cut, lost, gone, failed>>
               /\ service'.chain = service.chain /\ service'.volume = service.volume
               /\ service'.state = service.state /\ service'.curve = service.curve
               /\ ahead'[1] \in {"target", "device", "volume", "end"}
    <2>1. Applies(job[t].output, job[t].output # service.output, TRUE)
      BY <1>5, AudioTakes
    <2>2. ahead'[1] \in {"target", "device", "volume", "end"} /\ ahead'[2] \in {"volume", "end"}
      BY <2>1, Zenon DEF Applies
    <2>3. lock = Free /\ UNCHANGED <<config, kept, host, cut, lost, gone, failed>>
      BY <1>1, <1>5 DEF BeginAudio
    <2>4. /\ service'.chain = service.chain /\ service'.volume = service.volume
          /\ service'.state = service.state /\ service'.curve = service.curve
      BY <1>0, <1>5 DEF BeginAudio, ServiceType
    <2> QED BY <2>2, <2>3, <2>4 DEF Opening
  <1>6. ASSUME NEW t \in Task, BeginCurve(t)
        PROVE  /\ ~Opening' /\ lock = Free /\ UNCHANGED <<config, kept, host, cut, lost, gone, failed>>
               /\ service'.chain = service.chain /\ service'.volume = service.volume
               /\ service'.state = service.state
               /\ (ahead'[1] = "end" /\ phase \in {"detecting", "probing"}) \/ ahead'[1] = "sync"
    <2>1. /\ (ahead'[1] = "end" /\ phase \in {"detecting", "probing"}) \/ (ahead'[1] = "sync" /\ ahead'[2] = "end")
          /\ ahead'[2] \in Follow(ahead'[1])
      BY <1>2, <1>6, CurveTakes DEF TypeInv, TaskInv, PlanInv, Shape
    <2>2. lock = Free /\ UNCHANGED <<config, kept, host, cut, lost, gone, failed>>
      BY <1>1, <1>6 DEF BeginCurve
    <2>3. /\ service'.chain = service.chain /\ service'.volume = service.volume
          /\ service'.state = service.state
      BY <1>0, <1>6 DEF BeginCurve, ServiceType
    <2> QED BY <2>1, <2>2, <2>3 DEF Opening, Follow
  <1>7. ASSUME NEW t \in Task, BeginCurve(t)
        PROVE  (service.state = "detecting" /\ service'.state = service.state) \/ Comes("sync")'
    BY <1>0, <1>2, <1>6, <1>7, ComesNext DEF TypeInv, TaskInv, NothingEarly
  <1> QED BY <1>2, <1>3, <1>4, <1>5, <1>6, <1>7 DEF Begin

LEMMA CurveKept ==
    ASSUME TypeInv, CurveInv, Next PROVE CurveInv'
  <1>0. ServiceType /\ TaskInv /\ PlanInv /\ NothingEarly /\ TypeInv'
    BY NextKeepsTypes DEF TypeInv, ValueInv, TaskInv
  <1>00. PlanInv'
    BY <1>0 DEF TypeInv, TaskInv
  <1>1. CASE Begin
    <2>1. lock = Free => ~Comes("sync") /\ ~Comes("off")
      BY FreeEnds
    <2> QED BY <1>1, <2>1, BeginOpensNothing DEF CurveInv
  <1>2. ASSUME NEW step, At(step), Go(Rest), UNCHANGED <<queue, cut, service.curve>>,
               \/ service'.state \in {"off", "failed"}
               \/ service'.state = service.state /\ step \notin {"off", "sync"}
               \/ service'.state = "on" /\ step = "on"
        PROVE  CurveInv'
    <2>1. ahead[1] = step /\ ahead'[1] = ahead[2] /\ ahead'[2] = ahead[3] /\ ahead'[3] = ahead[4] /\ ahead'[4] = ahead[5]
          /\ ahead[2] \in Follow(ahead[1]) /\ ahead[3] \in Follow(ahead[2]) /\ ahead[5] \in Follow(ahead[4])
          /\ ahead[4] \in Follow(ahead[3])
      BY <1>0, <1>2, RestStep DEF PlanInv, Shape
    <2>2. Opening' => Opening
      BY <2>1 DEF Opening, Follow
    <2>3. step \notin {"off", "sync"} => (Comes("off") => Comes("off")') /\ (Comes("sync") => Comes("sync")')
      BY <1>0, <1>00, <2>1, ComesNow, ComesNext
    <2>4. step = "on" => service.curve
      BY <2>1 DEF CurveInv, Opening
    <2> QED BY <1>2, <2>2, <2>3, <2>4 DEF CurveInv
  <1>3. CASE Holder
    <2> USE DEF rest, bounds
    <2>1. CASE DoDevice \/ DoRemember \/ DoTarget \/ DoTakeover \/ DoHandback \/ DoForget
      BY <1>2, <2>1 DEF DoDevice, DoRemember, DoTarget, DoTakeover, DoHandback, DoForget
    <2>2. CASE DoVolume
      <3>1. service'.curve = service.curve /\ service'.state = service.state
        BY <1>0, <2>2 DEF DoVolume, ServiceType
      <3> QED BY <1>2, <2>2, <3>1 DEF DoVolume
    <2>3. CASE DoStart
      <3>1. service'.curve = service.curve /\ cut' = cut
        BY <1>0, <2>3 DEF DoStart, ServiceType
      <3>2. service.curve
        <4>1. ahead[1] = "start"
          BY <1>0, <2>3, AtIs DEF DoStart
        <4> QED BY <4>1 DEF CurveInv, Opening
      <3> QED BY <3>1, <3>2 DEF CurveInv
    <2>4. CASE DoOn
      <3>1. service'.curve = service.curve /\ service'.state = "on"
        BY <1>0, <2>4 DEF DoOn, ServiceType
      <3> QED BY <1>2, <2>4, <3>1 DEF DoOn
    <2>5. CASE DoFailed
      <3>1. service'.curve = service.curve /\ service'.state = "failed"
        BY <1>0, <2>5 DEF DoFailed, ServiceType
      <3> QED BY <1>2, <2>5, <3>1 DEF DoFailed
    <2>6. CASE DoStop
      <3>1. service'.curve = service.curve /\ service'.state = service.state
        BY <1>0, <2>6 DEF DoStop, ServiceType
      <3> QED BY <1>2, <2>6, <3>1 DEF DoStop
    <2>7. CASE DoOff
      <3>1. service'.curve = service.curve /\ service'.state = "off"
        BY <1>0, <2>7 DEF DoOff, ServiceType
      <3> QED BY <1>2, <2>7, <3>1 DEF DoOff
    <2>8. CASE DoSync
      <3>1. /\ \/ service.curve /\ ahead'[1] = "remember"
               \/ ~service.curve /\ Running /\ ahead'[1] = "handback" /\ ahead'[2] = "forget" /\ ahead'[4] = "off"
               \/ (service.curve <=> Running) /\ ahead'[1] \in {"apply", "end"} /\ ahead'[2] = "end"
        BY <1>0, <2>8, SyncStep DEF DoSync
      <3>2. service'.curve = service.curve /\ (~service.curve /\ ~Running => service'.state = "off")
        BY <1>0, <2>8 DEF DoSync, ServiceType
      <3>3. ahead'[4] = "off" => Comes("off")'
        BY DEF Comes
      <3> QED BY <3>1, <3>2, <3>3 DEF CurveInv, Opening
    <2>9. CASE DoApply
      <3>1. PICK hasVolume \in BOOLEAN : hasVolume = (config.volume # None)
        OBVIOUS
      <3>2. At("apply") /\ Go(ApplyPlan(service.output, TRUE, hasVolume) \o Rest) /\ UNCHANGED <<queue, cut, service>>
        BY <2>9, <3>1, Zenon DEF DoApply
      <3>3. ahead[1] = "apply" /\ Applies(service.output, TRUE, hasVolume)
        BY <1>0, <3>2, ApplyStep, Zenon
      <3>4. ahead'[1] \in {"target", "device", "volume", "end"} /\ ahead'[2] \in {"volume", "end"}
        BY <3>3, Zenon DEF Applies
      <3>5. ~Comes("sync") /\ ~Comes("off")
        BY <1>0, <3>3, ComesNow DEF PlanInv, Shape, Follow
      <3> QED BY <3>2, <3>4, <3>5 DEF CurveInv, Opening
    <2> QED BY <1>3, <2>1, <2>2, <2>3, <2>4, <2>5, <2>6, <2>7, <2>8, <2>9 DEF Holder
  <1>4. ASSUME UNCHANGED <<lock, cut>>, service'.curve = service.curve, service'.state = service.state
        PROVE  CurveInv'
    <2>1. ahead' = ahead
      BY <1>4 DEF ahead
    <2> QED BY <1>4, <2>1 DEF CurveInv, Opening, Comes
  <1>5. CASE Start
    <2>1. lock' = Free /\ service'.state = "detecting"
      BY <1>0, <1>5 DEF Start, TaskInv, PhaseInv
    <2>2. ahead'[1] = "end" /\ ahead'[2] = "end"
      BY <2>1, FreeTasks
    <2> QED BY <2>1, <2>2 DEF CurveInv, Opening
  <1>6. CASE DetectBackend \/ DetectEqualizer \/ CannotAdopt \/ Check \/ \E t \in Request : Write(t)
    BY <1>4, <1>6 DEF DetectBackend, DetectEqualizer, CannotAdopt, Check, Write, rest, bounds
  <1>7. CASE Adopt
    BY <1>0, <1>4, <1>7 DEF Adopt, ServiceType
  <1>8. CASE ChainLost
    BY <1>0, <1>4, <1>8 DEF ChainLost, ServiceType
  <1>9. CASE Crash
    <2>1. lock' = Free /\ service'.state = "detecting"
      BY <1>0, <1>9 DEF Crash, ServiceType
    <2>2. ahead'[1] = "end" /\ ahead'[2] = "end"
      BY <2>1, FreeTasks
    <2> QED BY <2>1, <2>2 DEF CurveInv, Opening
  <1>10. ASSUME NEW t \in Request, Cut(t) PROVE CurveInv'
    <2>1. cut' /\ service' = service /\ (lock' = Free \/ lock' = lock)
      BY <1>10 DEF Cut
    <2>2. Opening' => Opening
      <3>1. CASE lock' = Free
        <4>1. ahead'[1] = "end" /\ ahead'[2] = "end"
          BY <3>1, FreeTasks
        <4> QED BY <4>1 DEF Opening
      <3>2. CASE lock' = lock
        BY <3>2 DEF Opening, ahead
      <3> QED BY <2>1, <3>1, <3>2
    <2> QED BY <2>1, <2>2 DEF CurveInv
  <1> QED BY <1>1, <1>3, <1>5, <1>6, <1>7, <1>8, <1>9, <1>10 DEF Next

\* Values keep their types, whatever the commands, crashes and cut writes; a
\* task waits for the lock once or holds it; and a chain that is on when the
\* lock is free is there for a curve (__sync_equalizer).
THEOREM TypeCorrect == Spec => []TypeOK
  <1>1. Init => CurveInv
    <2> SUFFICES ASSUME Init PROVE CurveInv
      OBVIOUS
    <2>1. ahead[1] = "end" /\ ahead[2] = "end" /\ service.state = "detecting"
      BY FreeEnds DEF Init
    <2> QED BY <2>1 DEF CurveInv, Opening
  <1>2. TypeInv /\ CurveInv /\ [Next]_vars => CurveInv'
    <2> SUFFICES ASSUME TypeInv, CurveInv, [Next]_vars PROVE CurveInv'
      OBVIOUS
    <2>1. CASE Next
      BY <2>1, CurveKept
    <2>2. CASE UNCHANGED vars
      <3>1. ahead' = ahead
        BY <2>2 DEF ahead, vars
      <3> QED BY <2>2, <3>1 DEF CurveInv, Opening, Comes, vars
    <2> QED BY <2>1, <2>2
  <1>3. TypeInv /\ CurveInv => TypeOK
    <2> SUFFICES ASSUME TypeInv, CurveInv PROVE TypeOK
      OBVIOUS
    <2>1. phase \in {"down", "detecting", "probing", "starting", "adopting", "ready"}
      BY DEF TypeInv, TaskInv, PhaseInv
    <2>2. \A i \in DOMAIN lock.plan : lock.plan[i] \in Step
      BY DEF TypeInv, TaskInv, PlanInv, LockType
    <2>3. (lock.owner = None) = (lock.plan = <<>>)
      BY DEF TypeInv, TaskInv, PlanInv, LockType
    <2>4. \A t \in Task : (job[t] # NoJob) = (lock.owner = t \/ \E i \in DOMAIN queue : queue[i] = t)
      BY DEF TypeInv, TaskInv, QueueInv
    <2>5. \A i \in DOMAIN queue :
              queue[i] # lock.owner /\ \A j \in DOMAIN queue : queue[i] = queue[j] => i = j
      BY DEF TypeInv, TaskInv, QueueInv
    <2>6. (service.state = "on" /\ lock = Free /\ ~cut) => service.curve
      BY FreeEnds DEF CurveInv
    <2>7. ConfigType /\ ServiceType /\ HostType /\ FlagType
      BY DEF TypeInv, ValueInv
    <2> QED BY <2>1, <2>2, <2>3, <2>4, <2>5, <2>6, <2>7 DEF TypeOK, ConfigType, ServiceType, HostType, FlagType
  <1> QED BY <1>1, <1>2, <1>3, TypeInvHolds, PTL DEF Spec

(***************************************************************************)
(* The host's choice                                                       *)
(***************************************************************************)

\* Unless it could not be kept: the default the chain replaced is remembered,
\* on disk as in memory, from before the chain takes over until a real output
\* is the default again.
Choice ==
    /\ kept = config.hostDefault
    /\ host.default = Chain => config.hostDefault # None
    /\ Opening /\ ahead[1] # "remember" => config.hostDefault # None
    /\ ahead[1] = "forget" => host.default # Chain

LEMMA ChoiceKept ==
    ASSUME TypeInv, lost \/ Choice, Next PROVE lost' \/ Choice'
  <1>0. /\ ConfigType /\ ServiceType /\ HostType /\ FlagType /\ TaskInv /\ PlanInv /\ NothingEarly
        /\ Heard \in Device /\ Target \in Device \cup {None} /\ None \notin Device /\ Chain \notin Device \cup {None}
    BY OutputsAreDevices, ConstantsAssumption DEF TypeInv, ValueInv, TaskInv, Chain
  <1>1. CASE Begin
    <2>1. /\ ~Opening' /\ UNCHANGED <<config, kept, host, lost>> /\ ahead'[1] # "forget"
      BY <1>1, BeginOpensNothing
    <2> QED BY <2>1 DEF Choice
  <1>2. ASSUME NEW step, At(step), Go(Rest), UNCHANGED queue
        PROVE  /\ ahead[1] = step /\ (Opening' => Opening) /\ (Opening' => ahead'[1] # "remember")
               /\ ahead'[1] = "forget" => step = "handback"
    <2>1. ahead[1] = step /\ ahead'[1] = ahead[2] /\ ahead'[2] = ahead[3]
          /\ ahead[2] \in Follow(ahead[1]) /\ ahead[3] \in Follow(ahead[2])
      BY <1>0, <1>2, RestStep DEF PlanInv, Shape
    <2> QED BY <2>1 DEF Opening, Follow
  <1>3. ASSUME NEW step, At(step), Go(Rest), step \notin {"handback", "remember"}, UNCHANGED <<queue, config, kept>>,
               lost => lost', lost' \/ host'.default = host.default \/ host'.default \in Device
                                    \/ (step = "takeover" /\ host'.default = Chain)
        PROVE  lost' \/ Choice'
    <2>1. /\ ahead[1] = step /\ (Opening' => Opening) /\ (Opening' => ahead'[1] # "remember") /\ ahead'[1] # "forget"
      BY <1>2, <1>3
    <2>2. step = "takeover" => Opening
      BY <2>1 DEF Opening
    <2> QED BY <1>0, <1>3, <2>1, <2>2 DEF Choice
  <1>4. CASE Holder
    <2> USE DEF rest, bounds
    <2>1. CASE DoDevice
      <3>1. service.output \in Device
        <4>1. Comes("device")
          BY <1>0, <2>1, AtIs DEF DoDevice, Comes
        <4> QED BY <1>0, <4>1 DEF NothingEarly, ServiceType
      <3>2. lost' \/ host'.default = service.output
        BY <1>0, <2>1, <3>1, DefaultIsSet DEF DoDevice
      <3>3. lost => lost'
        BY <1>0, <2>1, <3>1, DefaultIsSet DEF DoDevice
      <3>4. At("device") /\ Go(Rest) /\ UNCHANGED <<queue, config, kept>>
        BY <2>1 DEF DoDevice
      <3> QED BY <1>3, <3>1, <3>2, <3>3, <3>4
    <2>2. CASE DoVolume
      <3>1. host'.default = host.default
        BY <1>0, <2>2 DEF DoVolume, SetVolume, Command, HostType
      <3> QED BY <1>3, <2>2, <3>1 DEF DoVolume
    <2>3. CASE DoRemember
      <3>1. ahead[1] = "remember" /\ (Opening' => Opening) /\ ahead'[1] # "forget" /\ UNCHANGED host
        BY <1>2, <2>3 DEF DoRemember
      <3>2. CASE config.hostDefault # None /\ UNCHANGED <<config, kept, lost>>
        BY <3>1, <3>2 DEF Choice
      <3>3. CASE config.hostDefault = None /\ Keep(Heard)
        <4>1. config'.hostDefault = Heard /\ (lost => lost') /\ (lost' \/ (kept = config.hostDefault => kept' = Heard))
          BY <1>0, <3>3, ValueIsKept DEF ConfigType
        <4> QED BY <1>0, <3>1, <4>1 DEF Choice
      <3>4. CASE lost'
        BY <3>4
      <3> QED BY <2>3, <3>2, <3>3, <3>4 DEF DoRemember
    <2>4. CASE DoStart
      <3>1. UNCHANGED <<config, kept, lost, queue>> /\ host'.default = host.default
        BY <1>0, <2>4 DEF DoStart, HostType
      <3>2. ahead[1] = "start" /\ Opening /\ ahead[1] # "remember"
        BY <1>0, <2>4, AtIs DEF DoStart, Opening
      <3>3. ahead'[1] # "forget"
        <4>1. CASE UNCHANGED <<lock, job, phase>>
          BY <3>2, <4>1 DEF ahead
        <4>2. CASE Go(<<"target", "takeover", "on">> \o Rest)
          BY <1>0, <2>4, <4>2, StartStep DEF DoStart
        <4>3. CASE Go(<<"handback", "forget", "failed">> \o Rest)
          BY <1>0, <2>4, <4>3, StartStep DEF DoStart
        <4> QED BY <2>4, <4>1, <4>2, <4>3, Zenon DEF DoStart
      <3> QED BY <3>1, <3>2, <3>3 DEF Choice
    <2>5. CASE DoTarget
      <3>1. host'.default = host.default
        BY <1>0, <2>5 DEF DoTarget, Command, HostType
      <3> QED BY <1>3, <2>5, <3>1 DEF DoTarget
    <2>6. CASE DoTakeover
      <3>1. (lost => lost') /\ (lost' \/ host'.default \in {Chain, host.default})
        BY <1>0, <2>6, DefaultIsSet DEF DoTakeover
      <3> QED BY <1>3, <2>6, <3>1 DEF DoTakeover
    <2>7. CASE DoOn
      <3>1. host'.default = host.default
        BY <1>0, <2>7 DEF DoOn, SetVolume, Command, HostType
      <3> QED BY <1>3, <2>7, <3>1 DEF DoOn
    <2>8. CASE DoHandback
      <3>1. ahead[1] = "handback" /\ ~Opening'
        <4>1. ahead[1] = "handback" /\ (Opening' => Opening) /\ ahead[2] \in Follow(ahead[1])
          BY <1>0, <1>2, <2>8 DEF DoHandback, PlanInv, Shape
        <4> QED BY <4>1 DEF Opening, Follow
      <3>2. UNCHANGED <<config, kept>> /\ (lost => lost')
        BY <1>0, <2>8, DefaultIsSet DEF DoHandback
      <3>3. lost' \/ (Target # None /\ host'.default = Target) \/ (Target = None /\ host' = host)
        BY <1>0, <2>8, DefaultIsSet DEF DoHandback
      <3>4. Target = None => config.hostDefault = None
        BY DEF Target
      <3> QED BY <1>0, <3>1, <3>2, <3>3, <3>4 DEF Choice
    <2>9. CASE DoForget
      <3>1. ahead[1] = "forget" /\ (Opening' => Opening) /\ ahead'[1] # "forget" /\ UNCHANGED host
        BY <1>2, <2>9 DEF DoForget
      <3>2. ~Opening'
        <4>1. ahead[2] \in Follow(ahead[1])
          BY <1>0 DEF PlanInv, Shape
        <4> QED BY <3>1, <4>1 DEF Opening, Follow
      <3>3. config'.hostDefault = None /\ (lost => lost') /\ (lost' \/ (kept = config.hostDefault => kept' = None))
        BY <1>0, <2>9, ValueIsKept DEF DoForget, ConfigType
      <3> QED BY <3>1, <3>2, <3>3 DEF Choice
    <2>10. CASE DoFailed
      BY <1>3, <2>10 DEF DoFailed
    <2>11. CASE DoStop
      <3>1. host'.default = host.default
        BY <1>0, <2>11 DEF DoStop, HostType
      <3> QED BY <1>3, <2>11, <3>1 DEF DoStop
    <2>12. CASE DoOff
      <3>1. host'.default = host.default
        BY <1>0, <2>12 DEF DoOff, SetVolume, Command, HostType
      <3> QED BY <1>3, <2>12, <3>1 DEF DoOff
    <2>13. CASE DoSync
      <3>1. \/ ahead'[1] = "remember"
            \/ ahead'[1] = "handback" /\ ahead'[2] = "forget"
            \/ ahead'[1] \in {"apply", "end"} /\ ahead'[2] = "end"
        BY <1>0, <2>13, SyncStep DEF DoSync
      <3>2. UNCHANGED <<config, kept, host, lost>>
        BY <2>13 DEF DoSync
      <3> QED BY <3>1, <3>2 DEF Choice, Opening
    <2>14. CASE DoApply
      <3>1. PICK hasVolume \in BOOLEAN : hasVolume = (config.volume # None)
        OBVIOUS
      <3>2. At("apply") /\ Go(ApplyPlan(service.output, TRUE, hasVolume) \o Rest) /\ UNCHANGED <<queue, config, kept, host, lost>>
        BY <2>14, <3>1, Zenon DEF DoApply
      <3>3. Applies(service.output, TRUE, hasVolume)
        BY <1>0, <3>2, ApplyStep, Zenon
      <3>4. ahead'[1] \in {"target", "device", "volume", "end"} /\ ahead'[2] \in {"volume", "end"}
        BY <3>3, Zenon DEF Applies
      <3> QED BY <3>2, <3>4 DEF Choice, Opening
    <2> QED BY <1>4, <2>1, <2>2, <2>3, <2>4, <2>5, <2>6, <2>7, <2>8, <2>9, <2>10, <2>11, <2>12, <2>13, <2>14
        DEF Holder
  <1>5. ASSUME lock' = lock \/ lock' = Free, lost' = lost, host'.default = host.default,
               config'.hostDefault = config.hostDefault, kept' = kept \/ kept' = config.hostDefault
        PROVE  lost' \/ Choice'
    <2>1. CASE lock' = lock
      <3>1. ahead' = ahead
        BY <2>1 DEF ahead
      <3> QED BY <1>5, <3>1 DEF Choice, Opening
    <2>2. CASE lock' = Free
      <3>1. ahead'[1] = "end" /\ ahead'[2] = "end"
        BY <2>2, FreeTasks
      <3> QED BY <1>5, <3>1 DEF Choice, Opening
    <2> QED BY <1>5, <2>1, <2>2
  <1>6. CASE Start
    <2>1. config'.hostDefault = kept
      BY <1>0, <1>6 DEF Start, ConfigType
    <2>2. UNCHANGED <<kept, host, lock, lost>>
      BY <1>6 DEF Start
    <2>3. CASE lost
      BY <2>2, <2>3
    <2>4. CASE Choice
      BY <1>5, <2>1, <2>2, <2>4 DEF Choice
    <2> QED BY <2>3, <2>4
  <1>7. CASE DetectBackend \/ DetectEqualizer \/ CannotAdopt \/ Check \/ \E t \in Request : Cut(t)
    BY <1>5, <1>7 DEF DetectBackend, DetectEqualizer, CannotAdopt, Check, Cut, rest, bounds
  <1>8. CASE Adopt
    <2>1. UNCHANGED <<lock, host, lost>> /\ config'.hostDefault = config.hostDefault
          /\ (kept' = kept \/ kept' = config.hostDefault)
      BY <1>0, <1>8 DEF Adopt, ConfigType
    <2> QED BY <1>5, <2>1
  <1>9. CASE ChainLost
    <2>1. host'.default = host.default
      BY <1>0, <1>9 DEF ChainLost, HostType
    <2> QED BY <1>5, <1>9, <2>1 DEF ChainLost
  <1>10. CASE Crash
    <2>1. host'.default = host.default
      BY <1>0, <1>10 DEF Crash, HostType
    <2> QED BY <1>5, <1>10, <2>1 DEF Crash
  <1>11. ASSUME NEW t \in Request, Write(t) PROVE lost' \/ Choice'
    <2>1. config'.hostDefault = config.hostDefault /\ kept' = config.hostDefault
      BY <1>11, WriteStep
    <2>2. UNCHANGED <<lock, host, lost>>
      BY <1>11 DEF Write
    <2> QED BY <1>5, <2>1, <2>2
  <1> QED BY <1>1, <1>4, <1>6, <1>7, <1>8, <1>9, <1>10, <1>11 DEF Next

\* While the chain is the host's default output, the output to go back to is on
\* disk, whatever crash comes (__remember_host_default is saved before the
\* chain takes over, and forgotten only after a real output has taken it back).
THEOREM ChoiceStaysKept == Spec => []TheHostsChoiceIsKept
  <1>1. Init => lost \/ Choice
    <2> SUFFICES ASSUME Init PROVE Choice
      OBVIOUS
    <2>1. ahead[1] = "end" /\ ahead[2] = "end" /\ kept = None /\ config.hostDefault = None
      BY FreeEnds DEF Init
    <2>2. host.default # Chain
      BY ConstantsAssumption DEF Init
    <2> QED BY <2>1, <2>2 DEF Choice, Opening
  <1>2. TypeInv /\ (lost \/ Choice) /\ [Next]_vars => (lost \/ Choice)'
    <2> SUFFICES ASSUME TypeInv, lost \/ Choice, [Next]_vars PROVE lost' \/ Choice'
      OBVIOUS
    <2>1. CASE Next
      BY <2>1, ChoiceKept
    <2>2. CASE UNCHANGED vars
      <3>1. ahead' = ahead
        BY <2>2 DEF ahead, vars
      <3> QED BY <2>2, <3>1 DEF Choice, Opening, vars
    <2> QED BY <2>1, <2>2
  <1>3. (lost \/ Choice) => TheHostsChoiceIsKept
    BY DEF Choice, TheHostsChoiceIsKept
  <1> QED BY <1>1, <1>2, <1>3, TypeInvHolds, PTL DEF Spec

(***************************************************************************)
(* The chain, and the state that tells of it                               *)
(***************************************************************************)

\* A start that failed is undone, a service that starts hands back.
Undoing == (ahead[1] = "handback" /\ ahead[3] = "failed") \/ (ahead[1] = "forget" /\ ahead[2] = "failed")
Returning == (ahead[1] = "handback" /\ ahead[3] = "sync") \/ (ahead[1] = "forget" /\ ahead[2] = "sync")

\* The chain's sink is there while its process is; it is started where it does
\* not run, and is gone when the state says so.
ChainInv ==
    /\ host.chain => Running
    /\ ahead[1] \in {"remember", "start", "device"} => ~Running
    /\ ahead[1] \in {"off", "failed"} \/ Undoing => service.chain = "none"
    /\ Returning => ~service.curve /\ (ahead[3] = "apply" \/ ahead[4] = "apply")
    /\ ahead[2] = "stop" => ahead[3] = "off"
    /\ ahead[3] = "stop" => ahead[4] = "off"

\* The state is on while the chain is, until the loss of one is looked after.
StateInv ==
    /\ service.state = "on" => cut \/ gone \/ (Running /\ host.chain) \/ Comes("off")
    /\ ahead[1] = "stop" /\ ahead[2] = "sync" => cut \/ gone

LEMMA RestAhead ==
    ASSUME TypeInv, NEW step, At(step), Go(Rest), UNCHANGED queue
    PROVE  /\ ahead[1] = step /\ Continues /\ lock.owner \in Task
           /\ ahead'[1] = ahead[2] /\ ahead'[2] = ahead[3] /\ ahead'[3] = ahead[4] /\ ahead'[4] = ahead[5]
           /\ ahead[2] \in Follow(ahead[1]) /\ ahead[3] \in Follow(ahead[2])
           /\ ahead[4] \in Follow(ahead[3]) /\ ahead[5] \in Follow(ahead[4])
  BY RestStep DEF TypeInv, TaskInv, PlanInv, Shape

\* The steps that end no chain and start none.
LEMMA RestKeepsChain ==
    ASSUME TypeInv, ChainInv, NEW step, At(step), Go(Rest), UNCHANGED queue,
           service'.curve = service.curve,
           \/ step # "stop" /\ service'.chain = service.chain /\ host'.chain = host.chain
           \/ step = "stop" /\ service'.chain = "none" /\ ~host'.chain
    PROVE  ChainInv'
  <1>1. /\ ahead[1] = step
        /\ ahead'[1] = ahead[2] /\ ahead'[2] = ahead[3] /\ ahead'[3] = ahead[4] /\ ahead'[4] = ahead[5]
        /\ ahead[2] \in Follow(ahead[1]) /\ ahead[3] \in Follow(ahead[2])
        /\ ahead[4] \in Follow(ahead[3]) /\ ahead[5] \in Follow(ahead[4])
    BY RestAhead
  <1>2. host'.chain => Running'
    BY DEF ChainInv, Running
  <1>3. ahead'[1] \in {"remember", "start", "device"} => ~Running'
    BY <1>1 DEF ChainInv, Running, Follow
  <1>4. ahead'[1] \in {"off", "failed"} => service'.chain = "none"
    BY <1>1 DEF ChainInv, Undoing, Follow
  <1>5. Undoing' => service'.chain = "none"
    BY <1>1 DEF ChainInv, Undoing, Follow
  <1>6. Returning' => ~service'.curve /\ (ahead'[3] = "apply" \/ ahead'[4] = "apply")
    BY <1>1 DEF ChainInv, Returning, Follow
  <1>7. (ahead'[2] = "stop" => ahead'[3] = "off") /\ (ahead'[3] = "stop" => ahead'[4] = "off")
    BY <1>1 DEF ChainInv, Follow
  <1> QED BY <1>2, <1>3, <1>4, <1>5, <1>6, <1>7 DEF ChainInv

LEMMA ChainKept ==
    ASSUME TypeInv, ChainInv, Next PROVE ChainInv'
  <1>0. ServiceType /\ HostType /\ TaskInv /\ PlanInv /\ NothingEarly /\ TypeInv'
    BY NextKeepsTypes DEF TypeInv, ValueInv, TaskInv
  <1>1. ASSUME ahead'[2] # "stop", ahead'[3] # "stop", host'.chain => service'.chain = "running",
               ahead'[1] \in {"remember", "start", "device"} => service'.chain # "running",
               ahead'[1] \notin {"off", "failed"}, ~Undoing',
               Returning' => ~service'.curve /\ (ahead'[3] = "apply" \/ ahead'[4] = "apply")
        PROVE  ChainInv'
    BY <1>1 DEF ChainInv, Running
  <1>2. CASE Begin
    <2>1. /\ host'.chain = host.chain /\ service'.chain = service.chain /\ ~Opening'
          /\ ahead'[1] \in {"end", "handback", "sync", "target", "device", "volume", "stop"}
          /\ PlanInv'
      BY <1>0, <1>2, BeginOpensNothing DEF TypeInv, TaskInv
    <2>2. /\ ahead'[2] # "stop" /\ ahead'[3] # "stop" /\ ~Undoing'
          /\ Returning' => ~service'.curve /\ (ahead'[3] = "apply" \/ ahead'[4] = "apply")
          /\ (ahead'[1] = "device" => ~Running)
      <3>1. CASE BeginStart
        <4>1. /\ \/ /\ ~service.curve /\ ahead'[1] = "handback" /\ ahead'[2] = "forget"
                    /\ ahead'[3] = "sync" /\ ahead'[4] = "apply"
                 \/ ahead'[1] = "sync" /\ ahead'[2] = "apply" /\ ahead'[3] = "end"
          BY <3>1, StartBegins
        <4>2. service'.curve = service.curve
          BY <1>0, <3>1 DEF BeginStart, ServiceType
        <4> QED BY <4>1, <4>2 DEF Undoing, Returning
      <3>2. ASSUME ahead'[1] \in {"end", "sync", "target", "device", "volume", "stop"}, ahead'[1] = "stop" => ahead'[2] = "sync"
            PROVE  ahead'[2] # "stop" /\ ahead'[3] # "stop" /\ ~Undoing' /\ ~Returning'
        <4>1. ahead'[2] \in Follow(ahead'[1]) /\ ahead'[3] \in Follow(ahead'[2])
          BY <2>1 DEF PlanInv, Shape
        <4>2. ahead'[2] # "stop" /\ ahead'[3] # "stop"
          BY <2>1, <3>2, <4>1 DEF Follow
        <4> QED BY <3>2, <4>2 DEF Undoing, Returning
      <3>3. ASSUME BeginCheck PROVE ahead'[1] = "end" \/ (ahead'[1] = "stop" /\ ahead'[2] = "sync")
        BY <3>3, CheckTakes
      <3>4. ASSUME NEW t \in Task, BeginAudio(t)
            PROVE  ahead'[2] # "stop" /\ ahead'[3] # "stop" /\ ~Undoing' /\ ~Returning' /\ (ahead'[1] = "device" => ~Running)
        <4>1. Applies(job[t].output, job[t].output # service.output, TRUE)
          BY <3>4, AudioTakes
        <4>2. ahead'[1] \in {"target", "device", "volume", "end"} /\ (ahead'[1] = "device" => ~Running)
          BY <4>1, Zenon DEF Applies
        <4> QED BY <3>2, <4>2
      <3>5. ASSUME NEW t \in Task, BeginCurve(t) PROVE ahead'[1] \in {"end", "sync"}
        BY <3>5, CurveTakes
      <3>6. CASE BeginCheck \/ \E t \in Task : BeginCurve(t)
        <4>1. ahead'[1] \in {"end", "sync", "stop"} /\ (ahead'[1] = "stop" => ahead'[2] = "sync")
          BY <3>3, <3>5, <3>6
        <4> QED BY <3>2, <4>1
      <3> QED BY <1>2, <3>1, <3>4, <3>6 DEF Begin
    <2> QED BY <1>1, <2>1, <2>2 DEF ChainInv, Opening, Running
  <1>3. CASE Holder
    <2> USE DEF rest, bounds
    <2>1. CASE DoDevice \/ DoTarget \/ DoTakeover \/ DoHandback
      <3>1. host'.chain = host.chain
        BY <1>0, <2>1 DEF DoDevice, DoTarget, DoTakeover, DoHandback, MakeDefault, Command, HostType
      <3> QED BY <2>1, <3>1, RestKeepsChain DEF DoDevice, DoTarget, DoTakeover, DoHandback
    <2>2. CASE DoRemember \/ DoForget
      BY <2>2, RestKeepsChain DEF DoRemember, DoForget
    <2>3. CASE DoVolume \/ DoOn \/ DoFailed \/ DoOff
      <3>1. service'.curve = service.curve /\ service'.chain = service.chain
        BY <1>0, <2>3 DEF DoVolume, DoOn, DoFailed, DoOff, ServiceType
      <3>2. host'.chain = host.chain
        BY <1>0, <2>3 DEF DoVolume, DoOn, DoFailed, DoOff, SetVolume, Command, HostType
      <3> QED BY <2>3, <3>1, <3>2, RestKeepsChain DEF DoVolume, DoOn, DoFailed, DoOff
    <2>4. CASE DoStop
      <3>1. service'.curve = service.curve /\ service'.chain = "none" /\ ~host'.chain
        BY <1>0, <2>4 DEF DoStop, ServiceType, HostType
      <3> QED BY <2>4, <3>1, RestKeepsChain DEF DoStop
    <2>5. CASE DoStart
      <3>1. ahead[1] = "start" /\ service'.curve = service.curve /\ ahead[2] \in {"apply", "end"} /\ ahead[3] = "end"
        BY <1>0, <2>5, AtIs, NearTheEnd DEF DoStart, ServiceType
      <3>2. CASE service' = [service EXCEPT !.chain = "started"] /\ host' = [host EXCEPT !.chain = FALSE]
                 /\ UNCHANGED <<lock, job, phase>>
        <4>1. ahead' = ahead
          BY <3>2 DEF ahead
        <4>2. service'.chain = "started" /\ ~host'.chain
          BY <1>0, <3>2 DEF ServiceType, HostType
        <4> QED BY <1>1, <3>1, <4>1, <4>2 DEF Undoing, Returning
      <3>3. CASE service' = [service EXCEPT !.chain = "running"] /\ Go(<<"target", "takeover", "on">> \o Rest)
        <4>1. ahead'[1] = "target" /\ ahead'[2] = "takeover" /\ ahead'[3] = "on"
          BY <1>0, <2>5, <3>3, StartStep DEF DoStart
        <4>2. service'.chain = "running"
          BY <1>0, <3>3 DEF ServiceType
        <4> QED BY <1>1, <4>1, <4>2 DEF Undoing, Returning
      <3>4. CASE service.chain = "started" /\ service' = [service EXCEPT !.chain = "none"] /\ UNCHANGED host
                 /\ Go(<<"handback", "forget", "failed">> \o Rest)
        <4>1. ahead'[1] = "handback" /\ ahead'[2] = "forget" /\ ahead'[3] = "failed" /\ ahead'[4] = ahead[2]
          BY <1>0, <2>5, <3>4, StartStep DEF DoStart
        <4>2. service'.chain = "none" /\ ~host'.chain
          BY <1>0, <3>4 DEF ServiceType, ChainInv, Running
        <4> QED BY <4>1, <4>2 DEF ChainInv, Undoing, Returning, Running
      <3> QED BY <2>5, <3>2, <3>3, <3>4, Zenon DEF DoStart
    <2>6. CASE DoSync
      <3>1. /\ ahead[2] \in {"apply", "end"} /\ ahead[3] = "end"
            /\ \/ ~Running /\ ahead'[1] = "remember" /\ ahead'[2] = "start" /\ ahead'[3] = ahead[2]
               \/ ahead'[1] = "handback" /\ ahead'[2] = "forget" /\ ahead'[3] = "stop" /\ ahead'[4] = "off"
               \/ ahead'[1] = ahead[2] /\ ahead'[2] = "end"
            /\ ahead'[3] \in Follow(ahead'[2])
        BY <1>0, <2>6, SyncStep DEF DoSync, TypeInv, TaskInv, PlanInv, Shape
      <3>2. service'.chain = service.chain /\ host' = host
        BY <1>0, <2>6 DEF DoSync, ServiceType
      <3>3. CASE ahead'[1] = "remember"
        BY <3>1, <3>2, <3>3 DEF ChainInv, Undoing, Returning, Running
      <3>4. CASE ahead'[1] = "handback"
        BY <3>1, <3>2, <3>4 DEF ChainInv, Undoing, Returning, Running
      <3>5. CASE ahead'[1] = ahead[2] /\ ahead'[2] = "end"
        <4>1. ahead'[3] = "end"
          BY <3>1, <3>5 DEF Follow
        <4> QED BY <3>1, <3>2, <3>5, <4>1 DEF ChainInv, Undoing, Returning, Running
      <3> QED BY <3>1, <3>3, <3>4, <3>5
    <2>7. CASE DoApply
      <3>1. PICK hasVolume \in BOOLEAN : hasVolume = (config.volume # None)
        OBVIOUS
      <3>2. At("apply") /\ Go(ApplyPlan(service.output, TRUE, hasVolume) \o Rest) /\ UNCHANGED <<queue, service, host>>
        BY <2>7, <3>1, Zenon DEF DoApply
      <3>3. Applies(service.output, TRUE, hasVolume)
        BY <1>0, <3>2, ApplyStep, Zenon
      <3>4. ahead'[1] \in {"target", "device", "volume", "end"} /\ ahead'[2] \in {"volume", "end"} /\ ahead'[3] = "end"
            /\ (ahead'[1] = "device" => ~Running)
        BY <3>3, Zenon DEF Applies
      <3> QED BY <3>2, <3>4 DEF ChainInv, Undoing, Returning, Running
    <2> QED BY <1>3, <2>1, <2>2, <2>3, <2>4, <2>5, <2>6, <2>7 DEF Holder
  <1>4. ASSUME lock' = lock \/ lock' = Free, service'.curve = service.curve,
               \/ service'.chain = service.chain /\ host'.chain = host.chain
               \/ service'.chain \in {service.chain, "none"} /\ ~host'.chain
        PROVE  ChainInv'
    <2>1. CASE lock' = lock
      <3>1. ahead' = ahead
        BY <2>1 DEF ahead
      <3> QED BY <1>4, <3>1 DEF ChainInv, Undoing, Returning, Running
    <2>2. CASE lock' = Free
      <3>1. ahead'[1] = "end" /\ ahead'[2] = "end" /\ ahead'[3] = "end"
        BY <2>2, FreeTasks
      <3> QED BY <1>4, <3>1 DEF ChainInv, Undoing, Returning, Running
    <2> QED BY <1>4, <2>1, <2>2
  <1>5. CASE Start
    <2>1. lock' = Free /\ service'.chain = "none" /\ host' = host /\ service.chain = "none"
      BY <1>0, <1>5 DEF Start, TaskInv, PhaseInv, NothingEarly
    <2>2. ahead'[1] = "end" /\ ahead'[2] = "end" /\ ahead'[3] = "end"
      BY <2>1, FreeTasks
    <2>3. ~host.chain
      BY <2>1 DEF ChainInv, Running
    <2> QED BY <1>1, <2>1, <2>2, <2>3 DEF Undoing, Returning
  <1>6. CASE DetectBackend \/ DetectEqualizer \/ CannotAdopt \/ Check \/ \E t \in Request : Cut(t) \/ Write(t)
    BY <1>4, <1>6 DEF DetectBackend, DetectEqualizer, CannotAdopt, Check, Cut, Write, rest, bounds
  <1>7. CASE Adopt
    BY <1>0, <1>4, <1>7 DEF Adopt, ServiceType
  <1>8. CASE ChainLost
    <2>1. ~host'.chain /\ service'.chain \in {service.chain, "none"} /\ service'.curve = service.curve /\ lock' = lock
      BY <1>0, <1>8 DEF ChainLost, ServiceType, HostType
    <2> QED BY <1>4, <2>1
  <1>9. CASE Crash
    <2>1. ~host'.chain /\ service'.chain = "none" /\ service'.curve = service.curve /\ lock' = Free
      BY <1>0, <1>9 DEF Crash, ServiceType, HostType
    <2> QED BY <1>4, <2>1
  <1> QED BY <1>2, <1>3, <1>5, <1>6, <1>7, <1>8, <1>9 DEF Next

LEMMA StateKept ==
    ASSUME TypeInv, ChainInv, StateInv, Next PROVE StateInv'
  <1>0. ServiceType /\ HostType /\ FlagType /\ TaskInv /\ PlanInv /\ NothingEarly /\ TypeInv' /\ PlanInv'
    BY NextKeepsTypes DEF TypeInv, ValueInv, TaskInv
  <1>1. ASSUME NEW step, At(step), Go(Rest), UNCHANGED <<queue, cut, gone>>, step \notin {"off", "sync"},
               \/ service'.state \in {"off", "failed"}
               \/ service'.state = service.state /\ service'.chain = service.chain /\ host'.chain = host.chain
               \/ service'.state = service.state /\ step = "stop"
        PROVE  StateInv'
    <2>1. /\ ahead[1] = step /\ ahead'[1] = ahead[2] /\ ahead'[2] = ahead[3] /\ ahead'[3] = ahead[4] /\ ahead'[4] = ahead[5]
          /\ ahead[2] \in Follow(ahead[1])
      BY <1>1, RestAhead
    <2>2. Comes("off") => Comes("off")'
      BY <1>0, <1>1, <2>1, ComesNow, ComesNext
    <2>3. ~(ahead'[1] = "stop" /\ ahead'[2] = "sync")
      BY <2>1 DEF ChainInv
    <2>4. CASE step = "stop"
      <3>1. ahead[2] = "off" \/ ahead[2] = "sync"
        BY <2>1, <2>4 DEF Follow
      <3>2. ahead[2] = "off" => Comes("off")'
        BY <2>1 DEF Comes
      <3> QED BY <1>1, <2>1, <2>3, <2>4, <3>1, <3>2 DEF StateInv
    <2>5. CASE step # "stop"
      BY <1>1, <2>2, <2>3, <2>5 DEF StateInv, Running
    <2> QED BY <2>4, <2>5
  <1>2. CASE Begin
    <2>1. /\ lock = Free /\ UNCHANGED <<cut, gone, host>> /\ service'.chain = service.chain
      BY <1>2, BeginOpensNothing
    <2>2. ~Comes("off")
      BY <2>1, FreeEnds
    <2>3. CASE BeginStart
      <3>1. ahead'[1] \in {"handback", "sync"} /\ service'.state = "off"
        BY <1>0, <2>3, StartBegins DEF BeginStart, ServiceType
      <3> QED BY <3>1 DEF StateInv
    <2>4. CASE BeginCheck
      BY <2>1, <2>2, <2>4, CheckTakes DEF StateInv, Running
    <2>5. ASSUME NEW t \in Task, BeginAudio(t) PROVE StateInv'
      <3>1. Applies(job[t].output, job[t].output # service.output, TRUE)
        BY <2>5, AudioTakes
      <3>2. ahead'[1] \in {"target", "device", "volume", "end"}
        BY <3>1, Zenon DEF Applies
      <3>3. service'.state = service.state
        BY <1>0, <2>5 DEF BeginAudio, ServiceType
      <3> QED BY <2>1, <2>2, <3>2, <3>3 DEF StateInv, Running
    <2>6. ASSUME NEW t \in Task, BeginCurve(t) PROVE StateInv'
      <3>1. ahead'[1] \in {"sync", "end"}
        BY <2>6, CurveTakes
      <3>2. service'.state = service.state
        BY <1>0, <2>6 DEF BeginCurve, ServiceType
      <3> QED BY <2>1, <2>2, <3>1, <3>2 DEF StateInv, Running
    <2> QED BY <1>2, <2>3, <2>4, <2>5, <2>6 DEF Begin
  <1>3. CASE Holder
    <2> USE DEF rest, bounds
    <2>1. CASE DoDevice \/ DoTarget \/ DoTakeover \/ DoHandback
      <3>1. host'.chain = host.chain
        BY <1>0, <2>1 DEF DoDevice, DoTarget, DoTakeover, DoHandback, MakeDefault, Command, HostType
      <3> QED BY <1>1, <2>1, <3>1 DEF DoDevice, DoTarget, DoTakeover, DoHandback
    <2>2. CASE DoRemember \/ DoForget
      BY <1>1, <2>2 DEF DoRemember, DoForget
    <2>3. CASE DoVolume
      <3>1. service'.state = service.state /\ service'.chain = service.chain
        BY <1>0, <2>3 DEF DoVolume, ServiceType
      <3>2. host'.chain = host.chain
        BY <1>0, <2>3 DEF DoVolume, SetVolume, Command, HostType
      <3> QED BY <1>1, <2>3, <3>1, <3>2 DEF DoVolume
    <2>4. CASE DoFailed
      <3>1. service'.state = "failed"
        BY <1>0, <2>4 DEF DoFailed, ServiceType
      <3> QED BY <1>1, <2>4, <3>1 DEF DoFailed
    <2>5. CASE DoStop
      <3>1. service'.state = service.state
        BY <1>0, <2>5 DEF DoStop, ServiceType
      <3> QED BY <1>1, <2>5, <3>1 DEF DoStop
    <2>6. CASE DoOff
      <3>1. service'.state = "off" /\ ahead'[1] = ahead[2] /\ ahead[2] \in Follow("off")
        BY <1>0, <2>6, RestAhead DEF DoOff, ServiceType
      <3> QED BY <3>1 DEF StateInv, Follow
    <2>7. CASE DoOn
      <3>1. ahead'[1] = ahead[2] /\ ahead[2] \in Follow("on") /\ gone' = ~host.chain
        BY <1>0, <2>7, RestAhead DEF DoOn
      <3>2. host'.chain = host.chain /\ service'.chain = service.chain
        BY <1>0, <2>7 DEF DoOn, SetVolume, Command, HostType, ServiceType
      <3> QED BY <3>1, <3>2 DEF StateInv, Follow, ChainInv, Running
    <2>8. CASE DoStart
      <3>1. ahead[1] = "start" /\ ahead[2] \in {"apply", "end"} /\ ahead[3] = "end" /\ service'.state = service.state
            /\ UNCHANGED <<cut, gone>>
        BY <1>0, <2>8, AtIs, NearTheEnd DEF DoStart, ServiceType
      <3>2. ~Comes("off") /\ ~Running
        BY <1>0, <3>1, ComesNow DEF ChainInv, PlanInv, Shape, Follow
      <3>3. ahead'[1] \in {"start", "target", "handback"}
        <4>1. CASE UNCHANGED <<lock, job, phase>>
          BY <3>1, <4>1 DEF ahead
        <4>2. CASE Go(<<"target", "takeover", "on">> \o Rest)
          BY <1>0, <2>8, <4>2, StartStep DEF DoStart
        <4>3. CASE Go(<<"handback", "forget", "failed">> \o Rest)
          BY <1>0, <2>8, <4>3, StartStep DEF DoStart
        <4> QED BY <2>8, <4>1, <4>2, <4>3, Zenon DEF DoStart
      <3> QED BY <3>1, <3>2, <3>3 DEF StateInv
    <2>9. CASE DoSync
      <3>1. /\ ahead[1] = "sync" /\ ahead[2] \in {"apply", "end"} /\ ahead[3] = "end"
            /\ ahead'[1] \in {"remember", "handback", "apply", "end"}
        BY <1>0, <2>9, SyncStep DEF DoSync
      <3>2. ~Comes("off")
        BY <1>0, <3>1, ComesNow DEF PlanInv, Shape, Follow
      <3>3. UNCHANGED <<cut, gone, host>> /\ service'.chain = service.chain /\ service'.state \in {service.state, "off"}
        BY <1>0, <2>9 DEF DoSync, ServiceType
      <3> QED BY <3>1, <3>2, <3>3 DEF StateInv, Running
    <2>10. CASE DoApply
      <3>1. PICK hasVolume \in BOOLEAN : hasVolume = (config.volume # None)
        OBVIOUS
      <3>2. At("apply") /\ Go(ApplyPlan(service.output, TRUE, hasVolume) \o Rest)
            /\ UNCHANGED <<queue, service, host, cut, gone>>
        BY <2>10, <3>1, Zenon DEF DoApply
      <3>3. Applies(service.output, TRUE, hasVolume) /\ ahead[1] = "apply"
        BY <1>0, <3>2, ApplyStep, Zenon
      <3>4. ahead'[1] \in {"target", "device", "volume", "end"}
        BY <3>3, Zenon DEF Applies
      <3>5. ~Comes("off")
        BY <1>0, <3>3, ComesNow DEF PlanInv, Shape, Follow
      <3> QED BY <3>2, <3>4, <3>5 DEF StateInv, Running
    <2> QED BY <1>3, <2>1, <2>2, <2>3, <2>4, <2>5, <2>6, <2>7, <2>8, <2>9, <2>10 DEF Holder
  <1>4. ASSUME lock' = lock \/ (lock' = Free /\ cut'), service'.state = service.state,
               cut => cut', gone => gone',
               gone' \/ (service'.chain = service.chain /\ host'.chain = host.chain)
        PROVE  StateInv'
    <2>1. CASE lock' = lock
      <3>1. ahead' = ahead
        BY <2>1 DEF ahead
      <3> QED BY <1>4, <3>1 DEF StateInv, Running, Comes
    <2>2. CASE lock' = Free /\ cut'
      <3>1. ahead'[1] = "end"
        BY <2>2, FreeTasks
      <3> QED BY <2>2, <3>1 DEF StateInv
    <2> QED BY <1>4, <2>1, <2>2
  <1>5. CASE Start \/ Crash
    <2>1. lock' = Free /\ service'.state = "detecting"
      <3>1. CASE Start
        BY <1>0, <3>1 DEF Start, TaskInv, PhaseInv
      <3>2. CASE Crash
        BY <1>0, <3>2 DEF Crash, ServiceType
      <3> QED BY <1>5, <3>1, <3>2
    <2>2. ahead'[1] = "end"
      BY <2>1, FreeTasks
    <2> QED BY <2>1, <2>2 DEF StateInv
  <1>6. CASE DetectBackend \/ DetectEqualizer \/ CannotAdopt \/ Check \/ \E t \in Request : Cut(t) \/ Write(t)
    BY <1>4, <1>6 DEF DetectBackend, DetectEqualizer, CannotAdopt, Check, Cut, Write, rest, bounds
  <1>7. CASE Adopt
    BY <1>0, <1>4, <1>7 DEF Adopt, ServiceType
  <1>8. CASE ChainLost
    BY <1>0, <1>4, <1>8 DEF ChainLost, ServiceType
  <1> QED BY <1>2, <1>3, <1>5, <1>6, <1>7, <1>8 DEF Next

(***************************************************************************)
(* Where the chain plays, and where the sound goes without it              *)
(***************************************************************************)

\* Without the chain: the chosen output, or the host's own, is the default.
Placed == host.default # Chain /\ (service.output # None => host.default = service.output)

\* The chain is brought in with its target set, and goes when a real output has
\* taken the default back.
PlaceInv ==
    /\ ahead[1] = "forget" /\ ahead[2] \in {"stop", "failed"} => Placed
    /\ ahead[1] = "stop" /\ ahead[2] = "off" => Placed /\ config.hostDefault = None
    /\ ahead[1] \in {"off", "failed"} => Placed /\ config.hostDefault = None
    /\ ahead[1] \in {"takeover", "on"} /\ host.chain /\ "target" \notin failed => host.target = Target
    /\ ahead[1] = "on" /\ host.chain => host.default = Chain

LEMMA PlaceKept ==
    ASSUME TypeInv, ChainInv, lost \/ (Choice /\ PlaceInv), Next
    PROVE  lost' \/ PlaceInv'
  <1>0. /\ ConfigType /\ ServiceType /\ HostType /\ FlagType /\ TaskInv /\ PlanInv /\ NothingEarly
        /\ Heard \in Device /\ Target \in Device \cup {None} /\ None \notin Device /\ Chain \notin Device \cup {None}
    BY OutputsAreDevices, ConstantsAssumption DEF TypeInv, ValueInv, TaskInv, Chain
  <1>1. ASSUME ahead'[1] \notin {"forget", "off", "failed", "takeover", "on"}, ahead'[1] = "stop" => ahead'[2] = "sync"
        PROVE  PlaceInv'
    BY <1>1 DEF PlaceInv
  <1>2. CASE Begin
    BY <1>1, <1>2, BeginOpensNothing
  <1>3. ASSUME NEW step, At(step), Go(Rest), UNCHANGED queue
        PROVE  /\ ahead[1] = step /\ ahead'[1] = ahead[2] /\ ahead'[2] = ahead[3] /\ ahead[2] \in Follow(ahead[1])
               /\ ahead[3] \in Follow(ahead[2])
    BY <1>3, RestAhead
  <1>4. CASE Holder
    <2> USE DEF rest, bounds
    <2>1. CASE DoDevice \/ DoVolume \/ DoRemember \/ DoOn \/ DoFailed \/ DoOff
      <3>1. PICK step \in {"device", "volume", "remember", "on", "failed", "off"} : At(step) /\ Go(Rest) /\ UNCHANGED queue
        BY <2>1 DEF DoDevice, DoVolume, DoRemember, DoOn, DoFailed, DoOff
      <3>2. ahead'[1] \in {"volume", "start", "apply", "end"}
        BY <1>3, <3>1 DEF Follow
      <3> QED BY <1>1, <3>2
    <2>2. CASE DoStart
      <3>1. ahead'[1] \in {"start", "target", "handback"}
        <4>1. CASE UNCHANGED <<lock, job, phase>>
          BY <1>0, <2>2, <4>1, AtIs DEF ahead, DoStart
        <4>2. CASE Go(<<"target", "takeover", "on">> \o Rest)
          BY <1>0, <2>2, <4>2, StartStep DEF DoStart
        <4>3. CASE Go(<<"handback", "forget", "failed">> \o Rest)
          BY <1>0, <2>2, <4>3, StartStep DEF DoStart
        <4> QED BY <2>2, <4>1, <4>2, <4>3, Zenon DEF DoStart
      <3> QED BY <1>1, <3>1
    <2>3. CASE DoTarget
      <3>1. ahead'[1] \in {"takeover", "volume", "end"}
        BY <1>3, <2>3 DEF DoTarget, Follow
      <3>2. /\ host'.chain = host.chain /\ UNCHANGED <<service, config>>
            /\ "target" \in failed' \/ (host.chain => host'.target = Target)
        BY <1>0, <2>3, TargetIsSet
      <3> QED BY <3>1, <3>2 DEF PlaceInv, Target
    <2>4. CASE DoTakeover
      <3>1. ahead'[1] = "on" /\ ahead[1] = "takeover"
        BY <1>3, <2>4 DEF DoTakeover, Follow
      <3>2. (lost => lost') /\ UNCHANGED <<service, config>> /\ host'.target = host.target /\ host'.chain = host.chain
            /\ (lost' \/ (host.chain => host'.default = Chain)) /\ failed' = failed
        BY <1>0, <2>4, DefaultIsSet DEF DoTakeover
      <3> QED BY <3>1, <3>2 DEF PlaceInv, Target
    <2>5. CASE DoHandback
      <3>1. ahead'[1] = "forget"
        BY <1>3, <2>5 DEF DoHandback, Follow
      <3>2. UNCHANGED <<service, config>> /\ (lost => lost')
        BY <1>0, <2>5, DefaultIsSet DEF DoHandback
      <3>3. lost' \/ (Target # None /\ host'.default = Target) \/ (Target = None /\ host' = host)
        BY <1>0, <2>5, DefaultIsSet DEF DoHandback
      <3>4. lost' \/ Placed'
        BY <1>0, <3>2, <3>3 DEF Choice, Placed, Target
      <3> QED BY <3>1, <3>4 DEF PlaceInv
    <2>6. CASE DoForget
      <3>1. ahead[1] = "forget" /\ ahead'[1] = ahead[2] /\ ahead'[1] \in {"sync", "stop", "failed"}
        BY <1>3, <2>6 DEF DoForget, Follow
      <3>2. config'.hostDefault = None /\ (lost => lost') /\ UNCHANGED <<service, host>>
        BY <1>0, <2>6, ValueIsKept DEF DoForget, ConfigType
      <3> QED BY <3>1, <3>2 DEF PlaceInv, Placed
    <2>7. CASE DoStop
      <3>1. ahead[1] = "stop" /\ ahead'[1] = ahead[2] /\ ahead'[1] \in {"off", "sync"}
        BY <1>3, <2>7 DEF DoStop, Follow
      <3>2. host'.default = host.default /\ service'.output = service.output /\ UNCHANGED <<config, lost>>
        BY <1>0, <2>7 DEF DoStop, HostType, ServiceType
      <3> QED BY <3>1, <3>2 DEF PlaceInv, Placed
    <2>8. CASE DoSync
      <3>1. ahead'[1] \in {"remember", "handback", "apply", "end"}
        BY <1>0, <2>8, SyncStep DEF DoSync
      <3> QED BY <1>1, <3>1
    <2>9. CASE DoApply
      <3>1. PICK hasVolume \in BOOLEAN : hasVolume = (config.volume # None)
        OBVIOUS
      <3>2. At("apply") /\ Go(ApplyPlan(service.output, TRUE, hasVolume) \o Rest) /\ UNCHANGED queue
        BY <2>9, <3>1, Zenon DEF DoApply
      <3>3. Applies(service.output, TRUE, hasVolume)
        BY <1>0, <3>2, ApplyStep, Zenon
      <3>4. ahead'[1] \in {"target", "device", "volume", "end"}
        BY <3>3, Zenon DEF Applies
      <3> QED BY <1>1, <3>4
    <2> QED BY <1>4, <2>1, <2>2, <2>3, <2>4, <2>5, <2>6, <2>7, <2>8, <2>9 DEF Holder
  <1>5. ASSUME lock' = lock \/ lock' = Free, lost' = lost, host'.default = host.default, host'.target = host.target,
               host'.chain => host.chain, failed' = failed,
               config'.hostDefault = config.hostDefault, service'.output = service.output
        PROVE  lost' \/ PlaceInv'
    <2>1. CASE lock' = lock
      <3>1. ahead' = ahead
        BY <2>1 DEF ahead
      <3> QED BY <1>5, <3>1 DEF PlaceInv, Placed, Target
    <2>2. CASE lock' = Free
      <3>1. ahead'[1] = "end"
        BY <2>2, FreeTasks
      <3> QED BY <1>1, <3>1
    <2> QED BY <1>5, <2>1, <2>2
  <1>6. CASE Start \/ Crash
    <2>1. lock' = Free
      BY <1>0, <1>6 DEF Start, Crash, TaskInv, PhaseInv
    <2>2. ahead'[1] = "end"
      BY <2>1, FreeTasks
    <2> QED BY <1>1, <2>2
  <1>7. CASE DetectBackend \/ DetectEqualizer \/ CannotAdopt \/ Check \/ \E t \in Request : Cut(t)
    BY <1>5, <1>7 DEF DetectBackend, DetectEqualizer, CannotAdopt, Check, Cut, rest, bounds
  <1>8. CASE Adopt
    <2>1. /\ UNCHANGED <<lock, host, lost, failed>> /\ config'.hostDefault = config.hostDefault
          /\ service'.output = service.output
      BY <1>0, <1>8 DEF Adopt, ConfigType, ServiceType
    <2> QED BY <1>5, <2>1
  <1>9. CASE ChainLost
    <2>1. host'.default = host.default /\ host'.target = host.target /\ host.chain
      BY <1>0, <1>9 DEF ChainLost, HostType
    <2>2. service'.output = service.output
      BY <1>0, <1>9 DEF ChainLost, ServiceType
    <2> QED BY <1>5, <1>9, <2>1, <2>2 DEF ChainLost
  <1>10. ASSUME NEW t \in Request, Write(t) PROVE lost' \/ PlaceInv'
    <2>1. config'.hostDefault = config.hostDefault
      BY <1>10, WriteStep
    <2>2. UNCHANGED <<lock, host, lost, service, failed>>
      BY <1>10 DEF Write
    <2> QED BY <1>5, <2>1, <2>2
  <1> QED BY <1>2, <1>4, <1>6, <1>7, <1>8, <1>9, <1>10 DEF Next

(***************************************************************************)
(* The writes that wait, and what the service runs with                    *)
(***************************************************************************)

Asks(i) == job[queue[i]].kind = "audio"
NoneAsks == \A i \in 1..Len(queue) : ~Asks(i)

\* The last write of the audio settings asks for what is configured.
LastAsks ==
    \A i \in 1..Len(queue) :
        Asks(i) /\ (\A j \in 1..Len(queue) : j > i => ~Asks(j))
        => job[queue[i]].output = config.output /\ job[queue[i]].volume = StoredVolume

\* The volume a holder is about to set.
AskedVolume == IF job[lock.owner].kind = "audio" THEN job[lock.owner].volume ELSE service.volume

\* With no such write in line, the service runs with the settings, or is given
\* the volume by the step that is to come.
Answered ==
    /\ Comes("volume") => job[lock.owner].kind = "audio" \/ phase = "starting"
    /\ LastAsks
    /\ NoneAsks => /\ service.output = config.output
                   /\ IF Comes("volume") THEN AskedVolume = StoredVolume ELSE service.volume = StoredVolume

LEMMA SameAsks ==
    ASSUME TypeInv, UNCHANGED queue, \A i \in 1..Len(queue) : job'[queue[i]] = job[queue[i]],
           config'.output = config.output, config'.volume = config.volume
    PROVE  (LastAsks => LastAsks') /\ (NoneAsks' <=> NoneAsks) /\ StoredVolume' = StoredVolume
  <1>1. StoredVolume' = StoredVolume
    BY DEF StoredVolume
  <1>2. \A i \in 1..Len(queue) : Asks(i)' <=> Asks(i)
    BY DEF Asks
  <1> QED BY <1>1, <1>2 DEF LastAsks, NoneAsks

LEMMA AskedLast ==
    ASSUME TypeInv, NEW t \in Task, job[t] = NoJob,
           Len(queue') = Len(queue) + 1, queue'[Len(queue) + 1] = t,
           \A i \in 1..Len(queue) : queue'[i] = queue[i],
           \A other \in Task : other # t => job'[other] = job[other],
           \/ job'[t].kind # "audio" /\ config'.output = config.output /\ config'.volume = config.volume
           \/ job'[t].kind = "audio" /\ job'[t].output = config'.output /\ job'[t].volume = StoredVolume'
    PROVE  /\ LastAsks => LastAsks'
           /\ NoneAsks' <=> NoneAsks /\ job'[t].kind # "audio"
           /\ job'[t].kind # "audio" => StoredVolume' = StoredVolume
  <1>1. Len(queue) \in Nat /\ \A i \in 1..Len(queue) : queue[i] \in Task /\ queue[i] # t
    BY DEF TypeInv, TaskInv, QueueInv
  <1>2. \A i \in 1..Len(queue) : Asks(i)' <=> Asks(i)
    BY <1>1 DEF Asks
  <1>3. \A i \in {Len(queue) + 1} : Asks(i)' <=> job'[t].kind = "audio"
    BY <1>1 DEF Asks
  <1>4. \A i \in 1..Len(queue') : i \in 1..Len(queue) \/ i = Len(queue) + 1
    BY <1>1
  <1>5. \A i \in 1..Len(queue) : i \in 1..Len(queue')
    BY <1>1
  <1>6. Len(queue) + 1 \in 1..Len(queue')
    BY <1>1
  <1>7. NoneAsks' <=> NoneAsks /\ job'[t].kind # "audio"
    BY <1>2, <1>3, <1>4, <1>5, <1>6 DEF NoneAsks
  <1>8. job'[t].kind # "audio" => StoredVolume' = StoredVolume
    BY DEF StoredVolume
  <1>9. ASSUME LastAsks, NEW i \in 1..Len(queue'), Asks(i)', \A j \in 1..Len(queue') : j > i => ~Asks(j)'
        PROVE  job'[queue'[i]].output = config'.output /\ job'[queue'[i]].volume = StoredVolume'
    <2>1. CASE i = Len(queue) + 1
      BY <1>3, <1>9, <2>1
    <2>2. CASE i \in 1..Len(queue)
      <3>1. job'[t].kind # "audio"
        BY <1>1, <1>3, <1>6, <1>9, <2>2
      <3>2. Asks(i) /\ \A j \in 1..Len(queue) : j > i => ~Asks(j)
        BY <1>2, <1>5, <1>9, <2>2
      <3>3. job[queue[i]].output = config.output /\ job[queue[i]].volume = StoredVolume
        BY <1>9, <2>2, <3>2 DEF LastAsks
      <3>4. queue'[i] = queue[i] /\ job'[queue[i]] = job[queue[i]]
        BY <1>1, <2>2
      <3> QED BY <1>8, <3>1, <3>3, <3>4
    <2> QED BY <1>4, <2>1, <2>2
  <1>10. LastAsks => LastAsks'
    BY <1>9 DEF LastAsks
  <1> QED BY <1>7, <1>8, <1>10

LEMMA TakenFirst ==
    ASSUME TypeInv, Len(queue) \in Nat \ {0}, Len(queue') = Len(queue) - 1,
           \A i \in 1..Len(queue') : queue'[i] = queue[i + 1],
           \A other \in Task : other # queue[1] => job'[other] = job[other], UNCHANGED config
    PROVE  /\ LastAsks => LastAsks'
           /\ NoneAsks <=> NoneAsks' /\ ~Asks(1)
           /\ LastAsks /\ NoneAsks' /\ Asks(1) => job[queue[1]].output = config.output /\ job[queue[1]].volume = StoredVolume
           /\ StoredVolume' = StoredVolume
  <1>1. \A i \in 1..Len(queue') : i + 1 \in 1..Len(queue) /\ queue[i + 1] \in Task /\ queue[i + 1] # queue[1]
    <2> SUFFICES ASSUME NEW i \in 1..Len(queue')
                 PROVE  i + 1 \in 1..Len(queue) /\ queue[i + 1] \in Task /\ queue[i + 1] # queue[1]
      OBVIOUS
    <2>1. i + 1 \in 1..Len(queue) /\ 1 \in 1..Len(queue) /\ i + 1 # 1
      OBVIOUS
    <2>2. DOMAIN queue = 1..Len(queue)
      BY DEF TypeInv, TaskInv, QueueInv
    <2> QED BY <2>1, <2>2 DEF TypeInv, TaskInv, QueueInv
  <1>2. \A i \in 1..Len(queue') : Asks(i)' <=> Asks(i + 1)
    BY <1>1 DEF Asks
  <1>3. \A j \in 1..Len(queue) : j = 1 \/ (j - 1 \in 1..Len(queue') /\ (j - 1) + 1 = j)
    OBVIOUS
  <1>4. \A j \in 1..Len(queue) : j # 1 => (Asks(j - 1)' <=> Asks(j))
    <2> SUFFICES ASSUME NEW j \in 1..Len(queue), j # 1 PROVE Asks(j - 1)' <=> Asks(j)
      OBVIOUS
    <2>1. j - 1 \in 1..Len(queue') /\ (j - 1) + 1 = j
      BY <1>3
    <2> QED BY <1>2, <2>1
  <1>5. NoneAsks <=> NoneAsks' /\ ~Asks(1)
    BY <1>1, <1>2, <1>3, <1>4 DEF NoneAsks
  <1>6. StoredVolume' = StoredVolume
    BY DEF StoredVolume
  <1>7. ASSUME LastAsks, NEW i \in 1..Len(queue'), Asks(i)', \A j \in 1..Len(queue') : j > i => ~Asks(j)'
        PROVE  job'[queue'[i]].output = config'.output /\ job'[queue'[i]].volume = StoredVolume'
    <2>1. Asks(i + 1) /\ i + 1 \in 1..Len(queue)
      BY <1>1, <1>2, <1>7
    <2>2. \A j \in 1..Len(queue) : j > i + 1 => ~Asks(j)
      <3> SUFFICES ASSUME NEW j \in 1..Len(queue), j > i + 1 PROVE ~Asks(j)
        OBVIOUS
      <3>1. j - 1 \in 1..Len(queue') /\ j - 1 > i /\ j # 1
        OBVIOUS
      <3> QED BY <1>4, <1>7, <3>1
    <2>3. job[queue[i + 1]].output = config.output /\ job[queue[i + 1]].volume = StoredVolume
      BY <1>7, <2>1, <2>2 DEF LastAsks
    <2> QED BY <1>1, <1>6, <2>3
  <1>8. LastAsks => LastAsks'
    BY <1>7 DEF LastAsks
  <1>9. ASSUME LastAsks, NoneAsks', Asks(1)
        PROVE  job[queue[1]].output = config.output /\ job[queue[1]].volume = StoredVolume
    <2>1. \A j \in 1..Len(queue) : j > 1 => ~Asks(j)
      <3> SUFFICES ASSUME NEW j \in 1..Len(queue), j > 1 PROVE ~Asks(j)
        OBVIOUS
      <3>1. j - 1 \in 1..Len(queue') /\ j # 1
        OBVIOUS
      <3> QED BY <1>4, <1>9, <3>1 DEF NoneAsks
    <2> QED BY <1>9, <2>1 DEF LastAsks
  <1> QED BY <1>5, <1>6, <1>8, <1>9

LEMMA BeginAnswers ==
    ASSUME TypeInv, cut \/ phase = "down" \/ Answered, Begin
    PROVE  cut' \/ phase' = "down" \/ Answered'
  <1>0. /\ ServiceType /\ TaskInv /\ JobType /\ QueueInv /\ TypeInv' /\ PlanInv'
        /\ UNCHANGED <<config, cut>> /\ service'.volume = service.volume /\ lock = Free
    BY BeginOpensNothing DEF TypeInv, ValueInv, TaskInv
  <1>1. ~Comes("volume")
    BY <1>0, FreeEnds
  <1>2. ASSUME NEW t \in Task, queue # <<>>, queue[1] = t, job[t].kind # "audio",
               Len(queue) \in Nat \ {0}, Len(queue') = Len(queue) - 1,
               \A i \in 1..Len(queue') : queue'[i] = queue[i + 1],
               job' = job \/ job' = [job EXCEPT ![t] = NoJob],
               service'.output = service.output, ~Comes("volume")'
        PROVE  cut' \/ phase' = "down" \/ Answered'
    <2>1. \A other \in Task : other # queue[1] => job'[other] = job[other]
      BY <1>0, <1>2 DEF JobType
    <2>2. ~Asks(1)
      BY <1>2 DEF Asks
    <2>3. /\ LastAsks => LastAsks'
          /\ NoneAsks <=> NoneAsks' /\ ~Asks(1)
          /\ StoredVolume' = StoredVolume
      BY <1>0, <1>2, <2>1, TakenFirst
    <2>4. phase # "down"
      BY <1>0, <1>2 DEF TaskInv, PhaseInv
    <2>5. cut \/ Answered
      BY <2>4
    <2> QED BY <1>0, <1>1, <1>2, <2>2, <2>3, <2>5 DEF Answered
  <1>3. CASE BeginStart
    <2>1. ahead'[1] \in {"handback", "sync"} /\ ahead'[2] \in {"forget", "apply"}
      BY <1>3, StartBegins
    <2>2. ~Comes("volume")'
      BY <1>0, <2>1, ComesNext
    <2>3. service'.output = service.output /\ job[Main].kind = "start" /\ Main \in Task
      BY <1>0, <1>3, NoTaskIsNone DEF BeginStart, ServiceType
    <2> QED BY <1>2, <1>3, <2>2, <2>3, StartTakes
  <1>4. CASE BeginCheck
    <2>1. ahead'[1] = "end" \/ (ahead'[1] = "stop" /\ ahead'[2] = "sync")
      BY <1>4, CheckTakes
    <2>2. ahead'[2] \in Follow(ahead'[1])
      BY <1>0 DEF PlanInv, Shape
    <2>3. ~Comes("volume")'
      BY <1>0, <2>1, <2>2, ComesNext DEF Follow
    <2>4. job[Main].kind = "check" /\ Main \in Task
      BY <1>4, NoTaskIsNone DEF BeginCheck
    <2>5. /\ service' = service /\ (job' = job \/ job' = [job EXCEPT ![Main] = NoJob])
          /\ queue # <<>> /\ queue[1] = Main /\ Len(queue) \in Nat \ {0} /\ Len(queue') = Len(queue) - 1
          /\ \A i \in 1..Len(queue') : queue'[i] = queue[i + 1]
      BY <1>4, CheckTakes
    <2>6. job[Main].kind # "audio" /\ service'.output = service.output
      BY <2>4, <2>5
    <2> QED BY <1>2, <2>3, <2>4, <2>5, <2>6
  <1>5. ASSUME NEW t \in Task, BeginCurve(t) PROVE cut' \/ phase' = "down" \/ Answered'
    <2>1. ahead'[1] \in {"end", "sync"} /\ (job' = job \/ job' = [job EXCEPT ![t] = NoJob])
      BY <1>5, CurveTakes
    <2>2. ahead'[2] \in Follow(ahead'[1])
      BY <1>0 DEF PlanInv, Shape
    <2>3. ~Comes("volume")'
      BY <1>0, <2>1, <2>2, ComesNext DEF Follow
    <2>4. job[t].kind # "audio" /\ service'.output = service.output
      BY <1>0, <1>5 DEF BeginCurve, ServiceType
    <2>5. /\ queue # <<>> /\ queue[1] = t /\ Len(queue) \in Nat \ {0} /\ Len(queue') = Len(queue) - 1
          /\ \A i \in 1..Len(queue') : queue'[i] = queue[i + 1]
      BY <1>5, CurveTakes
    <2> QED BY <1>2, <2>1, <2>3, <2>4, <2>5
  <1>6. ASSUME NEW t \in Task, BeginAudio(t) PROVE cut' \/ phase' = "down" \/ Answered'
    <2>1. /\ job' = job /\ lock'.owner = t /\ phase' = phase
          /\ Applies(job[t].output, job[t].output # service.output, TRUE)
          /\ queue # <<>> /\ queue[1] = t /\ Len(queue) \in Nat \ {0} /\ Len(queue') = Len(queue) - 1
          /\ \A i \in 1..Len(queue') : queue'[i] = queue[i + 1]
      BY <1>6, AudioTakes
    <2>2. ahead'[1] = "volume" \/ ahead'[2] = "volume"
      BY <2>1, Zenon DEF Applies
    <2>3. Comes("volume")'
      BY <1>0, <2>2, ComesNext
    <2>4. service'.output = job[t].output /\ job[t].kind = "audio"
      BY <1>0, <1>6 DEF BeginAudio, ServiceType
    <2>5. Asks(1)
      BY <2>1, <2>4 DEF Asks
    <2>6. \A other \in Task : other # queue[1] => job'[other] = job[other]
      BY <2>1
    <2>7. /\ LastAsks => LastAsks'
          /\ LastAsks /\ NoneAsks' => job[t].output = config.output /\ job[t].volume = StoredVolume
          /\ StoredVolume' = StoredVolume
      BY <1>0, <2>1, <2>5, <2>6, TakenFirst
    <2>8. AskedVolume' = job[t].volume /\ job'[lock'.owner].kind = "audio"
      BY <2>1, <2>4 DEF AskedVolume
    <2>9. phase # "down"
      BY <1>0, <2>1 DEF TaskInv, PhaseInv
    <2>10. cut \/ Answered
      BY <2>9
    <2> QED BY <1>0, <2>3, <2>4, <2>7, <2>8, <2>10 DEF Answered
  <1> QED BY <1>3, <1>4, <1>5, <1>6 DEF Begin

LEMMA HolderAnswers ==
    ASSUME TypeInv, cut \/ Answered, Holder
    PROVE  cut' \/ Answered'
  <1>0. /\ ConfigType /\ ServiceType /\ TaskInv /\ JobType /\ QueueInv /\ TypeInv' /\ PlanInv /\ PlanInv'
        /\ Len(queue) \in Nat
    BY HolderKeepsTypes DEF TypeInv, ValueInv, TaskInv, QueueInv
  <1>1. ASSUME UNCHANGED queue, config'.output = config.output, config'.volume = config.volume, cut' = cut,
               service'.output = service.output,
               job' = job \/ (job' = [job EXCEPT ![lock.owner] = NoJob] /\ lock.owner \in Task),
               Comes("volume")' => job'[lock'.owner].kind = "audio" \/ phase' = "starting",
               NoneAsks /\ Answered => IF Comes("volume")' THEN AskedVolume' = StoredVolume
                                                          ELSE service'.volume = StoredVolume
        PROVE  cut' \/ Answered'
    <2>1. \A i \in 1..Len(queue) : job'[queue[i]] = job[queue[i]]
      <3> SUFFICES ASSUME NEW i \in 1..Len(queue) PROVE job'[queue[i]] = job[queue[i]]
        OBVIOUS
      <3>1. queue[i] \in Task /\ queue[i] # lock.owner
        BY <1>0 DEF QueueInv
      <3> QED BY <1>0, <1>1, <3>1 DEF JobType
    <2>2. (LastAsks => LastAsks') /\ (NoneAsks' <=> NoneAsks) /\ StoredVolume' = StoredVolume
      BY <1>1, <2>1, SameAsks
    <2> QED BY <1>1, <2>2 DEF Answered
  <1>2. ASSUME NEW step, At(step), Go(Rest), step # "volume", UNCHANGED <<queue, cut>>,
               config'.output = config.output, config'.volume = config.volume,
               service'.output = service.output, service'.volume = service.volume
        PROVE  cut' \/ Answered'
    <2>1. /\ ahead[1] = step /\ Continues /\ lock.owner \in Task
          /\ ahead'[1] = ahead[2] /\ ahead'[2] = ahead[3] /\ ahead[2] \in Follow(ahead[1])
          /\ ahead[3] \in Follow(ahead[2])
      BY <1>2, RestAhead
    <2>2. Comes("volume")' <=> Comes("volume")
      BY <1>0, <1>2, <2>1, ComesNow, ComesNext DEF Follow
    <2>3. ahead'[1] = "end" => ~Comes("volume")'
      <3>1. ahead'[2] \in Follow(ahead'[1])
        BY <1>0 DEF PlanInv, Shape
      <3> QED BY <1>0, <3>1, ComesNext DEF Follow
    <2>4. Comes("volume")' => job' = job /\ lock'.owner = lock.owner /\ phase' = phase
      BY <2>1, <2>3 DEF Continues
    <2>5. Comes("volume")' => AskedVolume' = AskedVolume
      BY <1>2, <2>4 DEF AskedVolume
    <2>6. job' = job \/ job' = [job EXCEPT ![lock.owner] = NoJob]
      BY <2>1 DEF Continues
    <2>7. CASE cut
      BY <1>2, <2>7
    <2>8. CASE Answered
      BY <1>1, <1>2, <2>1, <2>2, <2>4, <2>5, <2>6, <2>8 DEF Answered
    <2> QED BY <2>7, <2>8
  <1>3. ASSUME UNCHANGED <<queue, cut, config>>, service'.output = service.output, service'.volume = service.volume,
               job' = job \/ (job' = [job EXCEPT ![lock.owner] = NoJob] /\ lock.owner \in Task),
               ~Comes("volume"), ~Comes("volume")'
        PROVE  cut' \/ Answered'
    BY <1>1, <1>3 DEF Answered
  <1> USE DEF rest, bounds
  <1>4. CASE DoDevice \/ DoTarget \/ DoTakeover \/ DoHandback
    BY <1>2, <1>4 DEF DoDevice, DoTarget, DoTakeover, DoHandback
  <1>5. CASE DoRemember \/ DoForget
    <2>1. config'.output = config.output /\ config'.volume = config.volume
      BY <1>0, <1>5 DEF DoRemember, DoForget, Keep, ConfigType
    <2> QED BY <1>2, <1>5, <2>1 DEF DoRemember, DoForget
  <1>6. CASE DoOn \/ DoFailed \/ DoStop \/ DoOff
    <2>1. service'.output = service.output /\ service'.volume = service.volume
      BY <1>0, <1>6 DEF DoOn, DoFailed, DoStop, DoOff, ServiceType
    <2> QED BY <1>2, <1>6, <2>1 DEF DoOn, DoFailed, DoStop, DoOff
  <1>7. CASE DoVolume
    <2>1. /\ ahead[1] = "volume" /\ Continues /\ lock.owner \in Task
          /\ ahead'[1] = ahead[2] /\ ahead'[2] = ahead[3] /\ ahead[2] \in Follow(ahead[1])
          /\ ahead[3] \in Follow(ahead[2])
      BY <1>7, RestAhead DEF DoVolume
    <2>2. Comes("volume") /\ ~Comes("volume")'
      BY <1>0, <2>1, ComesNow, ComesNext DEF Follow
    <2>3. service'.volume = AskedVolume /\ service'.output = service.output
      BY <1>0, <1>7 DEF DoVolume, AskedVolume, ServiceType
    <2>4. job' = job \/ job' = [job EXCEPT ![lock.owner] = NoJob]
      BY <2>1 DEF Continues
    <2>5. UNCHANGED <<queue, cut, config>>
      BY <1>7 DEF DoVolume
    <2> QED BY <1>1, <2>1, <2>2, <2>3, <2>4, <2>5 DEF Answered
  <1>8. CASE DoStart
    <2>1. ahead[1] = "start" /\ ahead[2] \in {"apply", "end"} /\ ahead[3] = "end"
      BY <1>0, <1>8, AtIs, NearTheEnd DEF DoStart
    <2>2. service'.output = service.output /\ service'.volume = service.volume /\ UNCHANGED <<queue, cut, config>>
      BY <1>0, <1>8 DEF DoStart, ServiceType
    <2>3. job' = job /\ ((ahead'[1] = "start" /\ ahead'[2] = ahead[2])
                         \/ (ahead'[1] = "target" /\ ahead'[2] = "takeover")
                         \/ (ahead'[1] = "handback" /\ ahead'[2] = "forget"))
      <3>1. CASE UNCHANGED <<lock, job, phase>>
        BY <2>1, <3>1 DEF ahead
      <3>2. CASE Go(<<"target", "takeover", "on">> \o Rest)
        BY <1>0, <1>8, <3>2, StartStep DEF DoStart
      <3>3. CASE Go(<<"handback", "forget", "failed">> \o Rest)
        BY <1>0, <1>8, <3>3, StartStep DEF DoStart
      <3> QED BY <1>8, <3>1, <3>2, <3>3, Zenon DEF DoStart
    <2>4. ~Comes("volume") /\ ~Comes("volume")'
      BY <1>0, <2>1, <2>3, ComesNow, ComesNext
    <2> QED BY <1>3, <2>2, <2>3, <2>4
  <1>9. CASE DoSync
    <2>1. /\ ahead[1] = "sync" /\ ahead[2] \in {"apply", "end"} /\ Continues /\ lock.owner \in Task
          /\ ahead'[1] \in {"remember", "handback", "apply", "end"} /\ ahead'[2] \in {"start", "forget", "end"}
      BY <1>0, <1>9, SyncStep DEF DoSync
    <2>2. service'.output = service.output /\ service'.volume = service.volume /\ UNCHANGED <<queue, cut, config>>
      BY <1>0, <1>9 DEF DoSync, ServiceType
    <2>3. job' = job \/ job' = [job EXCEPT ![lock.owner] = NoJob]
      BY <2>1 DEF Continues
    <2>4. ~Comes("volume") /\ ~Comes("volume")'
      BY <1>0, <2>1, ComesNow, ComesNext
    <2> QED BY <1>3, <2>1, <2>2, <2>3, <2>4
  <1>10. CASE DoApply
    <2>1. PICK hasVolume \in BOOLEAN : hasVolume = (config.volume # None)
      OBVIOUS
    <2>2. At("apply") /\ Go(ApplyPlan(service.output, TRUE, hasVolume) \o Rest) /\ UNCHANGED <<queue, cut, config, service>>
      BY <1>10, <2>1, Zenon DEF DoApply
    <2>3. Applies(service.output, TRUE, hasVolume) /\ ahead[1] = "apply" /\ Continues /\ lock.owner = Main
          /\ phase = "starting"
      BY <1>0, <2>2, ApplyStep, Zenon
    <2>4. ahead[2] \in {"apply", "end"}
      BY <1>0, <2>3, NearTheEnd
    <2>5. ~Comes("volume") /\ Main \in Task
      BY <1>0, <2>3, <2>4, ComesNow, NoTaskIsNone
    <2>6. job' = job \/ job' = [job EXCEPT ![lock.owner] = NoJob]
      BY <2>3 DEF Continues
    <2>7. ahead'[1] = "end" => ~Comes("volume")'
      <3>1. ahead'[2] \in Follow(ahead'[1])
        BY <1>0 DEF PlanInv, Shape
      <3> QED BY <1>0, <3>1, ComesNext DEF Follow
    <2>8. Comes("volume")' => job' = job /\ lock'.owner = lock.owner /\ phase' = phase
      BY <2>3, <2>7 DEF Continues
    <2>9. Comes("volume")' => AskedVolume' = service.volume
      <3>1. job[Main].kind # "audio"
        BY <1>0, <2>3 DEF TaskInv, PhaseInv
      <3> QED BY <2>2, <2>3, <2>8, <3>1 DEF AskedVolume
    <2> QED BY <1>1, <2>2, <2>3, <2>5, <2>6, <2>8, <2>9 DEF Answered
  <1> QED BY <1>4, <1>5, <1>6, <1>7, <1>8, <1>9, <1>10 DEF Holder

LEMMA AnswersKept ==
    ASSUME TypeInv, cut \/ phase = "down" \/ Answered, Next
    PROVE  cut' \/ phase' = "down" \/ Answered'
  <1>0. /\ ConfigType /\ ServiceType /\ TaskInv /\ JobType /\ QueueInv /\ PhaseInv /\ NothingEarly /\ TypeInv' /\ PlanInv /\ PlanInv'
        /\ Len(queue) \in Nat
    BY NextKeepsTypes DEF TypeInv, ValueInv, TaskInv, QueueInv
  <1>1. CASE Begin
    BY <1>1, BeginAnswers
  <1>2. CASE Holder
    <2>1. \E step : At(step)
      BY <1>2 DEF Holder, DoDevice, DoVolume, DoRemember, DoStart, DoTarget, DoTakeover, DoOn, DoHandback,
                  DoForget, DoFailed, DoStop, DoOff, DoSync, DoApply
    <2>2. phase # "down"
      BY <1>0, <2>1 DEF At, PhaseInv, Free
    <2> QED BY <1>2, <2>2, HolderAnswers
  <1>3. ASSUME UNCHANGED <<queue, job, config, lock, cut>>, service'.output = service.output,
               service'.volume = service.volume, phase' = phase \/ (phase # "starting" /\ phase # "down")
        PROVE  cut' \/ phase' = "down" \/ Answered'
    <2>1. \A i \in 1..Len(queue) : job'[queue[i]] = job[queue[i]]
      BY <1>3
    <2>2. (LastAsks => LastAsks') /\ (NoneAsks' <=> NoneAsks) /\ StoredVolume' = StoredVolume
      BY <1>3, <2>1, SameAsks
    <2>3. ahead' = ahead
      BY <1>3 DEF ahead
    <2>4. (Comes("volume")' <=> Comes("volume")) /\ AskedVolume' = AskedVolume
      BY <1>3, <2>3 DEF Comes, AskedVolume
    <2> QED BY <1>3, <2>2, <2>4 DEF Answered
  <1>4. CASE Start
    <2>1. lock' = Free /\ queue' = queue /\ queue = <<>> /\ config'.output = config.output /\ config'.volume = config.volume
          /\ service'.output = config.output /\ service'.volume = StoredVolume
      BY <1>0, <1>4 DEF Start, PhaseInv, ConfigType, StoredVolume
    <2>2. ~Comes("volume")'
      BY <2>1, FreeTasks
    <2>3. Len(queue') = 0
      BY <2>1
    <2>4. LastAsks' /\ StoredVolume' = StoredVolume
      BY <2>1, <2>3 DEF LastAsks, StoredVolume
    <2> QED BY <2>1, <2>2, <2>4 DEF Answered
  <1>5. CASE DetectBackend \/ CannotAdopt
    BY <1>3, <1>5 DEF DetectBackend, CannotAdopt, rest, bounds
  <1>6. CASE ChainLost
    BY <1>0, <1>3, <1>6 DEF ChainLost, ServiceType
  <1>7. ASSUME NEW kind \in {"start", "check"}, job[Main] = NoJob,
               job' = [job EXCEPT ![Main] = [NoJob EXCEPT !.kind = kind]], queue' = Append(queue, Main),
               UNCHANGED <<config, service, lock, cut>>, phase' = phase \/ phase = "probing", phase # "down"
        PROVE  cut' \/ phase' = "down" \/ Answered'
    <2>1. /\ Len(queue') = Len(queue) + 1 /\ queue'[Len(queue) + 1] = Main /\ Main \in Task
          /\ \A i \in 1..Len(queue) : queue'[i] = queue[i]
      BY <1>0, <1>7, NoTaskIsNone DEF QueueInv
    <2>2. \A other \in Task : other # Main => job'[other] = job[other]
      BY <1>0, <1>7 DEF JobType
    <2>3. job'[Main].kind # "audio"
      BY <1>0, <1>7, <2>1 DEF JobType, NoJob
    <2>4. (LastAsks => LastAsks') /\ (NoneAsks' <=> NoneAsks) /\ StoredVolume' = StoredVolume
      BY <1>7, <2>1, <2>2, <2>3, AskedLast
    <2>5. (Comes("volume")' <=> Comes("volume")) /\ lock.owner # Main
      <3>1. ahead' = ahead
        BY <1>7 DEF ahead
      <3>2. lock.owner # Main
        BY <1>0, <1>7, <2>1 DEF QueueInv
      <3> QED BY <3>1, <3>2 DEF Comes
    <2>6. Comes("volume") => job'[lock.owner] = job[lock.owner]
      <3>1. Comes("volume") => lock # Free
        BY FreeEnds
      <3>2. lock.owner \in Task \/ lock = Free
        BY <1>0 DEF PlanInv, LockType, Free
      <3> QED BY <2>2, <2>5, <3>1, <3>2
    <2>7. Comes("volume") => AskedVolume' = AskedVolume
      <3>1. UNCHANGED <<lock, service>>
        BY <1>7
      <3> QED BY <2>6, <3>1 DEF AskedVolume
    <2> QED BY <1>7, <2>4, <2>5, <2>6, <2>7 DEF Answered
  <1>8. CASE DetectEqualizer
    <2>1. job[Main] = NoJob
      BY <1>0, <1>8, NoTaskIsNone DEF DetectEqualizer, PhaseInv, JobType
    <2> QED BY <1>7, <1>8, <2>1 DEF DetectEqualizer
  <1>9. CASE Check
    <2>1. CASE UNCHANGED <<job, queue>>
      BY <1>3, <1>9, <2>1 DEF Check
    <2>2. CASE job' = [job EXCEPT ![Main] = [NoJob EXCEPT !.kind = "check"]] /\ queue' = Append(queue, Main)
      BY <1>7, <1>9, <2>2 DEF Check
    <2> QED BY <1>9, <2>1, <2>2 DEF Check
  <1>10. ASSUME NEW t \in Task, job[t] = NoJob, Len(queue') = Len(queue) + 1, queue'[Len(queue) + 1] = t,
                \A i \in 1..Len(queue) : queue'[i] = queue[i], \A other \in Task : other # t => job'[other] = job[other],
                UNCHANGED <<lock, cut>>, service'.output = service.output,
                \/ job'[t].kind = "curve" /\ config'.output = config.output /\ config'.volume = config.volume
                   /\ service'.volume = service.volume
                \/ job'[t].kind = "audio" /\ job'[t].output = config'.output /\ job'[t].volume = StoredVolume',
                phase # "down", phase' = phase \/ phase = "adopting"
        PROVE  cut' \/ phase' = "down" \/ Answered'
    <2>1. /\ LastAsks => LastAsks'
          /\ NoneAsks' <=> NoneAsks /\ job'[t].kind # "audio"
          /\ job'[t].kind # "audio" => StoredVolume' = StoredVolume
      BY <1>10, AskedLast
    <2>2. (Comes("volume")' <=> Comes("volume")) /\ lock.owner # t
      <3>1. ahead' = ahead
        BY <1>10 DEF ahead
      <3>2. lock.owner # t
        BY <1>0, <1>10 DEF QueueInv
      <3> QED BY <3>1, <3>2 DEF Comes
    <2>3. Comes("volume") => job'[lock.owner] = job[lock.owner]
      <3>1. Comes("volume") => lock # Free
        BY FreeEnds
      <3>2. lock.owner \in Task \/ lock = Free
        BY <1>0 DEF PlanInv, LockType, Free
      <3> QED BY <1>10, <2>2, <3>1, <3>2
    <2>4. Comes("volume") /\ service'.volume = service.volume => AskedVolume' = AskedVolume
      BY <1>10, <2>3 DEF AskedVolume
    <2> QED BY <1>10, <2>1, <2>2, <2>3, <2>4 DEF Answered
  <1>11. CASE Adopt
    <2>1. PICK volume \in HostVolumes :
              /\ service' = [service EXCEPT !.volume = volume]
              /\ \/ volume = StoredVolume /\ UNCHANGED <<config, kept, job, queue>>
                 \/ /\ config' = [config EXCEPT !.volume = volume] /\ kept' = config.hostDefault
                    /\ Len(queue) \in Nat /\ Len(queue') = Len(queue) + 1 /\ queue'[Len(queue) + 1] = Main
                    /\ \A i \in 1..Len(queue) : queue'[i] = queue[i]
                    /\ \A other \in Task : other # Main => job'[other] = job[other]
                    /\ job'[Main].kind = "audio" /\ job'[Main].output = config'.output
                    /\ job'[Main].volume = StoredVolume'
      BY <1>11, AdoptStep
    <2>2. UNCHANGED <<lock, cut>> /\ phase = "adopting" /\ phase' = "ready"
      BY <1>11 DEF Adopt
    <2>3. service'.output = service.output /\ service'.volume = volume
      BY <1>0, <2>1 DEF ServiceType
    <2>4. job[Main] = NoJob /\ Main \in Task
      BY <1>0, <2>2, NoTaskIsNone DEF PhaseInv, JobType
    <2>5. CASE volume = StoredVolume /\ UNCHANGED <<config, kept, job, queue>>
      <3>1. \A i \in 1..Len(queue) : job'[queue[i]] = job[queue[i]]
        BY <2>5
      <3>2. (LastAsks => LastAsks') /\ (NoneAsks' <=> NoneAsks) /\ StoredVolume' = StoredVolume
        BY <2>5, <3>1, SameAsks
      <3>3. ahead' = ahead
        BY <2>2 DEF ahead
      <3>4. Comes("volume")' <=> Comes("volume")
        BY <3>3 DEF Comes
      <3>5. job[lock.owner].kind = "audio" => AskedVolume' = AskedVolume
        BY <2>2, <2>5 DEF AskedVolume
      <3> QED BY <2>2, <2>3, <2>5, <3>2, <3>4, <3>5 DEF Answered
    <2>6. CASE ~(volume = StoredVolume /\ UNCHANGED <<config, kept, job, queue>>)
      BY <1>10, <2>1, <2>2, <2>3, <2>4, <2>6
    <2> QED BY <2>5, <2>6
  <1>12. ASSUME NEW t \in Request, Write(t) PROVE cut' \/ phase' = "down" \/ Answered'
    <2>1. t \in Task /\ job[t] = NoJob /\ UNCHANGED <<lock, cut, service, phase>> /\ phase # "down"
      BY <1>12, NoTaskIsNone DEF Write
    <2>2. /\ Len(queue') = Len(queue) + 1 /\ queue'[Len(queue) + 1] = t
          /\ \A i \in 1..Len(queue) : queue'[i] = queue[i]
          /\ \A other \in Task : other # t => job'[other] = job[other]
          /\ \/ /\ job'[t].kind = "curve"
                /\ config'.output = config.output /\ config'.volume = config.volume
             \/ /\ job'[t].kind = "audio" /\ job'[t].output = config'.output /\ job'[t].volume = StoredVolume'
      BY <1>12, WriteStep
    <2> QED BY <1>10, <2>1, <2>2
  <1>13. CASE Crash \/ \E t \in Request : Cut(t)
    BY <1>13 DEF Crash, Cut
  <1> QED BY <1>1, <1>2, <1>4, <1>5, <1>6, <1>8, <1>9, <1>11, <1>12, <1>13 DEF Next

(***************************************************************************)
(* The sound, as long as nothing was cut off, lost or gone                 *)
(***************************************************************************)

ChainPlays == Running /\ host.chain /\ host.default = Chain
Bare == host.default # Chain /\ config.hostDefault = None

\* The output that is heard is as loud as the service has it; of no account
\* where no volume is stored, a write is to set it, or a command failed.
Loud == config.volume # None /\ NoneAsks /\ failed = {} => host.volume[Heard] = service.volume

\* Where the chain plays, unless it could not be told.
Aimed == "target" \notin failed => host.target = Target

\* The first start has applied the settings.
After ==
    \/ phase \in {"adopting", "ready"}
    \/ phase = "starting" /\ lock.owner = Main /\ ~Comes("apply")

\* Nothing is being done to the chain.
Plain ==
    \/ ahead[1] \in {"end", "device", "volume"}
    \/ ahead[1] = "target" /\ ahead[2] # "takeover"
    \/ ahead[1] = "sync" /\ ahead[2] = "end"

\* Before: a chain that runs is the one that plays.
Early ==
    /\ Plain /\ Running => ChainPlays
    /\ ahead[1] = "sync" /\ ahead[2] = "apply" =>
           IF Running THEN service.curve => ChainPlays ELSE ~service.curve => Bare
    /\ ahead[1] = "apply" => IF Running THEN ChainPlays ELSE Bare

\* After: the sound is where it was chosen to be, save for a device or target
\* that is to come, and as loud, save for a volume that is to come.
Late ==
    /\ Plain => IF Running
                THEN ChainPlays /\ (ahead[1] # "target" => Aimed)
                ELSE Bare /\ (ahead[1] # "device" /\ service.output # None => host.default = service.output)
    /\ Plain /\ ahead[1] # "volume" /\ ahead[2] # "volume" => Loud
    /\ ahead[1] \in {"device", "target"} /\ ahead[2] = "end" => ~(config.volume # None /\ NoneAsks)
    /\ ahead[1] \in {"remember", "start"} \/ (ahead[1] = "handback" /\ Undoing) => Placed /\ Loud
    /\ ahead[1] = "remember" => config.hostDefault = None
    /\ (ahead[1] = "start" \/ (ahead[1] = "handback" /\ Undoing)) /\ service.output = None =>
           config.hostDefault = host.default
    /\ ahead[1] = "failed" \/ (ahead[1] = "forget" /\ Undoing) => Loud

Sound == IF After THEN Late ELSE Early

\* All that holds beside it.
Before == TypeInv /\ ChainInv /\ StateInv /\ (lost \/ (Choice /\ PlaceInv))

LEMMA HeardIs ==
    ASSUME TypeInv
    PROVE  /\ host.default # Chain => Heard = host.default
           /\ ChainPlays /\ host.target # None => Heard = host.target
  <1>1. Chain \notin Device /\ None \notin Device /\ None # Chain
    BY ConstantsAssumption
  <1>2. host.default \in Device \cup {Chain} /\ host.target \in Device \cup {None}
    BY DEF TypeInv, ValueInv, HostType
  <1> QED BY <1>1, <1>2 DEF Heard, ChainPlays

\* Where nothing moves it, the sound stays as it is.
LEMMA LoudStays ==
    ASSUME NoneAsks' => NoneAsks, config'.volume = config.volume, service'.volume = service.volume,
           host'.default = host.default, host'.volume = host.volume, failed' = failed,
           host.default # Chain \/ (host'.chain = host.chain /\ host'.target = host.target), Loud
    PROVE  Loud'
  <1>1. Heard' = Heard
    BY DEF Heard
  <1> QED BY <1>1 DEF Loud

\* Without the chain the volume is set on the output that is heard; with it on
\* the target, which is the output that is heard where the chain was told.
LEMMA VolumeIsHeard ==
    ASSUME TypeInv, NEW volume \in Volume, SetVolume(volume), service'.volume = volume,
           \/ ~Running /\ host.default # Chain
           \/ ChainPlays /\ Aimed /\ Choice
    PROVE  Loud'
  <1>1. /\ ConfigType /\ ServiceType /\ HostType
        /\ Heard \in Device /\ Target \in Device \cup {None} /\ None \notin Device
    BY OutputsAreDevices DEF TypeInv, ValueInv
  <1>2. /\ host'.default = host.default /\ host'.chain = host.chain /\ host'.target = host.target
        /\ \/ failed' = failed \cup {"volume"}
           \/ /\ failed' = failed \ {"volume"}
              /\ CASE Running /\ Target # None -> host'.volume = [host.volume EXCEPT ![Target] = volume]
                   [] host.default = Chain /\ host.chain /\ Target = None -> host' = host
                   [] OTHER -> host'.volume = [host.volume EXCEPT ![Heard] = volume]
    BY <1>1, VolumeIsSet
  <1>3. Heard' = Heard
    BY <1>2 DEF Heard
  <1>4. ChainPlays /\ Choice => Target # None
    BY DEF ChainPlays, Choice, Target
  <1>5. ASSUME failed' = {} PROVE host'.volume = [host.volume EXCEPT ![Heard] = volume]
    <2>0. /\ "target" \notin failed
          /\ CASE Running /\ Target # None -> host'.volume = [host.volume EXCEPT ![Target] = volume]
               [] host.default = Chain /\ host.chain /\ Target = None -> host' = host
               [] OTHER -> host'.volume = [host.volume EXCEPT ![Heard] = volume]
      <3>1. failed' # failed \cup {"volume"}
        BY <1>5
      <3>2. failed' = failed \ {"volume"}
        BY <1>2, <3>1
      <3> QED BY <1>2, <1>5, <3>1, <3>2
    <2>1. CASE ~Running /\ host.default # Chain
      BY <2>0, <2>1
    <2>2. CASE ChainPlays /\ Aimed /\ Choice
      <3>1. Heard = Target /\ Target # None /\ Running
        BY <1>4, <2>0, <2>2, HeardIs DEF ChainPlays, Aimed
      <3> QED BY <2>0, <3>1
    <2> QED BY <2>1, <2>2
  <1>6. failed' = {} => host'.volume[Heard] = volume
    BY <1>1, <1>5 DEF HostType
  <1> QED BY <1>3, <1>6 DEF Loud

LEMMA StillAsks ==
    ASSUME TypeInv, UNCHANGED queue, job' = job \/ (job' = [job EXCEPT ![lock.owner] = NoJob] /\ lock.owner \in Task)
    PROVE  NoneAsks' <=> NoneAsks
  <1>1. \A i \in 1..Len(queue) : job'[queue[i]] = job[queue[i]]
    <2> SUFFICES ASSUME NEW i \in 1..Len(queue) PROVE job'[queue[i]] = job[queue[i]]
      OBVIOUS
    <2>1. queue[i] \in Task /\ queue[i] # lock.owner
      BY DEF TypeInv, TaskInv, QueueInv
    <2> QED BY <2>1 DEF TypeInv, TaskInv, JobType
  <1>2. \A i \in 1..Len(queue) : Asks(i)' <=> Asks(i)
    BY <1>1 DEF Asks
  <1> QED BY <1>2 DEF NoneAsks

\* A holder's step leaves the phase where it is with respect to the first start.
LEMMA AfterStays ==
    ASSUME TypeInv, NEW step, ahead[1] = step, step # "end", Continues, lock.owner \in Task,
           (Comes("apply")' <=> Comes("apply")), ahead'[1] = "end" => ~Comes("apply")
    PROVE  After' <=> After
  <1>1. /\ job[Main].kind = "start" <=> phase = "starting"
        /\ \A t \in Request : job[t].kind # "start"
        /\ lock.owner = Main \/ lock.owner \in Request
    BY NoJobType DEF TypeInv, TaskInv, PhaseInv, JobType, Task
  <1>2. Main \notin Request /\ None # Main
    BY ConstantsAssumption
  <1>3. CASE ahead'[1] # "end"
    BY <1>3 DEF Continues, After
  <1>4. CASE ahead'[1] = "end"
    <2>1. lock'.owner = None /\ ~Comes("apply") /\ ~Comes("apply")'
          /\ phase' = IF job[lock.owner].kind # "start" THEN phase ELSE IF config.volume = None THEN "adopting" ELSE "ready"
      BY <1>4 DEF Continues, Free
    <2>2. CASE lock.owner = Main
      BY <1>1, <1>2, <2>1, <2>2 DEF After
    <2>3. CASE lock.owner \in Request
      BY <1>1, <1>2, <2>1, <2>3 DEF After
    <2> QED BY <1>1, <2>2, <2>3
  <1> QED BY <1>3, <1>4

LEMMA RestAfter ==
    ASSUME TypeInv, NEW step, At(step), Go(Rest), UNCHANGED queue, step # "apply", TypeInv'
    PROVE  (After' <=> After) /\ (NoneAsks' <=> NoneAsks)
  <1>1. /\ ahead[1] = step /\ Continues /\ lock.owner \in Task
        /\ ahead'[1] = ahead[2] /\ ahead'[2] = ahead[3] /\ ahead'[3] = ahead[4] /\ ahead'[4] = ahead[5]
        /\ ahead[2] \in Follow(ahead[1]) /\ ahead[3] \in Follow(ahead[2])
        /\ ahead[4] \in Follow(ahead[3]) /\ ahead[5] \in Follow(ahead[4])
    BY RestAhead
  <1>2. ahead'[5] = ahead[6]
    BY RestStep DEF TypeInv
  <1>3. PlanInv /\ PlanInv'
    BY DEF TypeInv, TaskInv
  <1>4. ahead[6] = "end"
    BY <1>3, ComesNow
  <1>5. Comes("apply")' <=> Comes("apply")
    BY <1>1, <1>2, <1>3, <1>4, ComesNow, ComesNext
  <1>6. ahead'[1] = "end" => ~Comes("apply")
    BY <1>1, <1>3, ComesNow DEF Follow
  <1>7. step # "end"
    BY <1>3, AheadOf, AtIs DEF PlanInv
  <1>8. After' <=> After
    BY <1>1, <1>5, <1>6, <1>7, AfterStays
  <1>9. job' = job \/ (job' = [job EXCEPT ![lock.owner] = NoJob] /\ lock.owner \in Task)
    BY <1>1 DEF Continues
  <1> QED BY <1>8, <1>9, StillAsks

\* Unless something went wrong.
Spoilt == cut \/ lost \/ gone

\* The steps that set the device, the volume and the target, and the last two
\* of bringing the chain in.
LEMMA ToneSounds ==
    ASSUME Before, Spoilt \/ Sound, DoDevice \/ DoVolume \/ DoTarget \/ DoTakeover \/ DoOn, TypeInv'
    PROVE  Spoilt' \/ Sound'
  <1> USE DEF rest, bounds
  <1>0. /\ ConfigType /\ ServiceType /\ HostType /\ FlagType /\ TaskInv /\ PlanInv /\ PlanInv' /\ NothingEarly /\ JobType
        /\ Chain \notin Device /\ TypeInv /\ ChainInv /\ (lost \/ (Choice /\ PlaceInv))
        /\ Target \in Device \cup {None} /\ None \notin Device
    BY OutputsAreDevices, ConstantsAssumption DEF TypeInv, ValueInv, TaskInv, Before
  <1>1. ASSUME NEW step, At(step), Go(Rest), UNCHANGED queue, step # "apply"
        PROVE  /\ (After' <=> After) /\ (NoneAsks' <=> NoneAsks)
               /\ ahead[1] = step /\ ahead'[1] = ahead[2] /\ ahead'[2] = ahead[3]
               /\ ahead[2] \in Follow(ahead[1]) /\ ahead[3] \in Follow(ahead[2]) /\ lock.owner \in Task
    BY <1>0, <1>1, RestAhead, RestAfter
  <1>2. CASE DoDevice
    <2>1. /\ (After' <=> After) /\ (NoneAsks' <=> NoneAsks)
          /\ ahead[1] = "device" /\ ahead'[1] = ahead[2] /\ ahead'[2] = ahead[3]
          /\ ahead[2] \in {"volume", "end"} /\ ahead[3] = "end" /\ ~Running
      <3>1. /\ (After' <=> After) /\ (NoneAsks' <=> NoneAsks)
            /\ ahead[1] = "device" /\ ahead'[1] = ahead[2] /\ ahead'[2] = ahead[3]
            /\ ahead[2] \in Follow(ahead[1]) /\ ahead[3] \in Follow(ahead[2])
        BY <1>1, <1>2 DEF DoDevice
      <3> QED BY <1>0, <3>1 DEF Follow, ChainInv
    <2>2. service.output \in Device
      <3>1. Comes("device")
        BY <2>1 DEF Comes
      <3> QED BY <1>0, <3>1 DEF NothingEarly, ServiceType
    <2>3. lost' \/ host'.default = service.output
      BY <1>0, <1>2, <2>2, DefaultIsSet DEF DoDevice
    <2>4. (lost => lost') /\ UNCHANGED <<cut, gone, failed, service, config>>
      BY <1>0, <1>2, <2>2, DefaultIsSet DEF DoDevice
    <2>5. ASSUME ~Spoilt', Sound, ~After PROVE Early'
      BY <2>1, <2>4 DEF Early, Running
    <2>6. ASSUME ~Spoilt', Sound, After PROVE Late'
      <3>1. Late /\ host'.default = service.output
        BY <2>3, <2>6 DEF Sound, Spoilt
      <3>2. Bare' /\ ~Running'
        BY <1>0, <2>1, <2>2, <2>4, <3>1 DEF Late, Plain, Bare, Running
      <3>3. ahead'[1] # "volume" => Loud'
        BY <2>1, <2>4, <3>1 DEF Late, Loud
      <3> QED BY <2>1, <2>4, <3>1, <3>2, <3>3 DEF Late
    <2> QED BY <2>1, <2>4, <2>5, <2>6 DEF Sound, Spoilt
  <1>3. CASE DoVolume
    <2> DEFINE volume == IF job[lock.owner].kind = "audio" THEN job[lock.owner].volume ELSE service.volume
    <2>1. /\ (After' <=> After) /\ (NoneAsks' <=> NoneAsks)
          /\ ahead[1] = "volume" /\ ahead'[1] = "end" /\ ahead'[2] = "end" /\ lock.owner \in Task
      <3>1. /\ (After' <=> After) /\ (NoneAsks' <=> NoneAsks)
            /\ ahead[1] = "volume" /\ ahead'[1] = ahead[2] /\ ahead'[2] = ahead[3] /\ lock.owner \in Task
            /\ ahead[2] \in Follow(ahead[1]) /\ ahead[3] \in Follow(ahead[2])
        BY <1>1, <1>3 DEF DoVolume
      <3> QED BY <3>1 DEF Follow
    <2>2. volume \in Volume
      BY <1>0, <2>1 DEF JobType, ServiceType
    <2>3. SetVolume(volume) /\ service' = [service EXCEPT !.volume = volume] /\ UNCHANGED <<config, lost, cut, gone>>
      BY <1>3 DEF DoVolume
    <2> HIDE DEF volume
    <2>4. service'.volume = volume /\ service'.output = service.output /\ service'.chain = service.chain
      BY <1>0, <2>3 DEF ServiceType
    <2>5. host'.default = host.default /\ host'.chain = host.chain /\ host'.target = host.target
      BY <1>0, <2>2, <2>3, VolumeIsSet
    <2>6. ASSUME Sound, ~After PROVE Early'
      BY <2>1, <2>4, <2>5, <2>6 DEF Sound, Early, Running, ChainPlays, Plain
    <2>7. ASSUME ~lost, Sound, After PROVE Late'
      <3>1. IF Running THEN ChainPlays /\ Aimed
            ELSE Bare /\ (service.output # None => host.default = service.output)
        BY <2>1, <2>7 DEF Sound, Late, Plain
      <3>2. Loud'
        BY <1>0, <2>2, <2>3, <2>4, <2>7, <3>1, VolumeIsHeard DEF Bare
      <3>3. IF Running' THEN ChainPlays' /\ Aimed'
            ELSE Bare' /\ (service'.output # None => host'.default = service'.output)
        <4>1. "target" \in failed' <=> "target" \in failed
          <5>1. failed' = failed \cup {"volume"} \/ failed' = failed \ {"volume"}
            BY <1>0, <2>2, <2>3, VolumeIsSet
          <5> QED BY <5>1
        <4> QED BY <2>3, <2>4, <2>5, <3>1, <4>1 DEF Running, ChainPlays, Bare, Target, Aimed
      <3> QED BY <2>1, <3>2, <3>3 DEF Late
    <2> QED BY <2>1, <2>3, <2>6, <2>7 DEF Sound, Spoilt
  <1>4. CASE DoTarget
    <2>1. /\ (After' <=> After) /\ (NoneAsks' <=> NoneAsks)
          /\ ahead[1] = "target" /\ ahead'[1] = ahead[2] /\ ahead'[2] = ahead[3]
          /\ ahead[2] \in {"takeover", "volume", "end"} /\ ahead[3] \in {"on", "end"}
      <3>1. /\ (After' <=> After) /\ (NoneAsks' <=> NoneAsks)
            /\ ahead[1] = "target" /\ ahead'[1] = ahead[2] /\ ahead'[2] = ahead[3]
            /\ ahead[2] \in Follow(ahead[1]) /\ ahead[3] \in Follow(ahead[2])
        BY <1>1, <1>4 DEF DoTarget
      <3> QED BY <3>1 DEF Follow
    <2>2. /\ host'.default = host.default /\ host'.chain = host.chain
          /\ "target" \in failed' \/ (host.chain => host'.target = Target)
          /\ UNCHANGED <<service, config, lost, cut, gone>>
      BY <1>0, <1>4, TargetIsSet
    <2>3. CASE ahead[2] = "takeover"
      <3>1. Early' /\ Late'
        BY <2>1, <2>3 DEF Early, Late, Plain
      <3> QED BY <3>1 DEF Sound
    <2>4. ASSUME ahead[2] # "takeover", Sound, ~After PROVE Early'
      BY <2>1, <2>2, <2>4 DEF Sound, Early, Running, ChainPlays, Plain
    <2>5. ASSUME ahead[2] # "takeover", Sound, After PROVE Late'
      <3>1. /\ IF Running THEN ChainPlays ELSE Bare /\ (service.output # None => host.default = service.output)
            /\ ahead[2] = "end" => ~(config.volume # None /\ NoneAsks)
        BY <2>1, <2>5 DEF Sound, Late, Plain
      <3>2. IF Running' THEN ChainPlays' /\ Aimed'
            ELSE Bare' /\ (service'.output # None => host'.default = service'.output)
        BY <2>2, <3>1 DEF Running, ChainPlays, Bare, Target, Aimed
      <3>3. ahead'[1] # "volume" => Loud'
        BY <2>1, <2>2, <2>5, <3>1 DEF Loud
      <3>4. ahead'[1] \in {"volume", "end"}
        BY <2>1, <2>5
      <3> QED BY <3>2, <3>3, <3>4 DEF Late
    <2> QED BY <2>1, <2>2, <2>3, <2>4, <2>5 DEF Sound, Spoilt
  <1>5. CASE DoTakeover
    <2>1. ahead'[1] = "on" /\ ahead'[2] \in {"apply", "end"}
      <3>1. /\ ahead[1] = "takeover" /\ ahead'[1] = ahead[2] /\ ahead'[2] = ahead[3]
            /\ ahead[2] \in Follow(ahead[1]) /\ ahead[3] \in Follow(ahead[2])
        BY <1>1, <1>5 DEF DoTakeover
      <3> QED BY <3>1 DEF Follow
    <2>2. Early' /\ Late'
      BY <2>1 DEF Early, Late, Plain
    <2> QED BY <2>2 DEF Sound
  <1>6. CASE DoOn
    <2>1. /\ (After' <=> After) /\ (NoneAsks' <=> NoneAsks)
          /\ ahead[1] = "on" /\ ahead'[1] \in {"apply", "end"} /\ ahead'[2] = "end"
      <3>1. /\ (After' <=> After) /\ (NoneAsks' <=> NoneAsks)
            /\ ahead[1] = "on" /\ ahead'[1] = ahead[2] /\ ahead'[2] = ahead[3]
            /\ ahead[2] \in Follow(ahead[1]) /\ ahead[3] \in Follow(ahead[2])
        BY <1>1, <1>6 DEF DoOn
      <3> QED BY <3>1 DEF Follow
    <2>2. /\ SetVolume(service.volume) /\ service.volume \in Volume /\ service'.volume = service.volume
          /\ service'.output = service.output /\ service'.chain = service.chain
          /\ gone' = ~host.chain /\ UNCHANGED <<config, lost, cut>>
      BY <1>0, <1>6 DEF DoOn, ServiceType
    <2>3. host'.default = host.default /\ host'.chain = host.chain /\ host'.target = host.target
      BY <1>0, <2>2, VolumeIsSet
    <2>4. ASSUME ~Spoilt' PROVE ChainPlays /\ Aimed /\ Choice
      BY <1>0, <2>1, <2>2, <2>4 DEF Spoilt, ChainInv, PlaceInv, ChainPlays, Aimed
    <2>5. ASSUME ~Spoilt' PROVE ChainPlays' /\ Aimed' /\ Running' /\ Loud'
      <3>1. Loud'
        BY <1>0, <2>2, <2>4, <2>5, VolumeIsHeard
      <3>2. "target" \in failed' <=> "target" \in failed
        <4>1. failed' = failed \cup {"volume"} \/ failed' = failed \ {"volume"}
          BY <1>0, <2>2, VolumeIsSet
        <4> QED BY <4>1
      <3> QED BY <2>2, <2>3, <2>4, <2>5, <3>1, <3>2 DEF ChainPlays, Running, Target, Aimed
    <2> QED BY <2>1, <2>5 DEF Sound, Early, Late, Plain
  <1> QED BY <1>2, <1>3, <1>4, <1>5, <1>6

\* A step that goes on with the rest of the plan: what was ahead comes next.
LEMMA PlainStep ==
    ASSUME Before, NEW step, At(step), Go(Rest), UNCHANGED queue, step # "apply", TypeInv'
    PROVE  /\ (After' <=> After) /\ (NoneAsks' <=> NoneAsks)
           /\ ahead[1] = step /\ ahead'[1] = ahead[2] /\ ahead'[2] = ahead[3] /\ ahead'[3] = ahead[4]
           /\ ahead[2] \in Follow(ahead[1]) /\ ahead[3] \in Follow(ahead[2]) /\ ahead[4] \in Follow(ahead[3])
  BY RestAhead, RestAfter DEF Before

\* The chain is started where the output it replaces is the one heard.
LEMMA StartSounds ==
    ASSUME Before, Spoilt \/ Sound, DoRemember \/ DoStart, TypeInv'
    PROVE  Spoilt' \/ Sound'
  <1> USE DEF rest, bounds
  <1>0. /\ ConfigType /\ ServiceType /\ HostType /\ FlagType /\ TaskInv /\ PlanInv /\ PlanInv' /\ JobType
        /\ Chain \notin Device /\ TypeInv /\ ChainInv
        /\ Heard \in Device /\ Target \in Device \cup {None} /\ None \notin Device
    BY OutputsAreDevices, ConstantsAssumption DEF TypeInv, ValueInv, TaskInv, Before
  <1>1. CASE DoRemember
    <2>1. /\ (After' <=> After) /\ (NoneAsks' <=> NoneAsks)
          /\ ahead[1] = "remember" /\ ahead'[1] = "start"
      <3>1. /\ (After' <=> After) /\ (NoneAsks' <=> NoneAsks)
            /\ ahead[1] = "remember" /\ ahead'[1] = ahead[2] /\ ahead[2] \in Follow(ahead[1])
        BY <1>1, PlainStep DEF DoRemember
      <3> QED BY <3>1 DEF Follow
    <2>2. UNCHANGED <<service, host, cut, gone, failed>>
      BY <1>1 DEF DoRemember
    <2>3. /\ lost => lost'
          /\ config'.volume = config.volume
          /\ \/ lost' \/ config.hostDefault # None
             \/ config'.hostDefault = Heard
      <3>1. CASE config.hostDefault # None /\ UNCHANGED <<config, lost>>
        BY <3>1
      <3>2. CASE Keep(Heard)
        BY <1>0, <3>2, ValueIsKept DEF ConfigType
      <3>3. CASE lost' = TRUE /\ UNCHANGED config
        BY <3>3
      <3> QED BY <1>1, <3>1, <3>2, <3>3 DEF DoRemember
    <2>4. Early'
      BY <2>1 DEF Early, Plain
    <2>5. ASSUME ~Spoilt', Sound, After PROVE Late'
      <3>1. Placed /\ Loud /\ config.hostDefault = None
        BY <2>1, <2>5 DEF Sound, Late
      <3>2. Placed' /\ Loud'
        BY <2>1, <2>2, <2>3, <3>1, LoudStays DEF Placed
      <3>3. config'.hostDefault = host'.default
        BY <1>0, <2>2, <2>3, <2>5, <3>1, HeardIs DEF Placed, Spoilt
      <3> QED BY <2>1, <3>2, <3>3 DEF Late, Plain
    <2> QED BY <2>1, <2>2, <2>3, <2>4, <2>5 DEF Sound, Spoilt
  <1>2. CASE DoStart
    <2>1. ahead[1] = "start" /\ lock.owner \in Task /\ service.chain # "running" /\ UNCHANGED <<config, lost, cut, gone, failed, queue>>
      BY <1>0, <1>2, AtIs DEF DoStart, ChainInv, Running
    <2>2. ASSUME ~Spoilt', Sound, After
          PROVE  Placed /\ Loud /\ (service.output = None => config.hostDefault = host.default)
      BY <2>1, <2>2 DEF Spoilt, Sound, Late
    <2>3. CASE /\ service' = [service EXCEPT !.chain = "started"]
               /\ host' = [host EXCEPT !.chain = FALSE]
               /\ UNCHANGED <<lock, job, phase>>
      <3>1. ahead' = ahead
        BY <2>3 DEF ahead
      <3>2. /\ (After' <=> After) /\ (NoneAsks' <=> NoneAsks)
        BY <1>0, <2>1, <2>3, <3>1, StillAsks DEF After, Comes
      <3>3. Early'
        BY <2>1, <3>1 DEF Early, Plain
      <3>4. /\ service'.output = service.output /\ service'.volume = service.volume
            /\ host'.default = host.default /\ host'.volume = host.volume
        BY <1>0, <2>3 DEF ServiceType, HostType
      <3>5. ASSUME ~Spoilt', Sound, After PROVE Late'
        <4>1. Placed /\ Loud /\ (service.output = None => config.hostDefault = host.default)
          BY <2>2, <3>5
        <4>2. Placed' /\ Loud'
          BY <2>1, <3>2, <3>4, <4>1, LoudStays DEF Placed
        <4> QED BY <2>1, <3>1, <3>4, <4>1, <4>2 DEF Late, Plain
      <3> QED BY <2>1, <3>2, <3>3, <3>5 DEF Sound, Spoilt
    <2>4. CASE Go(<<"target", "takeover", "on">> \o Rest)
      <3>1. PICK first, second, third :
                /\ first = "target" /\ second = "takeover" /\ third = "on"
                /\ Go(<<first, second, third>> \o Rest)
        BY <2>4
      <3>2. ahead'[1] = first /\ ahead'[2] = second
        BY <1>0, <1>2, <2>1, <3>1, StartStep DEF DoStart
      <3>3. ahead'[1] = "target" /\ ahead'[2] = "takeover"
        BY <3>1, <3>2
      <3>4. Early' /\ Late'
        BY <3>3 DEF Early, Late, Plain
      <3> QED BY <3>4 DEF Sound
    <2>5. CASE /\ service' = [service EXCEPT !.chain = "none"] /\ UNCHANGED host
               /\ Go(<<"handback", "forget", "failed">> \o Rest)
      <3>1. PICK first, second, third :
                /\ first = "handback" /\ second = "forget" /\ third = "failed"
                /\ Go(<<first, second, third>> \o Rest)
        BY <2>5
      <3>2. /\ ahead[2] \in {"apply", "end"} /\ ahead[3] = "end"
            /\ ahead'[1] = first /\ ahead'[2] = second /\ ahead'[3] = third /\ ahead'[4] = ahead[2] /\ ahead'[5] = "end"
            /\ UNCHANGED <<job, phase>> /\ lock'.owner = lock.owner
        BY <1>0, <1>2, <2>1, <3>1, StartStep DEF DoStart
      <3>3. ahead'[1] = "handback" /\ ahead'[2] = "forget" /\ ahead'[3] = "failed"
        BY <3>1, <3>2
      <3>4. Comes("apply") <=> ahead[2] = "apply"
        <4>1. ahead[4] = "end" /\ ahead[5] = "end"
          BY <1>0, <3>2 DEF PlanInv, Shape, Follow
        <4> QED BY <1>0, <2>1, <3>2, <4>1, ComesNow
      <3>5. Comes("apply")' <=> ahead[2] = "apply"
        BY <1>0, <3>2, <3>3, ComesNext
      <3>6. (After' <=> After) /\ (NoneAsks' <=> NoneAsks)
        BY <1>0, <2>1, <3>2, <3>4, <3>5, StillAsks DEF After
      <3>7. Early'
        BY <3>3 DEF Early, Plain
      <3>8. service'.output = service.output /\ service'.volume = service.volume
        BY <1>0, <2>5 DEF ServiceType
      <3>9. ASSUME ~Spoilt', Sound, After PROVE Late'
        <4>1. Placed /\ Loud /\ (service.output = None => config.hostDefault = host.default)
          BY <2>2, <3>9
        <4>2. Placed' /\ Loud'
          BY <2>1, <2>5, <3>6, <3>8, <4>1, LoudStays DEF Placed
        <4> QED BY <2>1, <2>5, <3>3, <3>8, <4>1, <4>2 DEF Late, Plain
      <3> QED BY <2>1, <3>6, <3>7, <3>9 DEF Sound, Spoilt
    <2> QED BY <1>2, <2>3, <2>4, <2>5 DEF DoStart
  <1> QED BY <1>1, <1>2

\* A start that failed is undone, a service that starts hands back, a chain that
\* is stopped leaves the output it was playing into.
LEMMA UndoSounds ==
    ASSUME Before, Spoilt \/ Sound, DoHandback \/ DoForget \/ DoFailed \/ DoStop \/ DoOff, TypeInv'
    PROVE  Spoilt' \/ Sound'
  <1> USE DEF rest, bounds
  <1>0. /\ ConfigType /\ ServiceType /\ HostType /\ FlagType /\ TaskInv /\ PlanInv /\ PlanInv' /\ PhaseInv'
        /\ Chain \notin Device /\ TypeInv /\ ChainInv /\ StateInv /\ (lost \/ (Choice /\ PlaceInv))
        /\ Heard \in Device /\ Target \in Device \cup {None} /\ None \notin Device
    BY OutputsAreDevices, ConstantsAssumption DEF TypeInv, ValueInv, TaskInv, Before
  <1>1. ASSUME ~Running', Placed', config'.hostDefault = None, ahead'[1] = "end" \/ (ahead'[1] = "apply" /\ ~After'),
               ahead'[1] = "end" /\ After' => Loud'
        PROVE  Sound'
    BY <1>1 DEF Sound, Early, Late, Plain, Placed, Bare, Running
  <1>2. (ahead'[1] = "apply" \/ ahead'[3] = "apply" \/ ahead'[2] = "apply") => ~After'
    <2>1. ahead'[1] = "apply" \/ ahead'[2] = "apply" \/ ahead'[3] = "apply" => Comes("apply")'
      BY <1>0, ComesNext
    <2>2. Comes("apply")' => phase' = "starting"
      BY <1>0 DEF PhaseInv
    <2> QED BY <2>1, <2>2 DEF After
  <1>3. CASE DoHandback
    <2>1. /\ (After' <=> After) /\ (NoneAsks' <=> NoneAsks)
          /\ ahead[1] = "handback" /\ ahead'[1] = "forget" /\ ahead'[2] = ahead[3]
      <3>1. /\ (After' <=> After) /\ (NoneAsks' <=> NoneAsks)
            /\ ahead[1] = "handback" /\ ahead'[1] = ahead[2] /\ ahead'[2] = ahead[3] /\ ahead[2] \in Follow(ahead[1])
        BY <1>3, PlainStep DEF DoHandback
      <3> QED BY <3>1 DEF Follow
    <2>2. (lost => lost') /\ UNCHANGED <<config, service, cut, gone, failed>>
      BY <1>0, <1>3, DefaultIsSet DEF DoHandback
    <2>3. lost' \/ (Target = None /\ host' = host) \/ (Target # None /\ host'.default = Target)
      BY <1>0, <1>3, DefaultIsSet DEF DoHandback
    <2>4. host'.chain = host.chain /\ host'.target = host.target /\ host'.volume = host.volume
      BY <1>0, <1>3, DefaultIsSet DEF DoHandback
    <2>5. Early'
      BY <2>1 DEF Early, Plain
    <2>6. ASSUME ~Spoilt', Sound, After, Undoing' PROVE Loud'
      <3>1. Undoing
        BY <2>1, <2>6 DEF Undoing
      <3>2. Placed /\ Loud /\ (service.output = None => config.hostDefault = host.default)
        BY <2>1, <2>6, <3>1 DEF Sound, Late
      <3>3. Target = None \/ Target = host.default
        BY <3>2 DEF Placed, Target
      <3>4. host'.default = host.default
        BY <2>3, <2>6, <3>3 DEF Spoilt
      <3> QED BY <2>1, <2>2, <2>4, <3>2, <3>4, LoudStays DEF Placed
    <2>7. ASSUME ~Spoilt', Sound, After PROVE Late'
      BY <2>1, <2>6, <2>7 DEF Late, Plain
    <2> QED BY <2>1, <2>2, <2>5, <2>7 DEF Sound, Spoilt
  <1>4. CASE DoForget
    <2>1. /\ (After' <=> After) /\ (NoneAsks' <=> NoneAsks)
          /\ ahead[1] = "forget" /\ ahead'[1] = ahead[2] /\ ahead'[2] = ahead[3] /\ ahead'[3] = ahead[4]
          /\ ahead[2] \in {"sync", "stop", "failed"} /\ ahead[3] \in Follow(ahead[2]) /\ ahead[4] \in Follow(ahead[3])
      <3>1. /\ (After' <=> After) /\ (NoneAsks' <=> NoneAsks)
            /\ ahead[1] = "forget" /\ ahead'[1] = ahead[2] /\ ahead'[2] = ahead[3] /\ ahead'[3] = ahead[4]
            /\ ahead[2] \in Follow(ahead[1]) /\ ahead[3] \in Follow(ahead[2]) /\ ahead[4] \in Follow(ahead[3])
        BY <1>4, PlainStep DEF DoForget
      <3> QED BY <3>1 DEF Follow
    <2>2. /\ (lost => lost') /\ config'.volume = config.volume /\ config'.hostDefault = None
          /\ UNCHANGED <<host, service, cut, gone, failed>>
      BY <1>0, <1>4, ValueIsKept DEF DoForget, ConfigType
    <2>3. CASE ahead[2] = "stop"
      <3>1. Early' /\ Late'
        BY <2>1, <2>3 DEF Early, Late, Plain, Undoing
      <3> QED BY <3>1 DEF Sound
    <2>4. CASE ahead[2] = "failed"
      <3>1. Early'
        BY <2>1, <2>4 DEF Early, Plain
      <3>2. ASSUME ~Spoilt', Sound, After PROVE Late'
        <4>1. Loud
          BY <2>1, <2>4, <3>2 DEF Sound, Late, Undoing
        <4>2. Loud'
          BY <2>1, <2>2, <4>1, LoudStays
        <4> QED BY <2>1, <2>4, <4>2 DEF Late, Plain, Undoing
      <3> QED BY <2>1, <2>2, <3>1, <3>2 DEF Sound, Spoilt
    <2>5. CASE ahead[2] = "sync"
      <3>1. ~service.curve /\ ahead[3] = "apply"
        BY <1>0, <2>1, <2>5 DEF ChainInv, Returning, Follow
      <3>2. ~After'
        BY <1>2, <2>1, <3>1
      <3>3. ASSUME ~lost' PROVE Bare'
        BY <1>0, <2>1, <2>2, <3>3 DEF Choice, Bare
      <3>4. ASSUME ~lost' PROVE Early'
        BY <2>1, <2>2, <2>5, <3>1, <3>3, <3>4 DEF Early, Plain
      <3> QED BY <3>2, <3>4 DEF Sound, Spoilt
    <2> QED BY <2>1, <2>3, <2>4, <2>5
  <1>5. CASE DoFailed
    <2>1. /\ (After' <=> After) /\ (NoneAsks' <=> NoneAsks)
          /\ ahead[1] = "failed" /\ ahead'[1] = ahead[2] /\ ahead[2] \in {"apply", "end"}
      <3>1. /\ (After' <=> After) /\ (NoneAsks' <=> NoneAsks)
            /\ ahead[1] = "failed" /\ ahead'[1] = ahead[2] /\ ahead[2] \in Follow(ahead[1])
        BY <1>5, PlainStep DEF DoFailed
      <3> QED BY <3>1 DEF Follow
    <2>2. /\ UNCHANGED <<config, host, lost, cut, gone, failed>> /\ service'.output = service.output
          /\ service'.volume = service.volume /\ service'.chain = service.chain
      BY <1>0, <1>5 DEF DoFailed, ServiceType
    <2>3. service.chain = "none"
      BY <1>0, <2>1 DEF ChainInv
    <2>4. ASSUME ~Spoilt', Spoilt \/ Sound PROVE Sound'
      <3>1. Placed /\ config.hostDefault = None /\ Sound
        BY <1>0, <2>1, <2>2, <2>4 DEF PlaceInv, Spoilt
      <3>2. ~Running' /\ Placed' /\ config'.hostDefault = None
        BY <2>2, <2>3, <3>1 DEF Placed, Running
      <3>3. After' => Loud'
        <4>1. After => Loud
          BY <2>1, <3>1 DEF Sound, Late
        <4> QED BY <2>1, <2>2, <3>1, <4>1, LoudStays
      <3> QED BY <1>1, <1>2, <2>1, <3>2, <3>3
    <2> QED BY <2>4
  <1>6. CASE DoStop
    <2>1. ahead[1] = "stop" /\ ahead'[1] = ahead[2] /\ ahead[2] \in {"off", "sync"}
      <3>1. ahead[1] = "stop" /\ ahead'[1] = ahead[2] /\ ahead[2] \in Follow(ahead[1])
        BY <1>6, PlainStep DEF DoStop
      <3> QED BY <3>1 DEF Follow
    <2>2. CASE ahead[2] = "off"
      <3>1. Early' /\ Late'
        BY <2>1, <2>2 DEF Early, Late, Plain
      <3> QED BY <3>1 DEF Sound
    <2>3. CASE ahead[2] = "sync"
      <3>1. cut \/ gone
        BY <1>0, <2>1, <2>3 DEF StateInv
      <3>2. UNCHANGED <<cut, gone>>
        BY <1>6 DEF DoStop
      <3> QED BY <3>1, <3>2 DEF Spoilt
    <2> QED BY <2>1, <2>2, <2>3
  <1>7. CASE DoOff
    <2>1. ahead[1] = "off" /\ ahead'[1] = ahead[2] /\ ahead[2] \in {"apply", "end"}
      <3>1. ahead[1] = "off" /\ ahead'[1] = ahead[2] /\ ahead[2] \in Follow(ahead[1])
        BY <1>7, PlainStep DEF DoOff
      <3> QED BY <3>1 DEF Follow
    <2>2. /\ SetVolume(service.volume) /\ service.volume \in Volume /\ service'.volume = service.volume
          /\ service'.output = service.output /\ service'.chain = service.chain
          /\ UNCHANGED <<config, lost, cut>>
      BY <1>0, <1>7 DEF DoOff, ServiceType
    <2>3. host'.default = host.default
      BY <1>0, <2>2, VolumeIsSet
    <2>4. service.chain = "none"
      BY <1>0, <2>1 DEF ChainInv
    <2>5. ASSUME ~lost PROVE Sound'
      <3>1. Placed /\ config.hostDefault = None
        BY <1>0, <2>1, <2>5 DEF PlaceInv
      <3>2. ~Running' /\ Placed' /\ config'.hostDefault = None
        BY <2>2, <2>3, <2>4, <3>1 DEF Placed, Running
      <3>3. Loud'
        BY <1>0, <2>2, <2>4, <3>1, VolumeIsHeard DEF Placed, Running
      <3> QED BY <1>1, <1>2, <2>1, <3>2, <3>3
    <2> QED BY <2>2, <2>5 DEF Spoilt
  <1> QED BY <1>3, <1>4, <1>5, <1>6, <1>7

\* What is decided when it is reached is decided on what is heard then.
LEMMA SyncSounds ==
    ASSUME Before, Spoilt \/ Sound, DoSync \/ DoApply, TypeInv'
    PROVE  Spoilt' \/ Sound'
  <1> USE DEF rest, bounds
  <1>0. /\ ConfigType /\ ServiceType /\ HostType /\ TaskInv /\ PlanInv /\ PlanInv' /\ PhaseInv /\ PhaseInv' /\ TypeInv
        /\ JobType
    BY DEF TypeInv, ValueInv, TaskInv, Before
  <1>1. CASE DoSync
    <2>1. /\ Continues /\ ahead[1] = "sync" /\ lock.owner \in Task
          /\ ahead[2] \in {"apply", "end"} /\ ahead[3] = "end"
          /\ \/ /\ service.curve /\ ~Running
                /\ ahead'[1] = "remember" /\ ahead'[2] = "start" /\ ahead'[3] = ahead[2] /\ ahead'[4] = "end"
             \/ /\ ~service.curve /\ Running
                /\ ahead'[1] = "handback" /\ ahead'[2] = "forget" /\ ahead'[3] = "stop"
                /\ ahead'[4] = "off" /\ ahead'[5] = ahead[2] /\ ahead'[6] = "end"
             \/ /\ service.curve <=> Running
                /\ ahead'[1] = ahead[2] /\ ahead'[2] = "end"
      BY <1>0, <1>1, SyncStep DEF DoSync
    <2>2. /\ UNCHANGED <<config, host, lost, cut, gone, failed, queue>> /\ service'.output = service.output
          /\ service'.volume = service.volume /\ service'.chain = service.chain /\ service'.curve = service.curve
      BY <1>0, <1>1 DEF DoSync, ServiceType
    <2>3. Comes("apply") <=> ahead[2] = "apply"
      <3>1. ahead[4] = "end" /\ ahead[5] = "end"
        BY <1>0, <2>1 DEF PlanInv, Shape, Follow
      <3> QED BY <1>0, <2>1, <3>1, ComesNow
    <2>4. Comes("apply")' <=> ahead[2] = "apply"
      <3>1. CASE ahead'[1] = "remember"
        <4>1. ahead'[2] = "start" /\ ahead'[3] = ahead[2] /\ ahead'[4] = "end" /\ ahead'[5] = "end"
          BY <1>0, <2>1, <3>1 DEF PlanInv, Shape, Follow
        <4> QED BY <1>0, <3>1, <4>1, ComesNext
      <3>2. CASE ahead'[1] = "handback"
        <4>1. ahead'[2] = "forget" /\ ahead'[3] = "stop" /\ ahead'[4] = "off" /\ ahead'[5] = ahead[2]
          BY <2>1, <3>2
        <4> QED BY <1>0, <3>2, <4>1, ComesNext
      <3>3. CASE ahead'[1] = ahead[2]
        <4>1. ahead'[2] = "end" /\ ahead'[3] = "end" /\ ahead'[4] = "end" /\ ahead'[5] = "end"
          BY <1>0, <2>1, <3>3 DEF PlanInv, Shape, Follow
        <4> QED BY <1>0, <2>1, <3>3, <4>1, ComesNext
      <3> QED BY <2>1, <3>1, <3>2, <3>3
    <2>5. (After' <=> After) /\ (NoneAsks' <=> NoneAsks)
      <3>1. ahead'[1] = "end" => ~Comes("apply")
        BY <2>1, <2>3
      <3>2. After' <=> After
        BY <1>0, <2>1, <2>3, <2>4, <3>1, AfterStays
      <3>3. job' = job \/ (job' = [job EXCEPT ![lock.owner] = NoJob] /\ lock.owner \in Task)
        BY <2>1 DEF Continues
      <3> QED BY <1>0, <2>2, <3>2, <3>3, StillAsks
    <2>6. After => ahead[2] = "end"
      BY <1>0, <2>1, <2>3 DEF After, PhaseInv
    <2>7. ASSUME Sound, After
          PROVE  /\ IF Running THEN ChainPlays /\ Aimed
                    ELSE Bare /\ (service.output # None => host.default = service.output)
                 /\ Loud
      BY <2>1, <2>6, <2>7 DEF Sound, Late, Plain
    <2>8. ASSUME Sound, After PROVE Loud'
      <3>1. host'.default = host.default /\ host'.volume = host.volume /\ host'.chain = host.chain /\ host'.target = host.target
        BY <2>2
      <3> QED BY <2>2, <2>5, <2>7, <2>8, <3>1, LoudStays
    <2>9. CASE service.curve /\ ~Running /\ ahead'[1] = "remember"
      <3>1. Early'
        BY <2>9 DEF Early, Plain
      <3>2. ASSUME Sound, After PROVE Late'
        <4>1. Placed' /\ config'.hostDefault = None
          BY <2>2, <2>7, <2>9, <3>2 DEF Placed, Bare
        <4> QED BY <2>8, <2>9, <3>2, <4>1 DEF Late, Plain
      <3> QED BY <2>2, <2>5, <3>1, <3>2 DEF Sound, Spoilt
    <2>10. CASE ahead'[1] = "handback" /\ ahead'[3] = "stop"
      <3>1. Early' /\ Late'
        BY <2>10 DEF Early, Late, Plain, Undoing
      <3> QED BY <3>1 DEF Sound
    <2>11. CASE (service.curve <=> Running) /\ ahead'[1] = ahead[2] /\ ahead'[2] = "end"
      <3>1. (Running' <=> Running) /\ (ChainPlays' <=> ChainPlays) /\ (Bare' <=> Bare) /\ (Aimed' <=> Aimed)
        BY <2>2 DEF Running, ChainPlays, Bare, Target, Aimed
      <3>2. ASSUME Sound, After PROVE Late'
        <4>1. ahead'[1] = "end"
          BY <2>6, <2>11, <3>2
        <4>2. IF Running' THEN ChainPlays' /\ Aimed'
              ELSE Bare' /\ (service'.output # None => host'.default = service'.output)
          BY <2>2, <2>7, <3>1, <3>2
        <4> QED BY <2>8, <3>2, <4>1, <4>2 DEF Late
      <3>3. ASSUME Sound, ~After PROVE Early'
        <4>1. CASE ahead[2] = "end"
          BY <2>1, <2>11, <3>1, <3>3, <4>1 DEF Sound, Early, Plain
        <4>2. CASE ahead[2] = "apply"
          BY <2>1, <2>11, <3>1, <3>3, <4>2 DEF Sound, Early, Plain
        <4> QED BY <2>1, <4>1, <4>2
      <3> QED BY <2>2, <2>5, <3>2, <3>3 DEF Sound, Spoilt
    <2> QED BY <2>1, <2>9, <2>10, <2>11
  <1>2. CASE DoApply
    <2> DEFINE hasVolume == config.volume # None
    <2>1. hasVolume \in BOOLEAN /\ At("apply") /\ Go(ApplyPlan(service.output, TRUE, hasVolume) \o Rest)
          /\ UNCHANGED <<config, service, host, lost, cut, gone, queue>>
      BY <1>2 DEF DoApply
    <2>2. /\ Continues /\ ahead[1] = "apply" /\ lock.owner = Main /\ phase = "starting"
          /\ Applies(service.output, TRUE, hasVolume) /\ ~Comes("apply")'
      <3> HIDE DEF hasVolume
      <3> QED BY <1>0, <2>1, ApplyStep
    <2>3. ~After
      <3>1. Comes("apply")
        BY <2>2 DEF Comes
      <3> QED BY <2>2, <3>1 DEF After
    <2>4. After'
      BY <1>0, <2>2 DEF After, Continues, PhaseInv
    <2>5. ASSUME Sound PROVE Late'
      <3>1. IF Running' THEN ChainPlays' ELSE Bare'
        BY <2>1, <2>2, <2>3, <2>5 DEF Sound, Early, Running, ChainPlays, Bare
      <3>2. /\ ahead'[1] \in {"target", "device", "volume", "end"} /\ ahead'[2] \in {"volume", "end"}
            /\ Running' => ahead'[1] = "target"
            /\ ~Running' /\ service'.output # None => ahead'[1] = "device"
            /\ ahead'[1] # "volume" /\ ahead'[2] # "volume" => config'.volume = None
        BY <2>1, <2>2 DEF Applies, Running
      <3>3. ahead'[1] # "volume" /\ ahead'[2] # "volume" => Loud'
        BY <3>2 DEF Loud
      <3>4. ahead'[1] \in {"device", "target"} /\ ahead'[2] = "end" => ~(config'.volume # None /\ NoneAsks')
        BY <3>2
      <3> QED BY <3>1, <3>2, <3>3, <3>4 DEF Late
    <2> QED BY <2>1, <2>4, <2>5 DEF Sound, Spoilt
  <1> QED BY <1>1, <1>2

\* A write of the device moves the sound before it sets the volume.
LEMMA AudioSounds ==
    ASSUME TypeInv, lock = Free, Sound, NEW t \in Task, BeginAudio(t), TypeInv', UNCHANGED <<config, host, failed>>,
           service'.chain = service.chain
    PROVE  Sound'
  <1>1. ahead[1] = "end" /\ ahead[2] # "volume" /\ Plain /\ (After <=> phase \in {"adopting", "ready"})
    <2>1. ahead[1] = "end" /\ ahead[2] = "end"
      BY FreeEnds
    <2>2. lock.owner = None /\ None # Main
      BY ConstantsAssumption DEF Free
    <2> QED BY <2>1, <2>2 DEF Plain, After
  <1>2. PICK changed \in BOOLEAN : changed = (job[t].output # service.output)
    OBVIOUS
  <1>3. /\ lock'.owner = t /\ phase' = phase /\ service'.output = job[t].output /\ job[t].kind = "audio"
        /\ Applies(job[t].output, changed, TRUE)
    <2>1. Applies(job[t].output, job[t].output # service.output, TRUE) /\ lock'.owner = t /\ phase' = phase
      BY AudioTakes
    <2>2. service'.output = job[t].output /\ job[t].kind = "audio"
      BY DEF BeginAudio, TypeInv, ValueInv, ServiceType
    <2> QED BY <1>2, <2>1, <2>2, Zenon
  <1>4. After' <=> After
    <2>1. phase = "starting" => t # Main
      BY <1>3 DEF TypeInv, TaskInv, PhaseInv
    <2> QED BY <1>1, <1>3, <2>1 DEF After
  <1>5. /\ ahead'[1] \in {"target", "device", "volume"} /\ (ahead'[1] # "volume" => ahead'[2] = "volume")
        /\ Running => (ahead'[1] = "target" \/ ~changed)
        /\ ~Running /\ job[t].output # None => (ahead'[1] = "device" \/ ~changed)
    BY <1>3 DEF Applies
  <1>6. (Running' <=> Running) /\ (ChainPlays' <=> ChainPlays) /\ (Bare' <=> Bare)
    BY DEF Running, ChainPlays, Bare
  <1>7. ASSUME ~After PROVE Early'
    BY <1>1, <1>5, <1>6, <1>7 DEF Sound, Early, Plain
  <1>8. ASSUME After PROVE Late'
    <2>1. IF Running THEN ChainPlays /\ Aimed
          ELSE Bare /\ (service.output # None => host.default = service.output)
      BY <1>1, <1>8 DEF Sound, Late
    <2>2. ~changed => service'.output = service.output /\ (Aimed' <=> Aimed)
      BY <1>2, <1>3 DEF Target, Aimed
    <2>3. IF Running' THEN ChainPlays' /\ (ahead'[1] # "target" => Aimed')
          ELSE Bare' /\ (ahead'[1] # "device" /\ service'.output # None => host'.default = service'.output)
      BY <1>3, <1>5, <1>6, <2>1, <2>2
    <2> QED BY <1>5, <2>3 DEF Late
  <1> QED BY <1>4, <1>7, <1>8 DEF Sound

LEMMA BeginSounds ==
    ASSUME Before, Spoilt \/ Sound, Begin PROVE Spoilt' \/ Sound'
  <1>0. /\ ServiceType /\ TaskInv /\ QueueInv /\ PhaseInv /\ TypeInv /\ StateInv /\ (lost \/ (Choice /\ PlaceInv)) /\ TypeInv'
        /\ PlanInv' /\ lock = Free /\ UNCHANGED <<config, kept, host, cut, lost, gone, failed>>
        /\ service'.chain = service.chain /\ service'.volume = service.volume
    BY BeginOpensNothing DEF Before, TypeInv, ValueInv, TaskInv
  <1>1. /\ ahead[1] = "end" /\ ahead[2] = "end" /\ Plain /\ ~Comes("off") /\ (After <=> phase \in {"adopting", "ready"})
    BY <1>0, FreeEnds, ConstantsAssumption DEF Plain, After, Free
  <1>2. (Running' <=> Running) /\ (ChainPlays' <=> ChainPlays) /\ (Bare' <=> Bare)
    BY <1>0 DEF Running, ChainPlays, Bare
  <1>3. ASSUME Sound, After' <=> After, service'.output = service.output, NoneAsks' <=> NoneAsks,
               ahead'[1] = "end" \/ (ahead'[1] = "sync" /\ ahead'[2] = "end"), ahead'[2] = "end"
        PROVE  Sound'
    <2>1. Aimed' <=> Aimed
      BY <1>0, <1>3 DEF Target, Aimed
    <2>2. Loud => Loud'
      BY <1>0, <1>3, LoudStays
    <2>3. ASSUME ~After PROVE Early'
      BY <1>1, <1>2, <1>3, <2>3 DEF Sound, Early
    <2>4. ASSUME After PROVE Late'
      <3>1. /\ IF Running THEN ChainPlays /\ Aimed
               ELSE Bare /\ (service.output # None => host.default = service.output)
            /\ Loud
        BY <1>1, <1>3, <2>4 DEF Sound, Late
      <3>2. IF Running' THEN ChainPlays' /\ Aimed'
            ELSE Bare' /\ (service'.output # None => host'.default = service'.output)
        BY <1>0, <1>2, <1>3, <2>1, <3>1
      <3> QED BY <1>3, <2>2, <3>1, <3>2 DEF Late
    <2> QED BY <1>3, <2>3, <2>4 DEF Sound
  <1>4. CASE BeginStart
    <2>1. /\ IF ~service.curve /\ config.hostDefault # None
             THEN ahead'[1] = "handback" /\ ahead'[2] = "forget" /\ ahead'[3] = "sync" /\ ahead'[4] = "apply"
             ELSE ahead'[1] = "sync" /\ ahead'[2] = "apply" /\ ahead'[3] = "end"
          /\ phase = "starting" /\ phase' = phase
      BY <1>0, <1>4, StartBegins, StartTakes
    <2>2. ~After' /\ ~After
      <3>1. Comes("apply")'
        BY <1>0, <2>1, ComesNext
      <3> QED BY <1>1, <2>1, <3>1 DEF After
    <2>3. service'.curve = service.curve
      BY <1>0, <1>4 DEF BeginStart, ServiceType
    <2>4. ASSUME ~Spoilt' PROVE Early'
      <3>1. Running => ChainPlays
        BY <1>0, <1>1, <2>2, <2>4 DEF Spoilt, Sound, Early
      <3>2. host.default = Chain => config.hostDefault # None
        BY <1>0, <2>4 DEF Spoilt, Choice
      <3>3. CASE ahead'[1] = "handback"
        BY <3>3 DEF Early, Plain
      <3>4. CASE ahead'[1] = "sync" /\ ahead'[2] = "apply" /\ (service.curve \/ config.hostDefault = None)
        <4>1. IF Running' THEN ChainPlays' ELSE ~service'.curve => Bare'
          BY <1>0, <1>2, <2>3, <3>1, <3>2, <3>4 DEF Bare
        <4> QED BY <3>4, <4>1 DEF Early, Plain
      <3> QED BY <2>1, <3>3, <3>4
    <2> QED BY <2>2, <2>4 DEF Sound
  <1>5. CASE BeginCheck
    <2>1. /\ phase' = phase /\ phase = "ready" /\ service' = service
          /\ ahead'[1] = "end" \/ (ahead'[1] = "stop" /\ ahead'[2] = "sync")
          /\ job' = job \/ job' = [job EXCEPT ![Main] = NoJob]
          /\ queue # <<>> /\ queue[1] = Main /\ Len(queue) \in Nat \ {0} /\ Len(queue') = Len(queue) - 1
          /\ \A i \in 1..Len(queue') : queue'[i] = queue[i + 1]
      BY <1>0, <1>5, CheckTakes
    <2>2. job[Main].kind = "check"
      BY <1>5 DEF BeginCheck
    <2>3. CASE ahead'[1] = "end"
      <3>1. ahead'[2] = "end"
        BY <1>0, <2>3 DEF PlanInv, Shape, Follow
      <3>2. \A other \in Task : other # queue[1] => job'[other] = job[other]
        BY <1>0, <2>1 DEF TaskInv, JobType
      <3>3. ~Asks(1)
        BY <2>1, <2>2 DEF Asks
      <3>4. NoneAsks' <=> NoneAsks
        BY <1>0, <2>1, <3>2, <3>3, TakenFirst
      <3>5. After' <=> After
        BY <2>1 DEF After
      <3>6. Sound => Sound'
        BY <1>3, <2>1, <2>3, <3>1, <3>4, <3>5
      <3> QED BY <1>0, <3>6 DEF Spoilt
    <2>4. CASE ahead'[1] = "stop"
      <3>1. service.state = "on" /\ ~(Running /\ host.chain)
        <4>1. Main \in Task
          BY NoTaskIsNone
        <4>2. ~Take(Main, <<>>)
          BY <2>4, <4>1, LittleBegins
        <4> QED BY <1>5, <4>2 DEF BeginCheck
      <3>2. cut \/ gone
        BY <1>0, <1>1, <3>1 DEF StateInv
      <3> QED BY <1>0, <3>2 DEF Spoilt
    <2> QED BY <2>1, <2>3, <2>4
  <1>6. ASSUME NEW t \in Task, t # Main, BeginCurve(t) PROVE Spoilt' \/ Sound'
    <2>1. /\ phase' = phase
          /\ IF phase \in {"detecting", "probing"}
             THEN ahead'[1] = "end" /\ lock' = Free /\ job' = [job EXCEPT ![t] = NoJob]
             ELSE ahead'[1] = "sync" /\ ahead'[2] = "end" /\ lock'.owner = t /\ job' = job
          /\ queue # <<>> /\ queue[1] = t /\ Len(queue) \in Nat \ {0} /\ Len(queue') = Len(queue) - 1
          /\ \A i \in 1..Len(queue') : queue'[i] = queue[i + 1]
      BY <1>0, <1>6, CurveTakes
    <2>2. ahead'[2] = "end"
      BY <1>0, <2>1 DEF PlanInv, Shape, Follow
    <2>3. \A other \in Task : other # queue[1] => job'[other] = job[other]
      BY <1>0, <2>1 DEF TaskInv, JobType
    <2>4. ~Asks(1) /\ service'.output = service.output
      BY <1>0, <1>6, <2>1 DEF BeginCurve, Asks, ServiceType
    <2>5. NoneAsks' <=> NoneAsks
      BY <1>0, <2>1, <2>3, <2>4, TakenFirst
    <2>6. After' <=> After
      BY <1>1, <1>6, <2>1 DEF After, Free
    <2>7. Sound => Sound'
      BY <1>3, <2>1, <2>2, <2>4, <2>5, <2>6
    <2> QED BY <1>0, <2>7 DEF Spoilt
  <1>7. ASSUME NEW t \in Task, BeginAudio(t) PROVE Spoilt' \/ Sound'
    BY <1>0, <1>7, AudioSounds DEF Spoilt
  <1> QED BY <1>4, <1>5, <1>6, <1>7 DEF Begin

\* Where the sound is to be as loud as the service has it.
LoudHere ==
    \/ Plain /\ ahead[1] # "volume" /\ ahead[2] # "volume"
    \/ ahead[1] \in {"remember", "start", "failed"}
    \/ ahead[1] \in {"handback", "forget"} /\ Undoing

\* Steps that touch neither the lock nor the host.
LEMMA QuietSounds ==
    ASSUME Sound, UNCHANGED <<lock, host, failed>>, config'.hostDefault = config.hostDefault,
           service'.output = service.output, service'.chain = service.chain, service'.curve = service.curve,
           After' <=> After, config'.volume # None /\ NoneAsks' => config.volume # None /\ NoneAsks,
           After /\ Late /\ LoudHere /\ Loud => Loud'
    PROVE  Sound'
  <1>1. ahead' = ahead
    BY DEF ahead
  <1>2. /\ (Running' <=> Running) /\ (ChainPlays' <=> ChainPlays) /\ (Bare' <=> Bare) /\ (Aimed' <=> Aimed)
        /\ (Placed' <=> Placed) /\ (Plain' <=> Plain) /\ (Undoing' <=> Undoing)
    BY <1>1 DEF Running, ChainPlays, Bare, Target, Aimed, Placed, Plain, Undoing
  <1>3. Early => Early'
    BY <1>1, <1>2 DEF Early
  <1>4. ASSUME After, Late PROVE Late'
    <2>1. LoudHere => Loud
      BY <1>4, Zenon DEF LoudHere, Late
    <2>2. LoudHere => Loud'
      BY <1>4, <2>1
    <2>3. /\ Plain /\ ahead[1] # "volume" /\ ahead[2] # "volume" => Loud'
          /\ ahead[1] \in {"remember", "start"} \/ (ahead[1] = "handback" /\ Undoing) => Loud'
          /\ ahead[1] = "failed" \/ (ahead[1] = "forget" /\ Undoing) => Loud'
      BY <2>2 DEF LoudHere
    <2> QED BY <1>1, <1>2, <1>4, <2>3 DEF Late
  <1> QED BY <1>3, <1>4 DEF Sound

\* What becomes the setting is the volume of the output that is heard.
LEMMA AdoptSounds ==
    ASSUME Before, ~Spoilt, Sound, Adopt PROVE Sound'
  <1>0. /\ ConfigType /\ ServiceType /\ HostType /\ TaskInv /\ QueueInv /\ TypeInv /\ ChainInv /\ Choice /\ PlaceInv
        /\ Chain \notin Device /\ None \notin Device /\ TypeInv'
    BY AdoptStep, ConstantsAssumption DEF Before, Spoilt, TypeInv, ValueInv, TaskInv
  <1>1. PICK volume \in HostVolumes :
            /\ service' = [service EXCEPT !.volume = volume]
            /\ \/ volume = StoredVolume /\ UNCHANGED <<config, kept, job, queue>>
               \/ /\ config' = [config EXCEPT !.volume = volume] /\ kept' = config.hostDefault
                  /\ Len(queue) \in Nat /\ Len(queue') = Len(queue) + 1 /\ queue'[Len(queue) + 1] = Main
                  /\ \A i \in 1..Len(queue) : queue'[i] = queue[i]
                  /\ \A other \in Task : other # Main => job'[other] = job[other]
                  /\ job'[Main].kind = "audio" /\ job'[Main].output = config'.output
                  /\ job'[Main].volume = StoredVolume'
    BY <1>0, AdoptStep
  <1>2. UNCHANGED <<lock, host, failed>> /\ phase = "adopting" /\ phase' = "ready"
    BY DEF Adopt
  <1>3. /\ service'.output = service.output /\ service'.chain = service.chain /\ service'.curve = service.curve
        /\ service'.volume = volume
    BY <1>0, <1>1 DEF ServiceType
  <1>4. config'.hostDefault = config.hostDefault
    BY <1>0, <1>1 DEF ConfigType
  <1>5. After /\ After'
    BY <1>2 DEF After
  <1>6. Late
    BY <1>5 DEF Sound
  <1>7. CASE UNCHANGED <<config, kept, job, queue>>
    <2>1. NoneAsks' <=> NoneAsks
      <3>1. \A i \in 1..Len(queue) : Asks(i)' <=> Asks(i)
        BY <1>7 DEF Asks
      <3> QED BY <1>7, <3>1 DEF NoneAsks
    <2>2. Heard' = Heard /\ host'.volume = host.volume
      BY <1>2 DEF Heard
    <2>3. ASSUME ~Running, host.default # Chain PROVE volume = host.volume[Heard]
      BY <1>1, <2>3 DEF HostVolumes
    <2>4. ASSUME ChainPlays, host.target = Target PROVE volume = host.volume[Heard]
      <3>1. Target # None
        BY <1>0, <2>4 DEF ChainPlays, Choice, Target
      <3>2. Heard = Target /\ Running
        BY <1>0, <2>4, <3>1, HeardIs DEF ChainPlays
      <3> QED BY <1>1, <3>1, <3>2 DEF HostVolumes
    <2>5. ASSUME LoudHere, Loud PROVE Loud'
      <3>1. CASE Plain /\ ahead[1] # "volume" /\ ahead[2] # "volume" /\ Running
        <4>1. CASE ahead[1] # "target"
          <5>1. ChainPlays /\ Aimed
            BY <1>6, <3>1, <4>1 DEF Late
          <5>2. failed' = {} => host.target = Target
            BY <1>2, <5>1 DEF Aimed
          <5> QED BY <1>3, <2>2, <2>4, <5>1, <5>2 DEF Loud
        <4>2. CASE ahead[1] = "target"
          <5>1. ahead[2] = "end"
            <6>1. ahead[2] \in Follow(ahead[1])
              BY <1>0 DEF TaskInv, PlanInv, Shape
            <6> QED BY <3>1, <4>2, <6>1 DEF Follow, Plain
          <5>2. ~(config.volume # None /\ NoneAsks)
            BY <1>6, <4>2, <5>1 DEF Late
          <5> QED BY <1>7, <2>1, <5>2 DEF Loud
        <4> QED BY <4>1, <4>2
      <3>2. CASE Plain /\ ~Running
        <4>1. host.default # Chain
          BY <1>6, <3>2 DEF Late, Bare
        <4> QED BY <1>3, <2>2, <2>3, <3>2, <4>1 DEF Loud
      <3>3. CASE ahead[1] \in {"remember", "start"} \/ (ahead[1] = "handback" /\ Undoing)
        <4>1. host.default # Chain
          BY <1>6, <3>3 DEF Late, Placed
        <4>2. ~Running
          BY <1>0, <3>3 DEF ChainInv, Running
        <4> QED BY <1>3, <2>2, <2>3, <4>1, <4>2 DEF Loud
      <3>4. CASE ahead[1] = "failed" \/ (ahead[1] = "forget" /\ Undoing)
        <4>1. host.default # Chain
          BY <1>0, <3>4 DEF PlaceInv, Placed, Choice
        <4>2. ~Running
          BY <1>0, <3>4 DEF ChainInv, Running
        <4> QED BY <1>3, <2>2, <2>3, <4>1, <4>2 DEF Loud
      <3> QED BY <2>5, <3>1, <3>2, <3>3, <3>4 DEF LoudHere
    <2> QED BY <1>2, <1>3, <1>4, <1>5, <1>7, <2>1, <2>5, QuietSounds
  <1>8. CASE /\ Len(queue) \in Nat /\ Len(queue') = Len(queue) + 1 /\ queue'[Len(queue) + 1] = Main
             /\ job'[Main].kind = "audio"
    <2>1. Len(queue) + 1 \in 1..Len(queue')
      BY <1>8
    <2>2. \A i \in {Len(queue) + 1} : Asks(i)'
      BY <1>8 DEF Asks
    <2>3. ~NoneAsks'
      BY <2>1, <2>2 DEF NoneAsks
    <2>4. Loud'
      BY <2>3 DEF Loud
    <2> QED BY <1>2, <1>3, <1>4, <1>5, <2>3, <2>4, QuietSounds
  <1> QED BY <1>1, <1>7, <1>8

LEMMA SoundKept ==
    ASSUME Before, Spoilt \/ Sound, Next PROVE Spoilt' \/ Sound'
  <1>0. /\ ConfigType /\ ServiceType /\ HostType /\ TaskInv /\ QueueInv /\ PhaseInv /\ JobType /\ NothingEarly
        /\ TypeInv /\ TypeInv'
    BY NextKeepsTypes DEF Before, TypeInv, ValueInv, TaskInv
  <1>1. CASE Begin
    BY <1>1, BeginSounds
  <1>2. CASE Holder
    BY <1>0, <1>2, ToneSounds, StartSounds, UndoSounds, SyncSounds DEF Holder
  <1>3. ASSUME lock' = Free, service'.chain = "none", phase' \in {"down", "detecting"} PROVE Sound'
    <2>1. ahead'[1] = "end"
      BY <1>3, FreeTasks
    <2> QED BY <1>3, <2>1 DEF Sound, After, Early, Plain, Running
  <1>4. CASE Start
    <2>1. lock' = Free /\ service'.chain = "none" /\ phase' = "detecting"
      BY <1>0, <1>4 DEF Start, PhaseInv
    <2> QED BY <1>3, <2>1
  <1>5. CASE Crash
    <2>1. lock' = Free /\ service'.chain = "none" /\ phase' = "down"
      BY <1>0, <1>5 DEF Crash, ServiceType
    <2> QED BY <1>3, <2>1
  <1>6. CASE ChainLost \/ \E t \in Request : Cut(t)
    BY <1>6 DEF ChainLost, Cut, Spoilt
  <1>7. ASSUME UNCHANGED <<lock, host, service, config, cut, lost, gone, failed>>, After' <=> After, NoneAsks' <=> NoneAsks
        PROVE  Spoilt' \/ Sound'
    <2>1. Loud => Loud'
      BY <1>7, LoudStays
    <2>2. Sound => Sound'
      BY <1>7, <2>1, QuietSounds
    <2> QED BY <1>7, <2>2 DEF Spoilt
  <1>8. ASSUME UNCHANGED <<job, queue>> PROVE NoneAsks' <=> NoneAsks
    <2>1. \A i \in 1..Len(queue) : Asks(i)' <=> Asks(i)
      BY <1>8 DEF Asks
    <2> QED BY <1>8, <2>1 DEF NoneAsks
  <1>9. ASSUME lock' = lock, phase' = phase PROVE After' <=> After
    <2>1. ahead' = ahead
      BY <1>9 DEF ahead
    <2> QED BY <1>9, <2>1 DEF After, Comes
  <1>10. CASE DetectBackend
    <2>1. After' <=> After
      BY <1>10 DEF DetectBackend, After
    <2> QED BY <1>7, <1>8, <1>10, <2>1 DEF DetectBackend, rest, bounds
  <1>11. CASE CannotAdopt
    <2>1. After' <=> After
      BY <1>11 DEF CannotAdopt, After
    <2> QED BY <1>7, <1>8, <1>11, <2>1 DEF CannotAdopt
  <1>12. ASSUME NEW kind \in {"start", "check"}, job[Main] = NoJob, config' = config,
                job' = [job EXCEPT ![Main] = [NoJob EXCEPT !.kind = kind]], queue' = Append(queue, Main)
         PROVE  NoneAsks' <=> NoneAsks
    <2>1. /\ Len(queue') = Len(queue) + 1 /\ queue'[Len(queue) + 1] = Main /\ Main \in Task
          /\ \A i \in 1..Len(queue) : queue'[i] = queue[i]
      BY <1>0, <1>12, NoTaskIsNone DEF QueueInv
    <2>2. \A other \in Task : other # Main => job'[other] = job[other]
      BY <1>0, <1>12 DEF JobType
    <2>3. job'[Main].kind # "audio"
      BY <1>0, <1>12, <2>1 DEF JobType, NoJob
    <2> QED BY <1>0, <1>12, <2>1, <2>2, <2>3, AskedLast
  <1>13. CASE DetectEqualizer
    <2>1. phase = "probing" /\ phase' = "starting" /\ lock' = lock /\ job[Main] = NoJob
      BY <1>0, <1>13, NoTaskIsNone DEF DetectEqualizer, PhaseInv, JobType
    <2>2. lock.owner # Main
      BY <1>0, <2>1, NoTaskIsNone DEF QueueInv
    <2>3. After' <=> After
      BY <2>1, <2>2 DEF After
    <2> QED BY <1>7, <1>12, <1>13, <2>1, <2>3 DEF DetectEqualizer
  <1>14. CASE Check
    <2>1. UNCHANGED <<lock, phase>> /\ job[Main] = NoJob
      BY <1>14 DEF Check
    <2>2. NoneAsks' <=> NoneAsks
      <3>1. CASE UNCHANGED <<job, queue>>
        BY <1>8, <3>1
      <3>2. CASE job' = [job EXCEPT ![Main] = [NoJob EXCEPT !.kind = "check"]] /\ queue' = Append(queue, Main)
        BY <1>12, <1>14, <2>1, <3>2 DEF Check
      <3> QED BY <1>14, <3>1, <3>2 DEF Check
    <2> QED BY <1>7, <1>9, <1>14, <2>1, <2>2 DEF Check
  <1>15. ASSUME NEW t \in Request, Write(t) PROVE Spoilt' \/ Sound'
    <2>1. /\ Len(queue') = Len(queue) + 1 /\ queue'[Len(queue) + 1] = t /\ t \in Task
          /\ \A i \in 1..Len(queue) : queue'[i] = queue[i]
          /\ \A other \in Task : other # t => job'[other] = job[other]
          /\ config'.hostDefault = config.hostDefault
          /\ \/ /\ job'[t].kind = "curve"
                /\ config'.output = config.output /\ config'.volume = config.volume
             \/ /\ job'[t].kind = "audio" /\ job'[t].output = config'.output /\ job'[t].volume = StoredVolume'
      BY <1>0, <1>15, WriteStep, NoTaskIsNone
    <2>2. job[t] = NoJob /\ UNCHANGED <<phase, service, host, lock, cut, lost, gone, failed>>
      BY <1>15 DEF Write
    <2>3. (NoneAsks' <=> NoneAsks /\ job'[t].kind # "audio")
      BY <1>0, <2>1, <2>2, AskedLast
    <2>4. After' <=> After
      BY <1>9, <2>2
    <2>5. NoneAsks' => NoneAsks /\ config'.volume = config.volume
      BY <2>1, <2>3
    <2>6. Loud => Loud'
      <3>1. CASE NoneAsks'
        BY <2>2, <2>5, <3>1, LoudStays
      <3>2. CASE ~NoneAsks'
        BY <3>2 DEF Loud
      <3> QED BY <3>1, <3>2
    <2>7. Sound => Sound'
      BY <2>1, <2>2, <2>4, <2>5, <2>6, QuietSounds
    <2> QED BY <2>2, <2>7 DEF Spoilt
  <1>16. CASE Adopt
    BY <1>16, AdoptSounds DEF Adopt, Spoilt
  <1> QED BY <1>1, <1>2, <1>4, <1>5, <1>6, <1>10, <1>11, <1>13, <1>14, <1>15, <1>16 DEF Next

\* All of it together.
SoundInv ==
    Before /\ (cut \/ phase = "down" \/ Answered) /\ (Spoilt \/ Sound)

\* Once the writes are answered and nothing was cut off, lost or gone, the
\* output that is heard is the chosen one, unless the chain could not be told,
\* as loud as it was chosen to be, unless the last command of either kind
\* failed, behind the chain or not (AudioService.__apply: "device first, volume second,
\* always"; __sync_equalizer, __apply_volume).
THEOREM ChosenSoundStaysHeard == Spec => []TheChosenSoundIsHeard
  <1>1. Init /\ TypeInv => SoundInv
    <2> SUFFICES ASSUME Init, TypeInv PROVE SoundInv
      OBVIOUS
    <2>1. /\ \A i \in 1..7 : ahead[i] = "end"
          /\ ~Comes("off") /\ ~host.chain /\ service.chain = "none" /\ service.state = "detecting"
          /\ kept = None /\ config.hostDefault = None /\ phase = "down"
      BY FreeEnds DEF Init
    <2>2. host.default # Chain
      BY ConstantsAssumption DEF Init
    <2>3. ChainInv /\ StateInv
      BY <2>1 DEF ChainInv, StateInv, Undoing, Returning
    <2>4. Choice /\ PlaceInv
      BY <2>1, <2>2 DEF Choice, Opening, PlaceInv
    <2>5. Sound
      BY <2>1 DEF Sound, After, Early, Plain, Running
    <2> QED BY <2>1, <2>3, <2>4, <2>5 DEF SoundInv, Before
  <1>2. SoundInv /\ TypeInv' /\ [Next]_vars => SoundInv'
    <2> SUFFICES ASSUME SoundInv, TypeInv', [Next]_vars PROVE SoundInv'
      OBVIOUS
    <2>0. TypeInv /\ ChainInv /\ StateInv /\ (lost \/ (Choice /\ PlaceInv))
      BY DEF SoundInv, Before
    <2>1. CASE Next
      <3>1. ChainInv'
        BY <2>0, <2>1, ChainKept
      <3>2. StateInv'
        BY <2>0, <2>1, StateKept
      <3>3. lost' \/ Choice'
        BY <2>0, <2>1, ChoiceKept
      <3>4. lost' \/ PlaceInv'
        BY <2>0, <2>1, PlaceKept
      <3>5. cut' \/ phase' = "down" \/ Answered'
        BY <2>0, <2>1, AnswersKept DEF SoundInv
      <3>6. Spoilt' \/ Sound'
        BY <2>1, SoundKept DEF SoundInv
      <3> QED BY <3>1, <3>2, <3>3, <3>4, <3>5, <3>6 DEF SoundInv, Before
    <2>2. CASE UNCHANGED vars
      <3>1. ahead' = ahead /\ \A step : Comes(step)' <=> Comes(step)
        BY <2>2 DEF ahead, vars, Comes
      <3>2. /\ (Running' <=> Running) /\ Target' = Target /\ Heard' = Heard /\ StoredVolume' = StoredVolume
            /\ (Placed' <=> Placed) /\ (Undoing' <=> Undoing) /\ (Returning' <=> Returning) /\ (Opening' <=> Opening)
        BY <2>2, <3>1 DEF vars, Running, Target, Heard, StoredVolume, Placed, Undoing, Returning, Opening
      <3>3. (ChainInv' <=> ChainInv) /\ (StateInv' <=> StateInv)
        BY <2>2, <3>1, <3>2 DEF vars, ChainInv, StateInv
      <3>4. (Choice' <=> Choice) /\ (PlaceInv' <=> PlaceInv)
        BY <2>2, <3>1, <3>2 DEF vars, Choice, PlaceInv
      <3>5. \A i \in 1..Len(queue) : Asks(i)' <=> Asks(i)
        BY <2>2 DEF vars, Asks
      <3>6. (NoneAsks' <=> NoneAsks) /\ (LastAsks' <=> LastAsks) /\ AskedVolume' = AskedVolume
        BY <2>2, <3>2, <3>5 DEF vars, NoneAsks, LastAsks, AskedVolume
      <3>7. Answered' <=> Answered
        BY <2>2, <3>1, <3>2, <3>6 DEF vars, Answered
      <3>8. (ChainPlays' <=> ChainPlays) /\ (Bare' <=> Bare) /\ (Loud' <=> Loud) /\ (After' <=> After) /\ (Plain' <=> Plain)
            /\ (Aimed' <=> Aimed)
        BY <2>2, <3>1, <3>2, <3>6 DEF vars, ChainPlays, Bare, Loud, After, Plain, Aimed
      <3>9. Early' <=> Early
        BY <2>2, <3>1, <3>2, <3>8 DEF vars, Early
      <3>10. Late' <=> Late
        BY <2>2, <3>1, <3>2, <3>6, <3>8 DEF vars, Late
      <3>11. (Sound' <=> Sound) /\ (Spoilt' <=> Spoilt)
        BY <2>2, <3>8, <3>9, <3>10 DEF vars, Sound, Spoilt
      <3> QED BY <2>2, <3>3, <3>4, <3>7, <3>11 DEF SoundInv, Before, vars
    <2> QED BY <2>1, <2>2
  <1>3. SoundInv => TheChosenSoundIsHeard
    <2> SUFFICES ASSUME SoundInv, Settled PROVE TheChosenSoundIsHeard
      BY DEF TheChosenSoundIsHeard, VolumeFollowsTheOutput, TheChosenOutputIsHeard
    <2>1. /\ TypeInv /\ ServiceType /\ ConfigType /\ phase = "ready" /\ lock = Free /\ queue = <<>>
          /\ None \notin Device /\ Choice /\ Answered /\ Sound /\ After
      BY ConstantsAssumption DEF Settled, SoundInv, Before, Spoilt, After, TypeInv, ValueInv
    <2>2. ahead[1] = "end" /\ ahead[2] = "end" /\ ~Comes("volume") /\ Plain
      BY <2>1, FreeEnds DEF Plain
    <2>3. NoneAsks
      <3>1. Len(queue) = 0
        BY <2>1
      <3> QED BY <3>1 DEF NoneAsks
    <2>4. /\ IF Running THEN ChainPlays /\ Aimed
             ELSE Bare /\ (service.output # None => host.default = service.output)
          /\ Loud
      BY <2>1, <2>2 DEF Sound, Late
    <2>5. service.output = config.output /\ service.volume = StoredVolume
      BY <2>1, <2>2, <2>3 DEF Answered
    <2>6. VolumeFollowsTheOutput
      BY <2>3, <2>4, <2>5 DEF VolumeFollowsTheOutput, Loud, StoredVolume
    <2>7. config.output # None /\ "target" \notin failed => Heard = config.output
      <3>1. CASE Running
        BY <2>1, <2>4, <2>5, <3>1, HeardIs DEF Target, Aimed
      <3>2. CASE ~Running
        BY <2>1, <2>4, <2>5, <3>2, HeardIs DEF Bare
      <3> QED BY <3>1, <3>2
    <2> QED BY <2>6, <2>7 DEF TheChosenSoundIsHeard, TheChosenOutputIsHeard
  <1> QED BY <1>1, <1>2, <1>3, TypeInvHolds, PTL DEF Spec
=============================================================================
