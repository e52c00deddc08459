------------------------------- MODULE Climate -------------------------------
(***************************************************************************)
(* Climate control: Vehicle's climate commands (backend/src/tesla_service/ *)
(* vehicle.py) on two telemetry properties with their value lock           *)
(* (vehicle_data_property.py).  A request is a handler task of a panel; it *)
(* can be cut off wherever it waits, because the server cancels a client's *)
(* handlers when it leaves.                                                *)
(*                                                                         *)
(* A request waits at                                                      *)
(*   idle       nothing                                                    *)
(*   showing    the broadcast of the placeholder                           *)
(*   reading    the vehicle's lock, to read the setpoint                   *)
(*   pushing    set_temps                                                  *)
(*   posting    auto_conditioning_start or _stop                           *)
(*   refunding  the broadcast of the state it took back                    *)
(*   stepping   the broadcast of a stepped setpoint                        *)
(*                                                                         *)
(* Setpoints are numbered from 15 degrees (0) to 28 (MaxSetpoint); a step  *)
(* past a bound changes nothing.  The right seat's follows the left's.     *)
(* inflight, taken, late and cut only record what happened.                *)
(***************************************************************************)
EXTENDS Naturals, FiniteSets

CONSTANTS
    Request,     \* slots for requests in flight
    NoState,     \* no state awaited
    MaxSetpoint  \* the highest setpoint

Limit == 5     \* commands per window
Powers == {"on", "off"}
Commands == {"toggle", "push"}   \* what takes a slot of the limit
Setpoints == 0..MaxSetpoint

ASSUME ClimateAssumption ==
    /\ IsFiniteSet(Request)
    /\ NoState \notin Powers /\ MaxSetpoint \in Nat

VARIABLES
    shown,      \* HvacPower's _value
    awaited,    \* HvacPower's __locked_target
    request,    \* the requests in flight
    used,       \* Vehicle.__requests_used
    armed,      \* Vehicle.__reset_scheduled
    setpoint,   \* HvacLeftTemperatureRequest's _value
    dirty,      \* Vehicle.__temperature_updated
    inflight,   \* slots of this window whose command is not answered
    taken,      \* slots taken in this window and not refunded
    late,       \* refunds this window got for slots of an earlier one
    cut         \* a climate command was cut off

lockVars == <<shown, awaited>>
rateVars == <<used, armed, inflight, taken, late>>
tempVars == <<setpoint, dirty>>
climateVars == <<lockVars, request, rateVars, tempVars, cut>>

Idle == [step |-> "idle", from |-> NoState, value |-> 0]
CommandSteps == {"showing", "reading", "pushing", "posting", "refunding"}

ClimateTypeOK ==
    /\ shown \in Powers \cup {NoState, "pending"}
    /\ awaited \in Powers \cup {NoState}
    /\ request \in [Request -> [step : CommandSteps \cup {"idle", "stepping"},
                                from : Powers \cup {NoState}, value : Setpoints]]
    /\ used \in 0..Limit
    /\ inflight \subseteq Request \X Commands /\ taken \in Nat /\ late \in Nat
    /\ setpoint \in Setpoints
    /\ armed \in BOOLEAN /\ dirty \in BOOLEAN /\ cut \in BOOLEAN

Other(power) == IF power = "on" THEN "off" ELSE "on"
Await(r, step) == request' = [request EXCEPT ![r].step = step]

(***************************************************************************)
(* The rate limit                                                          *)
(***************************************************************************)

\* __rate_limit_reserve: a slot, and one reset per window.
Reserve(slot) ==
    /\ used <= 4
    /\ used' = used + 1
    /\ armed' = TRUE
    /\ inflight' = inflight \cup {slot} /\ taken' = taken + 1
    /\ UNCHANGED late

\* The history of a refund: of this window's slot, or of an earlier window's,
\* which frees one of this window's instead.
Returned(slot) ==
    IF slot \in inflight
    THEN inflight' = inflight \ {slot} /\ taken' = taken - 1 /\ UNCHANGED late
    ELSE late' = (IF used > 0 THEN late + 1 ELSE late) /\ UNCHANGED <<inflight, taken>>

\* Mutant of Refund: a failed command keeps its slot.
KeepSlot(slot) ==
    /\ Returned(slot)
    /\ UNCHANGED <<used, armed>>

\* __rate_limit_refund: the reset stays armed.
Refund(slot) ==
    /\ used' = IF used > 0 THEN used - 1 ELSE 0
    /\ Returned(slot)
    /\ UNCHANGED armed

\* The command is answered, or nobody waits for its answer: it keeps its slot.
Answered(slots) ==
    /\ inflight' = inflight \ slots
    /\ UNCHANGED <<used, armed, taken, late>>

\* __reset_requests, five minutes after the window was opened.
ResetRequests ==
    /\ armed
    /\ armed' = FALSE /\ used' = 0
    /\ inflight' = {} /\ taken' = 0 /\ late' = 0
    /\ UNCHANGED <<lockVars, request, tempVars, cut>>

(***************************************************************************)
(* switch_climate_state                                                    *)
(***************************************************************************)

\* The toggle of a known state: a slot, the placeholder, the lock.
Switch(r) ==
    /\ request[r] = Idle /\ shown \in Powers
    /\ Reserve(<<r, "toggle">>)
    /\ shown' = "pending"
    /\ awaited' = Other(shown)
    /\ request' = [request EXCEPT ![r] = [step |-> "showing", from |-> shown, value |-> 0]]
    /\ UNCHANGED <<tempVars, cut>>

\* The placeholder is out.  A changed setpoint goes first, if the limit allows.
Shown(r) ==
    /\ request[r].step = "showing"
    /\ \/ dirty /\ Reserve(<<r, "push">>) /\ Await(r, "reading")
       \/ (~dirty \/ used > 4) /\ Await(r, "posting") /\ UNCHANGED rateVars
    /\ UNCHANGED <<lockVars, tempVars, cut>>

Read(r) ==
    /\ request[r].step = "reading"
    /\ request' = [request EXCEPT ![r] = [@ EXCEPT !.step = "pushing", !.value = setpoint]]
    /\ UNCHANGED <<lockVars, rateVars, tempVars, cut>>

\* set_temps is answered, or fails: then its slot is refunded.  The setpoint
\* counts as pushed either way, also one stepped in the meantime.
Pushed(r) ==
    /\ request[r].step = "pushing"
    /\ request' = [request EXCEPT ![r] = [@ EXCEPT !.step = "posting", !.value = 0]]
    /\ dirty' = FALSE
    /\ Answered({<<r, "push">>}) \/ Refund(<<r, "push">>)
    /\ UNCHANGED <<lockVars, setpoint, cut>>

\* The car accepted the command: its target is shown, and still awaited.
Accepted(r) ==
    /\ request[r].step = "posting"
    /\ shown' = Other(request[r].from)
    /\ awaited' = Other(request[r].from)
    /\ request' = [request EXCEPT ![r] = Idle]
    /\ Answered({<<r, "toggle">>})
    /\ UNCHANGED <<tempVars, cut>>

\* Mutant of Rejected: the placeholder stays.
RejectedPending(r) ==
    /\ request[r].step = "posting"
    /\ awaited' = NoState
    /\ Await(r, "refunding")
    /\ UNCHANGED <<shown, rateVars, tempVars, cut>>

\* It was rejected, or the call failed: the state it started from is shown.
Rejected(r) ==
    /\ request[r].step = "posting"
    /\ shown' = request[r].from
    /\ awaited' = NoState
    /\ Await(r, "refunding")
    /\ UNCHANGED <<rateVars, tempVars, cut>>

Refunded(r) ==
    /\ request[r].step = "refunding"
    /\ Refund(<<r, "toggle">>)
    /\ request' = [request EXCEPT ![r] = Idle]
    /\ UNCHANGED <<lockVars, tempVars, cut>>

(***************************************************************************)
(* plus_temp and minus_temp                                                *)
(***************************************************************************)

\* Only the local setpoint moves, up or down, while both are broadcast.
Step(r) ==
    /\ request[r] = Idle
    /\ \E value \in Setpoints :
           /\ value = setpoint + 1 \/ setpoint = value + 1
           /\ setpoint' = value
    /\ Await(r, "stepping")
    /\ UNCHANGED <<lockVars, rateVars, dirty, cut>>

\* Only now is the change noted.
Stepped(r) ==
    /\ request[r].step = "stepping"
    /\ request' = [request EXCEPT ![r] = Idle]
    /\ dirty' = TRUE
    /\ UNCHANGED <<lockVars, rateVars, setpoint, cut>>

\* Server.__cleanup_client cancels the handlers of a client that leaves.
Cut(r) ==
    /\ request[r] # Idle
    /\ request' = [request EXCEPT ![r] = Idle]
    /\ Answered({r} \X Commands)
    /\ cut' = (cut \/ request[r].step # "stepping")
    /\ UNCHANGED <<lockVars, tempVars>>

(***************************************************************************)
(* Telemetry                                                               *)
(***************************************************************************)

\* Mutant of PowerFrame: a frame is applied while its target is awaited.
PowerFrameUnlocked(power) ==
    /\ shown' = power
    /\ UNCHANGED <<awaited, request, rateVars, tempVars, cut>>

\* VehicleDataProperty.update: a frame other than the awaited one is dropped,
\* the awaited one releases the lock.
PowerFrame(power) ==
    /\ awaited \in {NoState, power}
    /\ shown' = power
    /\ awaited' = NoState
    /\ UNCHANGED <<request, rateVars, tempVars, cut>>

\* A frame of the setpoint, which is never locked, overwrites a stepped one;
\* whether a change is to be pushed stays as it was.
SetpointFrame(value) ==
    /\ setpoint' = value
    /\ UNCHANGED <<lockVars, request, rateVars, dirty, cut>>

\* __lock_timeout_handler of the latest lock; what is shown stays.
LockExpires ==
    /\ awaited # NoState
    /\ awaited' = NoState
    /\ UNCHANGED <<shown, request, rateVars, tempVars, cut>>

\* apply_sleep_default: the car went to sleep.
FallAsleep ==
    /\ shown' = "off"
    /\ awaited' = NoState
    /\ UNCHANGED <<request, rateVars, tempVars, cut>>

(***************************************************************************)
(* The specification                                                       *)
(***************************************************************************)

ClimateInit ==
    /\ shown = NoState /\ awaited = NoState
    /\ request = [r \in Request |-> Idle]
    /\ used = 0 /\ armed = FALSE
    /\ inflight = {} /\ taken = 0 /\ late = 0
    /\ setpoint \in Setpoints /\ dirty = FALSE
    /\ cut = FALSE

CommandStep(r) == Shown(r) \/ Read(r) \/ Pushed(r) \/ Accepted(r) \/ Rejected(r) \/ Refunded(r) \/ Stepped(r)

ClimateNext ==
    \/ \E r \in Request : CommandStep(r) \/ Switch(r) \/ Step(r) \/ Cut(r)
    \/ ResetRequests
    \/ \E power \in Powers : PowerFrame(power)
    \/ \E value \in Setpoints : SetpointFrame(value)
    \/ LockExpires \/ FallAsleep

ClimateSpec == ClimateInit /\ [][ClimateNext]_climateVars

\* Every broadcast and call ends (calls time out after 30 s), and the scheduler
\* runs its jobs.  Nothing is assumed of the car.
ClimateFairness ==
    /\ \A r \in Request : WF_climateVars(CommandStep(r))
    /\ WF_climateVars(ResetRequests)

ClimateFairSpec == ClimateSpec /\ ClimateFairness

(***************************************************************************)
(* What climate control promises                                           *)
(***************************************************************************)

\* While a command's target is awaited, the button shows the placeholder or the
\* target, however frames, answers, expiries and other commands interleave.
StaleFramesStayHidden == awaited # NoState => shown \in {"pending", awaited}

\* Slots are spent only while a reset is armed, so none is lost for good to a
\* refund, a reset during a command or a command that is cut off ...
SpentSlotsComeBack == used > 0 => armed

\* ... and a full window opens again.
LimitLifts == used = Limit ~> used < Limit

\* A button on "pending" leaves it, with no help from the car, unless a command
\* was cut off.
PendingEnds == shown = "pending" ~> shown # "pending" \/ cut

\* The counter against the commands themselves, however reservations, refunds,
\* resets and clients that leave overlap: a refunded slot is not charged (a
\* failed command burns none), and a window lets no more commands through than
\* its limit and the refunds it got for slots of an earlier window.
SlotsAreCounted == used <= taken /\ taken <= used + late

\* The limit charges what was sent, and is never for good.
LimitIsExact == SpentSlotsComeBack /\ SlotsAreCounted

\* What keeps a user from commanding the car, a spent limit or a pending
\* button, ends with no help from the car.
ClimateRecovers == LimitLifts /\ PendingEnds

(***************************************************************************)
(* What the source says of itself and the code does not do                 *)
(***************************************************************************)

\* __lock_timeout_handler re-streams when the lock lifts, lest a button "stay
\* there until the next telemetry frame": "pending" is not shown once nothing
\* is awaited and no command is under way.
PendingIsAwaited ==
    shown = "pending" => awaited # NoState \/ \E r \in Request : request[r].step \in CommandSteps

\* A stepped setpoint "reaches the car the next time climate is toggled"
\* (__step_target_temp): a noted one is overwritten by another step only, and
\* is taken for pushed only once the car has it.
StepsReachTheCar ==
    [][/\ dirty /\ setpoint' # setpoint => \E r \in Request : Step(r)
       /\ dirty /\ ~dirty' =>
              \E r \in Request : Pushed(r) /\ Answered({<<r, "push">>}) /\ request[r].value = setpoint
      ]_climateVars
=============================================================================
