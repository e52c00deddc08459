--------------------------- MODULE ActivityHistory ---------------------------
(***************************************************************************)
(* Trips and charging sessions, found in the stored telemetry when a panel *)
(* asks: TripLoader, ChargingLoader, Trip, ChargingSession and the hourly  *)
(* spot prices (backend/src/trip_service, charging_service), the reads of  *)
(* InfluxDBHandler and utils/timeline.py.                                  *)
(*                                                                         *)
(* A trip is a run out of Park, measured by the odometer; a session is a   *)
(* run of charging, measured by the charger's ChargeAdded, which starts    *)
(* again from zero when the charger begins a session.  Both are segmented  *)
(* by the same code; kind says which of the two a behaviour is about.      *)
(* Each query is several reads with an await between them, and telemetry   *)
(* goes on arriving, in order but late, while they run.                    *)
(*                                                                         *)
(* Time is counted in instants.  The state and the amount are held over    *)
(* the instant that begins at `now'.                                       *)
(***************************************************************************)
EXTENDS Integers, FiniteSets

CONSTANTS
    Kinds,        \* the kinds to check: a subset of {"trip", "session"}
    State,        \* Gear, DetailedChargeState
    IdleStates,   \* Park, and the charge states that are not charging: "P" and others
    Gap,          \* min_stop_minutes, sessionMergeMinutes: the idle time that ends a run
    MinAmount,    \* min_trip_distance_km, minSessionEnergyKwh
    Hour,         \* instants of an hour
    Starts,       \* the beginnings of a week, or of the month, that are asked for
    Asks,         \* bound: the instants when a panel asks
    Horizon,      \* bound: the last instant
    MaxPoints,    \* bound: readings of the state, and samples of the counter, each
    MaxAmount,    \* bound: what is driven or charged
    MaxLag,       \* bound: how late a frame of the car is written
    MaxTroubles   \* bound: calls that fail, counters begun again

ASSUME HistoryAssumption ==
    /\ Kinds \subseteq {"trip", "session"}
    /\ "P" \in IdleStates /\ IdleStates \subseteq State
    /\ Gap \in Nat \ {0} /\ MinAmount \in Nat /\ Hour \in Nat \ {0}
    /\ Starts \subseteq Nat /\ {Horizon, MaxPoints, MaxAmount, MaxLag, MaxTroubles} \subseteq Nat

VARIABLES
    kind,
    now,
    state,       \* Gear or DetailedChargeState, as the car has it
    counter,     \* Odometer or ChargeAdded
    delivered,   \* what has really been driven or charged by each instant
    readings,    \* the states reported
    samples,     \* the values of the counter reported
    stored,      \* what the car reported before this instant has been written
    query,       \* the handler that is reading, and how far it is
    answer,      \* the last list sent
    detail,      \* the summary sent in this instant
    cache,       \* __raw_cache: the hours whose price is known
    bill,        \* the session priced in this instant
    troubles

carVars == <<kind, now, state, counter, delivered>>
storeVars == <<readings, samples, stored>>
vars == <<carVars, storeVars, query, answer, detail, cache, bill, troubles>>

\* Any gear but Park; any charge state that says "charging".
IsActive(s) == s \notin IdleStates
IdleState == "P"

\* What the car can be in: Park is the one gear of the idle states.
Reported == IF kind = "trip" THEN State \ (IdleStates \ {IdleState}) ELSE State

NaN == -1
NoQuery == [step |-> "none"]
NoAnswer == [start |-> 0, end |-> 0, list |-> {}, whole |-> TRUE]
NoDetail == [start |-> 0, end |-> 0, listed |-> NaN, amount |-> NaN, whole |-> TRUE]
NoBill == [start |-> 0, end |-> 0, amount |-> NaN, spot |-> 0, flat |-> 0, late |-> 0,
           whole |-> TRUE]

Init ==
    /\ kind \in Kinds /\ now = 0 /\ state \in Reported /\ counter = 1
    /\ delivered = [t \in {0} |-> 1]
    /\ readings = {[at |-> 0, value |-> state]} /\ samples = {} /\ stored = 0
    /\ query = NoQuery /\ answer = NoAnswer /\ detail = NoDetail
    /\ cache = {} /\ bill = NoBill /\ troubles = 0

Trouble == troubles < MaxTroubles /\ troubles' = troubles + 1

(***************************************************************************)
(* What the code computes, from what it has read                           *)
(***************************************************************************)

\* A history is a set of points, no two at the same instant, and is read in their order.
Latest(points) == CHOOSE p \in points : \A q \in points : q.at <= p.at
Earliest(points) == CHOOSE p \in points : \A q \in points : p.at <= q.at
At(points, t) == CHOOSE p \in points : p.at = t
Instants(points) == {p.at : p \in points}
Before(points, t) == {p \in points : p.at < t}

\* A Flux range(start, stop) has its start and not its stop.
InRange(points, start, stop) == {p \in points : start <= p.at /\ p.at < stop}

\* The points at whose value the state changes.
Collapse(history) ==
    {p \in history : LET before == Before(history, p.at)
                     IN before # {} => Latest(before).value # p.value}

\* Mutant of Closes: a gap as long as the threshold is bridged.
ClosesLate(from, to) == to - from > Gap

\* An idle stretch that ends the run begun before it.
Closes(from, to) == to - from >= Gap

\* A state is held until the next change, or the end of the window.
Until(changes, t, end) ==
    LET after == {p \in changes : p.at > t} IN IF after = {} THEN end ELSE Earliest(after).at

\* What the loop of segment carries: the runs so far, the one under way, and its last activity.
NoRun == [runs |-> {}, begun |-> NaN, last |-> NaN]

\* One turn of the loop: the state held from one change until the next.
Turn(acc, held, from, to) ==
    IF IsActive(held)
    THEN [acc EXCEPT !.begun = IF @ = NaN THEN from ELSE @, !.last = to]
    ELSE IF acc.begun # NaN /\ Closes(from, to)
    THEN [NoRun EXCEPT !.runs = acc.runs
                                \cup {[start |-> acc.begun, end |-> acc.last, open |-> FALSE]}]
    ELSE acc

\* The loop, from change to change: what it carries when it comes to each instant.
Walk(changes, start, end) ==
    LET walk[t \in start .. end] ==
            IF t = start THEN NoRun
            ELSE IF t - 1 \in Instants(changes)
            THEN Turn(walk[t - 1], At(changes, t - 1).value, t - 1, Until(changes, t - 1, end))
            ELSE walk[t - 1]
    IN walk

\* The held states from start on.
Changes(transitions, held, start) ==
    Collapse({[at |-> start, value |-> held]} \cup {p \in transitions : p.at > start})

\* The held states, one after the other, folded into runs.
Segment(transitions, held, start, end) ==
    LET walked == Walk(Changes(transitions, held, start), start, end)[end]
        current == [start |-> walked.begun, end |-> walked.last, open |-> walked.last = end]
    IN IF transitions = {} THEN {}
       ELSE walked.runs \cup IF walked.begun = NaN THEN {} ELSE {current}

\* Mutant of Within: the sample before the run is taken for its beginning.
WithinAndBefore(series, run) == {p \in series : p.at <= run.end}

\* The samples of a run: both its ends count, on the series read for the whole window.
Within(series, run) == {p \in series : run.start <= p.at /\ p.at <= run.end}

\* delta: what a lifetime counter has gone up by.
Delta(series) == IF series = {} THEN NaN ELSE Latest(series).value - Earliest(series).value

\* The step up of an accumulator to a sample; a step down is a new session of the charger.
StepUp(series, t) ==
    LET before == Before(series, t) IN
    IF t \in Instants(series) /\ before # {} /\ At(series, t).value > Latest(before).value
    THEN At(series, t).value - Latest(before).value ELSE 0

\* The sum of the steps up that come at certain times; none comes at the first instant.
Rise(series, times) ==
    LET sum[t \in 0 .. Horizon] ==
            IF t = 0 THEN 0 ELSE sum[t - 1] + IF t \in times THEN StepUp(series, t) ELSE 0
    IN sum[Horizon]

\* Fewer than two samples.
Few(series) == \A p, q \in series : p = q

\* Mutant of PositiveIncrement: the peak of the accumulator.
Peak(series) ==
    IF Few(series) THEN NaN
    ELSE (CHOOSE p \in series : \A q \in series : q.value <= p.value).value

\* Mutant of PositiveIncrement: the steps down are taken off.
NetIncrement(series) == IF Few(series) THEN NaN ELSE Delta(series)

PositiveIncrement(series) == IF Few(series) THEN NaN ELSE Rise(series, 0 .. Horizon)

Amount(series) == IF kind = "trip" THEN Delta(series) ELSE PositiveIncrement(series)

\* A trip of unknown length is kept; a session of unknown energy was charged elsewhere.
Kept(amount) == IF kind = "trip" THEN amount = NaN \/ amount >= MinAmount
                ELSE amount # NaN /\ amount >= MinAmount

Measured(run, series) == [start |-> run.start, end |-> run.end, open |-> run.open,
                          amount |-> Amount(Within(series, run))]

Listed(runs, series) == {r \in {Measured(run, series) : run \in runs} : Kept(r.amount)}

\* bucket_positive_increments_by_hour: a step belongs to the hour of its later sample.
HourOf(t) == t \div Hour
ByHour(series, hours) == Rise(series, {t \in 0 .. Horizon : HourOf(t) \in hours})

\* The hours prices_for_range looks up for a run.
PriceHours(run) == HourOf(run.start) .. HourOf(run.end - 1)

(***************************************************************************)
(* The car, the charger and the database                                   *)
(***************************************************************************)

\* The next instant, as it is reported: the car sends its state, changed or not, and the
\* counter is sampled, by a frame of the car or a poll of the charger; or neither.  The counter
\* goes up while the car drives; the charger may deliver before the car says it is charging,
\* and after, and may begin a session of its own, from zero.  A query reads what is older than
\* its own instant, so that only what is written late can tell one step of it from the next:
\* no instant passes while one runs.
MayReport(points) == Cardinality(points) < MaxPoints /\ now + 1 < Horizon

Tick ==
    /\ now < Horizon /\ now' = now + 1 /\ now - stored < MaxLag
    /\ query = NoQuery
    /\ \E gain \in 0..1 :
          /\ gain > 0 => (kind = "session" \/ IsActive(state)) /\ delivered[now] < MaxAmount
          /\ delivered' = [t \in 0 .. now' |-> IF t = now' THEN delivered[now] + gain
                                             ELSE delivered[t]]
          /\ \/ counter' = counter + gain /\ UNCHANGED troubles
             \/ counter' = 0 /\ kind = "session" /\ counter + gain > 0 /\ Trouble
    /\ \/ UNCHANGED <<state, readings>>
       \/ /\ MayReport(readings) /\ state' \in Reported
          /\ readings' = readings \cup {[at |-> now', value |-> state']}
    /\ \/ UNCHANGED samples
       \/ MayReport(samples) /\ samples' = samples \cup {[at |-> now', value |-> counter']}
    /\ detail' = NoDetail /\ bill' = NoBill
    /\ UNCHANGED <<kind, stored, query, answer, cache>>

\* __update writes the frames of an instant, under their own time; a write that fails is
\* logged and forgotten.
Write ==
    /\ stored < now /\ stored' = stored + 1
    /\ \/ UNCHANGED <<readings, samples, troubles>>
       \/ /\ stored \in {p.at : p \in readings} \cup {p.at : p \in samples} /\ Trouble
          /\ readings' = {p \in readings : p.at # stored}
          /\ samples' = IF kind = "trip" THEN {p \in samples : p.at # stored} ELSE samples
    /\ UNCHANGED <<carVars, query, answer, detail, cache, bill>>

Readings == {p \in readings : p.at < stored}
Samples == IF kind = "trip" THEN {p \in samples : p.at < stored} ELSE samples

(***************************************************************************)
(* list_trips, list_sessions                                               *)
(***************************************************************************)

\* A read that fails tells nothing, as one that finds nothing does.
Reads(whole) == IF whole THEN UNCHANGED troubles ELSE Trouble

\* The list of a week, or the month's figures: the history of the states comes first.  A
\* window that ends before it begins is answered without a read.
Ask ==
    /\ query = NoQuery /\ now \in Asks
    /\ \E start \in Starts, whole \in BOOLEAN :
         LET found == InRange(Readings, start, now) IN
         /\ start < now
         /\ Reads(whole)
         /\ IF whole /\ found # {}
            THEN /\ query' = [step |-> "held", start |-> start, end |-> now, log |-> found]
                 /\ UNCHANGED answer
            ELSE /\ answer' = [NoAnswer EXCEPT !.start = start, !.end = now, !.whole = whole]
                 /\ UNCHANGED query
    /\ UNCHANGED <<carVars, storeVars, detail, cache, bill>>

\* Mutant of HeldBefore: with nothing logged before, no state is assumed.
HeldOrNothing(start) ==
    LET before == {p \in Readings : p.at < start}
    IN IF before = {} THEN "" ELSE Latest(before).value

HeldBefore(start) ==
    LET before == {p \in Readings : p.at < start}
    IN IF before = {} THEN IdleState ELSE Latest(before).value

\* The state held before the window, and with it the runs.
ReadHeld ==
    /\ query.step = "held"
    /\ \E whole \in BOOLEAN :
         LET held == IF whole THEN HeldBefore(query.start) ELSE IdleState IN
         /\ Reads(whole)
         /\ query' = [step |-> "series", whole |-> whole, start |-> query.start,
                      end |-> query.end, log |-> query.log, held |-> held,
                      runs |-> Segment(Collapse(query.log), held, query.start, query.end)]
    /\ UNCHANGED <<carVars, storeVars, answer, detail, cache, bill>>

\* One read of the counter measures every run, if there is one.  The month goes on to price
\* the sessions, each with its own slice of the series.
ReadSeries ==
    /\ query.step = "series"
    /\ \E whole \in BOOLEAN :
         LET series == IF whole THEN InRange(Samples, query.start, query.end) ELSE {}
             list == Listed(query.runs, series)
         IN /\ query.runs = {} => whole
            /\ Reads(whole)
            /\ answer' = [start |-> query.start, end |-> query.end, list |-> list,
                          whole |-> whole /\ query.whole]
            /\ \/ query' = NoQuery
               \/ /\ kind = "session" /\ list # {}
                  /\ query' = [step |-> "price", whole |-> TRUE,
                               due |-> {[run |-> run, series |-> Within(series, run)] : run \in list}]
    /\ UNCHANGED <<carVars, storeVars, detail, cache, bill>>

(***************************************************************************)
(* load_summary, and the price of a session                                *)
(***************************************************************************)

\* The panel sends a run of the list back; its window is read by itself.
Summarise ==
    /\ query = NoQuery /\ now \in Asks
    /\ \E run \in answer.list, whole \in BOOLEAN :
         LET amount == Amount(IF whole THEN InRange(Samples, run.start, run.end) ELSE {})
         IN /\ Reads(whole)
            /\ detail' = [start |-> run.start, end |-> run.end, listed |-> run.amount,
                          amount |-> amount, whole |-> whole]
            /\ query' = IF kind = "session"
                        THEN [step |-> "hours", run |-> [run EXCEPT !.amount = amount]]
                        ELSE NoQuery
    /\ UNCHANGED <<carVars, storeVars, answer, cache, bill>>

\* __hourly_charger_kwh reads the series again, for the hours.
ReadHours ==
    /\ query.step = "hours"
    /\ \E whole \in BOOLEAN :
         LET series == IF whole THEN InRange(Samples, query.run.start, query.run.end) ELSE {}
         IN /\ Reads(whole)
            /\ query' = [step |-> "price", whole |-> whole,
                         due |-> {[run |-> query.run, series |-> series]}]
    /\ UNCHANGED <<carVars, storeVars, answer, detail, cache, bill>>

\* __cost: an hour without a price is fetched with the rest of its span, then each hour is
\* priced at its own price, or at the flat tariff.
Price ==
    /\ query.step = "price"
    /\ \E due \in query.due :
         LET hours == PriceHours(due.run)
             all == HourOf(0) .. HourOf(Horizon) IN
         /\ \A other \in query.due : due.run.start <= other.run.start
         /\ \/ hours \subseteq cache /\ UNCHANGED <<cache, troubles>>
            \/ ~(hours \subseteq cache) /\ cache' = cache \cup hours /\ UNCHANGED troubles
            \/ ~(hours \subseteq cache) /\ Trouble /\ UNCHANGED cache
         /\ bill' = [start |-> due.run.start, end |-> due.run.end, amount |-> due.run.amount,
                     spot |-> ByHour(due.series, hours \cap cache'),
                     flat |-> ByHour(due.series, all \ (hours \cap cache')),
                     late |-> ByHour(due.series, {HourOf(due.run.end)} \ hours),
                     whole |-> query.whole /\ hours \subseteq cache']
         /\ query' = IF query.due = {due} THEN NoQuery ELSE [query EXCEPT !.due = @ \ {due}]
    /\ UNCHANGED <<carVars, storeVars, answer, detail>>

Next ==
    \/ Tick \/ Write
    \/ Ask \/ ReadHeld \/ ReadSeries \/ Summarise \/ ReadHours \/ Price

Spec == Init /\ [][Next]_vars

(***************************************************************************)
(* Properties                                                              *)
(***************************************************************************)

Run == [start : 0..Horizon, end : 0..Horizon, open : BOOLEAN]
Point(value) == [at : 0..Horizon, value : value]

\* The variables keep their types; the runs of a list lie in its window, an open one up
\* to its end, and an instant has one reading and one sample.
TypeOK ==
    /\ kind \in Kinds /\ now \in 0..Horizon /\ state \in State /\ counter \in 0..delivered[now]
    /\ delivered \in [0..now -> Nat]
    /\ readings \subseteq Point(State) /\ samples \subseteq Point(Nat)
    /\ \A p, q \in readings : p.at = q.at => p = q
    /\ \A p, q \in samples : p.at = q.at => p = q
    /\ stored \in 0..now
    /\ query = NoQuery \/ query.step \in {"held", "series", "hours", "price"}
    /\ query.step = "series" => query.runs \subseteq Run /\ query.held \in State
    /\ \A run \in answer.list :
          /\ run.amount \in Nat \cup {NaN}
          /\ answer.start <= run.start /\ run.start < run.end /\ run.end <= answer.end
          /\ run.open => run.end = answer.end
    /\ detail.amount \in Nat \cup {NaN} /\ cache \subseteq 0..HourOf(Horizon)
    /\ bill.amount \in Nat \cup {NaN} /\ troubles \in 0..MaxTroubles

\* What the runs of a window are, instant by instant: the maximal stretches that begin and
\* end in an active instant and hold no pause, one idle state for as long as Gap.
HeldAt(q, t) ==
    LET past == Before(q.log, t + 1) IN IF past = {} THEN q.held ELSE Latest(past).value

Pause(q, w) ==
    /\ ~IsActive(HeldAt(q, w))
    /\ \A t \in w .. w + Gap - 1 : HeldAt(q, t) = HeldAt(q, w)

Joined(q, t, u) == \A w \in t .. u - Gap : ~Pause(q, w)

TrueRuns(q) ==
    LET active == {t \in q.start .. q.end - 1 : IsActive(HeldAt(q, t))}
        firsts == {t \in active : ~ \E u \in active : u < t /\ Joined(q, u, t)}
        lasts == {t \in active : ~ \E u \in active : u > t /\ Joined(q, t, u)}
    IN {[start |-> p[1], end |-> p[2] + 1, open |-> p[2] + 1 = q.end] :
           p \in {f \in firsts \X lasts : f[1] <= f[2] /\ Joined(q, f[1], f[2])}}

Found == query.step = "series"

\* A state that changes at the very first instant of the window is not seen (timeline.py:53).
ChangesAtTheEdge(q) == \E p \in q.log : p.at = q.start /\ p.value # q.held

\* The runs that are found are those of the held states: the readings, repeated or not, with
\* what was held before them, split exactly where one idle state was held for Gap (segment and
\* its docstring).
RunsAreFound ==
    Found /\ ~ChangesAtTheEdge(query) => query.runs = TrueRuns(query)

\* "short non-charging gaps (< sessionMergeMinutes) merged" (ChargingLoader), and no others.
\* The code judges a gap state by state: charging ends, the plug is drawn, another is put in.
LongGapsSplit ==
    Found => \A run \in query.runs : \A w \in run.start .. run.end - Gap :
                 \E t \in w .. w + Gap - 1 : IsActive(HeldAt(query, t))

\* The same, whatever the first reading is.  The code does not do it.
EdgesAreFound == Found => query.runs = TrueRuns(query)

\* No kilometre and no kilowatt-hour is counted twice, or taken from outside: the runs of a
\* list lie Gap apart, and none has more than was delivered between its ends, whatever the
\* counter carried in or began again from (positive_increment, _window_energy's docstring).
CountedOnce ==
    /\ \A r, s \in answer.list : r = s \/ s.start - r.end >= Gap \/ r.start - s.end >= Gap
    /\ \A r \in answer.list : r.amount <= delivered[r.end] - delivered[r.start]

\* What has been listed as over stays: a later list from the same start has it under the same
\* key, with as late an end and as much in it.  The panel finds a run again by its start
\* (Trip.start_ms, the natural key), and points arrive late, the counter begins again and the
\* car starts again in the meantime.
ListedStay ==
    [][ \A run \in answer.list :
          /\ answer'.whole /\ answer'.start = answer.start /\ answer'.end >= answer.end
          /\ answer.whole /\ ~run.open /\ run.amount # NaN
          => \E later \in answer'.list :
                /\ later.start = run.start /\ later.end >= run.end
                /\ later.amount >= run.amount ]_answer

\* A summary has what its line in the list has, or more when points came late, though it is
\* read by another path; a sample at the very end of the run counts in the list alone.
DetailAgrees ==
    detail.whole /\ detail.listed # NaN /\ ~(\E p \in Samples : p.at = detail.end)
        => detail.amount >= detail.listed

\* With the prices at hand, a bill has all of the session's energy, each step once and at the
\* price of its own hour; only what came in an hour that begins as the session ends goes by
\* the flat tariff (__cost, prices_for_range).
BillsAddUp ==
    bill.whole /\ bill.amount # NaN
        => bill.flat = bill.late /\ bill.spot + bill.flat >= bill.amount

\* The three readings of one run, in the list, in its summary and in its price by the hour,
\* tell the same amount (_window_energy, charger_kwh, __hourly_charger_kwh).
ReadingsAgree == DetailAgrees /\ BillsAddUp

\* "inclusive of the hour containing end" (prices_for_range).  The code is not.
EndHourIsPriced == bill.whole => bill.flat = 0
=============================================================================
