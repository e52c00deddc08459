----------------------------- MODULE ConfigApply -----------------------------
(***************************************************************************)
(* Writing a setting: ConfigService (backend/src/config_service), the      *)
(* document it edits (utils/config_parser.py, utils/atomic_write.py), the  *)
(* two services that write it on their own account (LogLevel,              *)
(* TeslaPropertyEditor) and the restart.                                   *)
(*                                                                         *)
(* A handler runs without a pause from its checks to the first hook that   *)
(* waits, so a write, its save and its synchronous hooks are one action.   *)
(* It then waits at                                                        *)
(*   hook      the lock of the service that applies the value              *)
(*   replying  the reply to its client, before the broadcast               *)
(* A power cut can come inside a save, a departing client anywhere it      *)
(* waits.  A refused or unchanged write alters nothing and is left out.    *)
(*                                                                         *)
(* A document is a value, or Unset, for each key the instance follows: the *)
(* settings in Written, and the level that DEBUG returns to.               *)
(***************************************************************************)
EXTENDS Naturals, FiniteSets

CONSTANTS
    Client,       \* panels
    Written,      \* the settings they write
    Torn,         \* a file that no longer parses
    MaxWrites,    \* bound: settings written
    MaxTroubles   \* bound: power cuts, full disks and damaged files

(***************************************************************************)
(* The schema, and what start_services.py wires to it                      *)
(***************************************************************************)

Hook(key, hook) == [key |-> key, apply |-> "hook", hook |-> hook]
Restart(key) == [key |-> key, apply |-> "restart", hook |-> "none"]

GeneralSettings == {Hook("weatherPlace", "weather"), Restart("timeZone")}

MediaSettings ==
    {Hook("media.autoplayRadio", "media"), Hook("media.resumeRadioAfterSpotify", "media"),
     Hook("spotifyDeviceId", "spotify"), Hook("spotifyDeviceName", "spotify")}

AudioSettings ==
    {Hook(key, "audio") : key \in {"audio.volumePercent", "audio.outputDevice"}}
    \cup {Hook(key, "equalizer") : key \in {"audio.eqBand1", "audio.eqBand2", "audio.eqBand3",
                                            "audio.eqBand4", "audio.eqBand5", "audio.bassBoost"}}

ElectricitySettings ==
    {Restart("spotPrice.enabled"), Hook("electricityPriceEurPerKwh", "charging"),
     Hook("spotPrice.marginCentsPerKwh", "spot_price"), Hook("spotPrice.vatPercent", "spot_price"),
     Hook("myenergi.pollIntervalSeconds", "myenergi"),
     Hook("myenergi.minSessionEnergyKwh", "charging"),
     Hook("myenergi.sessionMergeMinutes", "charging")}

TeslaSettings == {Hook("trip.min_stop_minutes", "trip"), Hook("trip.min_trip_distance_km", "trip")}

MaintenanceSettings ==
    {Hook("logging.level", "logging"), Hook("logging.debugMinutes", "logging"),
     Restart("server.reachability"), Hook("auth.tokenLifetimeDays", "auth")}

\* A flag of a telemetry field, in config.json but in no schema.
FieldFlag == "tesla data.BatteryLevel.line_mode"

Schema ==
    GeneralSettings \cup MediaSettings \cup AudioSettings \cup ElectricitySettings
    \cup TeslaSettings \cup MaintenanceSettings

\* The hooks start_services registers; myenergi only where there is a charger.
Registered ==
    {"weather", "trip", "charging", "spot_price", "spotify", "media", "audio",
     "auth", "equalizer", "logging"}

\* __effective_apply: a hook nobody registered makes a setting wait for a restart.
Live(key) ==
    \/ key = FieldFlag
    \/ \E setting \in Schema :
           setting.key = key /\ setting.apply = "hook" /\ setting.hook \in Registered

\* Keys whose value is applied behind a lock: AudioService's, Vehicle's.
Slow == {setting.key : setting \in AudioSettings} \cup {FieldFlag}

LogKeys == {"logging.level", "logging.debugMinutes"}
ReturnKey == "logging.levelBeforeDebug"
Key == Written \cup LogKeys \cup {ReturnKey}

(***************************************************************************)
(* Documents                                                               *)
(***************************************************************************)

Unset == "unset"
Values(key) ==
    CASE key = "logging.level" -> {"info", "warning", "debug"}
      [] key = ReturnKey -> {"info", "warning"}
      [] key = "logging.debugMinutes" -> {"0", "30"}
      [] OTHER -> {"a", "b"}

Default(key) ==
    CASE key \in {"logging.level", ReturnKey} -> "info"
      [] key = "logging.debugMinutes" -> "30"
      [] OTHER -> "a"

Text == UNION {Values(key) \cup {Unset} : key \in Key}
Document == {doc \in [Key -> Text] :
                \A key \in Key : doc[key] \in Values(key) \cup {Unset}}

\* The accessors that merge a block over its defaults.
Merged(doc, key) == IF doc[key] = Unset THEN Default(key) ELSE doc[key]

ASSUME ConstantsAssumption ==
    /\ Written \subseteq {setting.key : setting \in Schema} \cup {FieldFlag}
    /\ LogKeys \subseteq Written
    /\ Torn \notin [Key -> Text]
    /\ MaxWrites \in Nat /\ MaxTroubles \in Nat

VARIABLES
    up,        \* the process runs
    armed,     \* a restart is armed
    doc,       \* the Config object's document
    disk,      \* config.json and its .bak
    full,      \* writes to the disk may fail
    inForce,   \* the value each service runs with
    counting,  \* DEBUG's countdown runs
    job,       \* the write of each panel, and its turn at a service's lock
    fresh,     \* panels whose schema shows the document; the others lag
    present,   \* panels connected
    missed,    \* keys whose service was not told, or could not be saved
    untold,    \* a write was cut off before its broadcast
    writes, troubles

diskVars == <<doc, disk>>
panelVars == <<job, fresh, present, untold>>
vars == <<up, armed, diskVars, full, inForce, counting, panelVars, missed,
          writes, troubles>>

NoWrite == [step |-> "none", key |-> Unset, value |-> Unset, turn |-> 0]
Job(step, key, value, turn) == [step |-> step, key |-> key, value |-> value, turn |-> turn]
IsDocument(file) == file # Torn

TypeOK ==
    /\ doc \in Document
    /\ disk \in [live : Document \cup {Torn}, bak : Document \cup {Torn}]
    /\ inForce \in Document /\ \A key \in Key : inForce[key] # Unset
    /\ job \in [Client -> {NoWrite} \cup [step : {"hook", "replying"}, key : Written,
                                         value : Text \ {Unset}, turn : 0..writes]]
    /\ \A c \in Client : job[c] # NoWrite => job[c].value \in Values(job[c].key)
    /\ \A c \in Client : job[c].step = "hook" => job[c].key \in Slow
    /\ writes \in 0..MaxWrites /\ troubles \in 0..MaxTroubles
    /\ fresh \subseteq Client /\ present \subseteq Client /\ missed \subseteq Key
    /\ up \in BOOLEAN /\ armed \in BOOLEAN /\ full \in BOOLEAN
    /\ counting \in BOOLEAN /\ untold \in BOOLEAN

(***************************************************************************)
(* Config.save: the file in force is copied beside itself, then replaced   *)
(* whole.  The copy is not atomic and its failure is only logged.          *)
(***************************************************************************)

Copies(files) == {files.live} \cup (IF full THEN {Torn, files.bak} ELSE {})

\* Mutant of Saves: the copy is made after the file was replaced.
SavesThenCopies(files, new) == {[live |-> new, bak |-> new]}

Saves(files, new) == {[live |-> new, bak |-> copy] : copy \in Copies(files)}
Failures(files) == IF full THEN {[files EXCEPT !.bak = copy] : copy \in Copies(files)} ELSE {}

\* Mutant of Interrupted: the new text goes straight into the file in force.
InterruptedInPlace(files, new) ==
    {files} \cup Saves(files, new)
    \cup {[live |-> Torn, bak |-> copy] : copy \in Copies(files)}

\* What a power cut inside a save leaves.
Interrupted(files, new) ==
    {files} \cup {[files EXCEPT !.bak = copy] : copy \in {Torn, files.live}} \cup Saves(files, new)

\* Mutant of Entering: every write made at DEBUG is a way into it.
EnteringAgain(level, left) == level = "debug"

\* The level is remembered on the way into DEBUG only.
Entering(level, left) == level = "debug" /\ left # "debug"

\* LogLevel.apply_config on document d, saved as f: the level, the level to
\* return to (saved again, and kept in memory when that fails), the countdown.
LogHook(d, f) ==
    LET level == Merged(d, "logging.level")
        minutes == Merged(d, "logging.debugMinutes")
        left == inForce["logging.level"]
        returning == [d EXCEPT ![ReturnKey] = left]
    IN  /\ \/ /\ Entering(level, left)
              /\ doc' = returning
              /\ disk' \in Saves(f, returning) \cup Failures(f)
           \/ /\ ~Entering(level, left)
              /\ doc' = d /\ disk' = f
        /\ inForce' = [inForce EXCEPT !["logging.level"] = level, !["logging.debugMinutes"] = minutes]
        /\ counting' = (level = "debug" /\ minutes # "0")
        /\ missed' = missed \ LogKeys

\* __write from config.set to the hooks that do not wait.
Put(key, value) ==
    LET d == [doc EXCEPT ![key] = value]
    IN  \E f \in Saves(disk, d) :
            IF key \in LogKeys THEN LogHook(d, f)
            ELSE /\ doc' = d /\ disk' = f
                 /\ inForce' = IF Live(key) /\ key \notin Slow
                               THEN [inForce EXCEPT ![key] = value] ELSE inForce
                 /\ UNCHANGED <<counting, missed>>

\* A save failed: the merged value goes back, pinned even if it was a default;
\* a field's flag goes back to being absent.
Rollback(key, value) ==
    doc' = IF key = FieldFlag THEN doc ELSE [doc EXCEPT ![key] = Merged(doc, key)]

(***************************************************************************)
(* Handlers                                                                *)
(***************************************************************************)

CanWrite(c, key, value) ==
    /\ up /\ c \in present /\ job[c] = NoWrite /\ writes < MaxWrites
    /\ key \in Written /\ value \in Values(key) /\ value # Merged(doc, key)

Write(c) ==
    \E key \in Written : \E value \in Values(key) :
        /\ CanWrite(c, key, value)
        /\ Put(key, value)
        /\ fresh' = {} /\ writes' = writes + 1
        /\ IF key \in Slow
           THEN job' = [job EXCEPT ![c] = Job("hook", key, value, writes')]
           ELSE job' = [job EXCEPT ![c] = Job("replying", key, value, 0)]
        /\ UNCHANGED <<up, armed, full, present, untold, troubles>>

WriteFails(c) ==
    \E key \in Written : \E value \in Values(key) :
        /\ CanWrite(c, key, value)
        /\ disk' \in Failures(disk)
        /\ Rollback(key, value)
        /\ writes' = writes + 1
        /\ UNCHANGED <<up, armed, full, inForce, counting, panelVars, missed, troubles>>

Waits(c, key) == job[c].step = "hook" /\ job[c].key = key

\* The lock is handed on in the order in which it was asked for.
Turn(c) == \A other \in Client : Waits(other, job[c].key) => job[c].turn <= job[other].turn

\* The service has its lock and runs with the value the hook read.  It is told
\* again only when nothing read earlier is still to come.
Applied(c) ==
    /\ job[c].step = "hook" /\ Turn(c)
    /\ LET key == job[c].key
       IN  /\ inForce' = [inForce EXCEPT ![key] = job[c].value]
           /\ missed' = IF /\ job[c].value = Merged(doc, key)
                           /\ \A other \in Client \ {c} : ~Waits(other, key)
                        THEN missed \ {key} ELSE missed
    /\ job' = [job EXCEPT ![c].step = "replying", ![c].turn = 0]
    /\ UNCHANGED <<up, armed, diskVars, full, counting, fresh, present, untold,
                   writes, troubles>>

\* The reply is out; the schema of this moment goes to everyone.
Told(c) ==
    /\ job[c].step = "replying"
    /\ job' = [job EXCEPT ![c] = NoWrite]
    /\ fresh' = present /\ untold' = FALSE
    /\ UNCHANGED <<up, armed, diskVars, full, inForce, counting, present, missed,
                   writes, troubles>>

Connect(c) ==
    /\ up /\ c \notin present
    /\ present' = present \cup {c} /\ fresh' = fresh \cup {c}
    /\ UNCHANGED <<up, armed, diskVars, full, inForce, counting, job, untold, missed,
                   writes, troubles>>

\* The server cancels a departing client's handler, wherever it waits.
Leave(c) ==
    /\ c \in present
    /\ present' = present \ {c} /\ fresh' = fresh \ {c}
    /\ job' = [job EXCEPT ![c] = NoWrite]
    /\ untold' = (untold \/ job[c] # NoWrite)
    /\ missed' = missed \cup (IF job[c].step = "hook" THEN {job[c].key} ELSE {})
    /\ UNCHANGED <<up, armed, diskVars, full, inForce, counting, writes, troubles>>

\* Mutant of ExpireTold: the level changes behind the panels' backs.
ExpireSilently == fresh' = {} /\ UNCHANGED untold

\* apply_write broadcasts after its own write.
ExpireTold == fresh' = present /\ untold' = FALSE

\* __expire_after: back to the level DEBUG came from, even if it cannot be saved.
Expire ==
    LET target == Merged(doc, ReturnKey)
    IN  /\ up /\ counting
        /\ \/ Put("logging.level", target) /\ ExpireTold
           \/ /\ disk' \in Failures(disk)
              /\ Rollback("logging.level", target)
              /\ inForce' = [inForce EXCEPT !["logging.level"] = target]
              /\ missed' = missed \cup {"logging.level"}
              /\ counting' = FALSE /\ UNCHANGED <<fresh, untold>>
        /\ UNCHANGED <<up, armed, full, job, present, writes, troubles>>

(***************************************************************************)
(* Restart, crash and start                                                *)
(***************************************************************************)

\* The process ends; what it held in memory goes with it.
Down ==
    /\ up' = FALSE /\ armed' = FALSE /\ counting' = FALSE
    /\ job' = [c \in Client |-> NoWrite]
    /\ fresh' = {} /\ present' = {} /\ missed' = {} /\ untold' = FALSE

\* request_restart: refused while an update runs, unless the update asks.
RestartAsked ==
    /\ up /\ ~armed /\ troubles < MaxTroubles
    /\ armed' = TRUE /\ troubles' = troubles + 1
    /\ UNCHANGED <<up, diskVars, full, inForce, counting, panelVars, missed, writes>>

\* run, a quarter of a second later.
Exit ==
    /\ up /\ armed /\ Down
    /\ UNCHANGED <<diskVars, full, inForce, writes, troubles>>

\* The power goes, between two writes or inside one.
PowerCut ==
    /\ up /\ troubles < MaxTroubles /\ Down
    /\ \/ UNCHANGED disk
       \/ \E key \in Written : \E value \in Values(key) :
              LET d == [doc EXCEPT ![key] = value]
                  returning == [d EXCEPT ![ReturnKey] = inForce["logging.level"]]
              IN  /\ value # Merged(doc, key)
                  /\ \/ disk' \in Interrupted(disk, d)
                     \/ /\ value = "debug"
                        /\ \E f \in Saves(disk, d) : disk' \in Interrupted(f, returning)
    /\ troubles' = troubles + 1
    /\ UNCHANGED <<doc, full, inForce, writes>>

\* config.json is damaged while nothing runs, its copy being sound.
Damage ==
    /\ ~up /\ IsDocument(disk.bak) /\ troubles < MaxTroubles
    /\ disk' = [disk EXCEPT !.live = Torn] /\ troubles' = troubles + 1
    /\ UNCHANGED <<up, armed, doc, full, inForce, counting, panelVars, missed, writes>>

Fill ==
    /\ IF full THEN UNCHANGED troubles ELSE troubles < MaxTroubles /\ troubles' = troubles + 1
    /\ full' = ~full
    /\ UNCHANGED <<up, armed, diskVars, inForce, counting, panelVars, missed, writes>>

Counted(d) == Merged(d, "logging.level") = "debug" /\ Merged(d, "logging.debugMinutes") # "0"

\* Mutant of Started: only a change of the level starts a countdown.
StartedIdle(d) == counting' = FALSE /\ inForce' = [key \in Key |-> Merged(d, key)]

\* Every service reads the document; LogLevel applies it, and a kept DEBUG counts again.
Started(d) ==
    /\ inForce' = [key \in Key |-> Merged(d, key)]
    /\ counting' = Counted(d)

\* Config.__init__: the file in force, or else its copy, which replaces it.  A
\* start that cannot make that replacement ends there and changes nothing: the
\* file is as damaged as it was.
Start ==
    LET source == IF IsDocument(disk.live) THEN disk.live ELSE disk.bak
    IN  /\ ~up /\ IsDocument(source)
        /\ up' = TRUE
        /\ doc' = source /\ disk' = [disk EXCEPT !.live = source]
        /\ Started(source)
        /\ UNCHANGED <<armed, full, panelVars, missed, writes, troubles>>

Init ==
    LET first == [key \in Key |-> Unset]
    IN  /\ up = FALSE /\ armed = FALSE /\ full = FALSE /\ counting = FALSE
        /\ doc = first /\ disk = [live |-> first, bak |-> Torn]
        /\ inForce = [key \in Key |-> Default(key)]
        /\ job = [c \in Client |-> NoWrite]
        /\ fresh = {} /\ present = {} /\ missed = {} /\ untold = FALSE
        /\ writes = 0 /\ troubles = 0

Next ==
    \/ \E c \in Client :
           \/ Write(c) \/ WriteFails(c) \/ Applied(c) \/ Told(c) \/ Connect(c) \/ Leave(c)
    \/ Expire
    \/ RestartAsked \/ Exit \/ PowerCut \/ Damage \/ Fill \/ Start

Spec == Init /\ [][Next]_vars

\* Starts that succeed: one that replaces a damaged file may fail for as long
\* as the disk is full.
StartSucceeds == (full => IsDocument(disk.live)) /\ Start

\* The service manager starts the process; the event loop runs its timers.
FairSpec == Spec /\ WF_vars(StartSucceeds) /\ WF_vars(Exit) /\ WF_vars(Expire)

(***************************************************************************)
(* Properties                                                              *)
(***************************************************************************)

\* Whenever the power goes, and whatever a full disk did to the copy before,
\* one of the two files can be started from: the order copy, replace of
\* Config.save never exposes both, or the service manager would restart the
\* backend for ever.
AFileToStartFrom == IsDocument(disk.live) \/ IsDocument(disk.bak)

\* A running service and config.json agree on every setting applied live,
\* once no write of it waits for the service, save where the write was cut
\* off or DEBUG's end could not be written.
ServicesRunTheFile ==
    up => \A key \in Written :
              /\ Live(key) /\ key \notin missed
              /\ \A c \in Client : ~Waits(c, key)
              => inForce[key] = Merged(disk.live, key)

\* The file governs: one can always be started from, and a service that nobody is about to
\* call runs what it says, whatever fails or is cut off on the way (Config.save, __write).
FileGoverns == AFileToStartFrom /\ ServicesRunTheFile

\* When no write is under way every panel shows the document, unless a
\* handler was cut off between its save and its broadcast.
PanelsShowTheDocument ==
    (up /\ ~untold /\ \A c \in Client : job[c] = NoWrite) => present \subseteq fresh

\* What a start finds: the file in force or else its copy, with every default filled in.
Filled(d) == [key \in Key |-> Merged(d, key)]
Durable == IF IsDocument(disk.live) THEN disk.live ELSE disk.bak

Settings == INSTANCE DurableSettings WITH
    Setting <- Written, Level <- "logging.level", Return <- ReturnKey, Lost <- Torn,
    running <- up,
    known <- Filled(IF up THEN doc ELSE Durable),
    saved <- Filled(Durable),
    spare <- IF IsDocument(disk.bak) THEN Filled(disk.bak) ELSE Torn

\* The document, its file and its copy are one set of durable settings, whichever saves fail,
\* are cut off by the power or leave the copy behind (Config.save, Config.__init__, __write).
ImplementsSettings == Settings!DurableSpec

\* DEBUG with a duration ends for good, across restarts, power cuts and a
\* disk that takes no writes.
DebugEnds ==
    <>[]~(up /\ inForce["logging.level"] = "debug" /\ inForce["logging.debugMinutes"] # "0")
=============================================================================
