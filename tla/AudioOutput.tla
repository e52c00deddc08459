----------------------------- MODULE AudioOutput -----------------------------
(***************************************************************************)
(* The host's audio: AudioService (backend/src/audio_service), with the    *)
(* PipeWire filter chain of its equalizer and the commands of its backend, *)
(* on a host that has PipeWire.  The chain is a sink of its own: while it  *)
(* runs it is the default output, and plays on into the real one, its      *)
(* target.                                                                 *)
(*                                                                         *)
(* The service's lock is held over every command, one of which is a step   *)
(* of the holder's plan:                                                   *)
(*   device     the chosen output becomes the default                      *)
(*   volume     the volume, on the output that plays                       *)
(*   remember   the default the chain is going to replace                  *)
(*   start      the chain; target: the output it plays into                *)
(*   takeover   the chain becomes the default; on: its volume and state    *)
(*   handback   the default goes back to a real output; forget: it is no   *)
(*              longer remembered; failed: the state, where a start failed *)
(*   stop       the chain; off: the volume and the state                   *)
(*   sync       what the gains call for, decided when it is reached        *)
(*   apply      the same for the device and volume of the first start      *)
(* A write's handler is cut off when its panel leaves, at any step.  Gains *)
(* are flat or not.  A chain dies with the backend that started it, and a  *)
(* default sink that is gone falls back to the one WirePlumber prefers.    *)
(***************************************************************************)
EXTENDS Naturals, Sequences

CONSTANTS
    Device,      \* real outputs
    Fallback,    \* the one WirePlumber prefers
    Request,     \* slots for writes of audio settings
    None,
    MaxWrites,   \* bound: settings written
    MaxTroubles  \* bound: crashes, lost chains, failures and cut writes

Chain == "chain"
Main == "main"       \* the run task
Volume == {"low", "high"}
DefaultVolume == "low"

ASSUME ConstantsAssumption ==
    /\ Fallback \in Device /\ None \notin Device \cup {Chain, Main} \cup Request
    /\ Chain \notin Device /\ Main \notin Request
    /\ MaxWrites \in Nat /\ MaxTroubles \in Nat

VARIABLES
    phase,    \* down, detecting, probing (no equalizer yet), starting, adopting, ready
    config,   \* the audio block, on disk as well but for the next
    kept,     \* audio.hostDefaultDevice, on disk
    service,  \* what AudioService runs with
    host,     \* WirePlumber's default, the chain's sink, volumes
    job,      \* what each task asks of the lock
    queue,    \* tasks waiting for it, in order
    lock,     \* its holder and the steps it has left
    cut,      \* a write was cut off since the service started
    lost,     \* the host's own default could not be read, kept or put back
    gone,     \* a chain was lost, and none has come up or been stopped since
    failed,   \* of the volume and the target: the calls whose last try failed
    writes, troubles

vars == <<phase, config, kept, service, host, job, queue, lock, cut, lost, gone, failed,
          writes, troubles>>

Task == Request \cup {Main}
Step == {"device", "volume", "remember", "start", "target", "takeover", "on", "handback",
         "forget", "failed", "stop", "off", "sync", "apply"}
Free == [owner |-> None, plan |-> <<>>]
NoJob == [kind |-> "none", output |-> None, volume |-> None, curve |-> FALSE]

TypeOK ==
    /\ phase \in {"down", "detecting", "probing", "starting", "adopting", "ready"}
    /\ config \in [output : Device \cup {None}, volume : Volume \cup {None},
                   curve : BOOLEAN, hostDefault : Device \cup {None}]
    /\ kept \in Device \cup {None}
    /\ service \in [output : Device \cup {None}, volume : Volume, curve : BOOLEAN,
                    state : {"detecting", "off", "on", "failed"},
                    chain : {"none", "started", "running"}]
    /\ host \in [default : Device \cup {Chain}, chain : BOOLEAN, target : Device \cup {None},
                 volume : [Device -> Volume]]
    /\ \A i \in DOMAIN lock.plan : lock.plan[i] \in Step
    /\ (lock.owner = None) = (lock.plan = <<>>)
    \* A task that has a job waits for the lock or holds it, never twice.
    /\ \A t \in Task : (job[t] # NoJob) =
           (lock.owner = t \/ \E i \in DOMAIN queue : queue[i] = t)
    /\ \A i \in DOMAIN queue :
           queue[i] # lock.owner /\ \A j \in DOMAIN queue : queue[i] = queue[j] => i = j
    /\ (service.state = "on" /\ lock = Free /\ ~cut) => service.curve
    /\ cut \in BOOLEAN /\ lost \in BOOLEAN /\ gone \in BOOLEAN
    /\ failed \subseteq {"volume", "target"}

(***************************************************************************)
(* The host                                                                *)
(***************************************************************************)

Running == service.chain = "running"

\* __equalizer_target: the chosen output, else the default the chain replaced.
Target == IF service.output # None THEN service.output ELSE config.hostDefault

\* Where sound comes out.
Heard ==
    LET out == CASE host.default # Chain -> host.default
                 [] host.default = Chain /\ host.chain -> host.target
                 [] OTHER -> None
    IN  IF out = None THEN Fallback ELSE out

Trouble == troubles < MaxTroubles /\ troubles' = troubles + 1

\* A command whose result nobody looks at has changed the host, or failed.
Command(name, changed) ==
    \/ host' = changed /\ failed' = failed \ {name} /\ UNCHANGED troubles
    \/ Trouble /\ failed' = failed \cup {name} /\ UNCHANGED host

\* Mutant of SetVolume: the default output's volume is set.
SetDefaultVolume(volume) ==
    Command("volume", IF host.default = Chain THEN host ELSE [host EXCEPT !.volume[Heard] = volume])

\* __apply_volume: behind a running chain on its target, by name; the sink of
\* a chain that has none takes the volume itself.
SetVolume(volume) ==
    Command("volume",
        CASE Running /\ Target # None -> [host EXCEPT !.volume[Target] = volume]
          [] host.default = Chain /\ host.chain /\ Target = None -> host
          [] OTHER -> [host EXCEPT !.volume[Heard] = volume])

\* Mutant of Keep: the value stays in memory.
KeepInMemory(value) ==
    config' = [config EXCEPT !.hostDefault = value] /\ UNCHANGED <<kept, lost, troubles>>

\* __store_host_default: a save that fails is logged.
Keep(value) ==
    /\ config' = [config EXCEPT !.hostDefault = value]
    /\ \/ config.hostDefault # value /\ kept' = value /\ UNCHANGED <<lost, troubles>>
       \/ config.hostDefault = value /\ UNCHANGED <<kept, lost, troubles>>
       \/ /\ troubles < MaxTroubles /\ config.hostDefault # value /\ kept # value
          /\ troubles' = troubles + 1 /\ lost' = TRUE /\ UNCHANGED kept

(***************************************************************************)
(* The lock and its holders                                                *)
(***************************************************************************)

\* __sync_equalizer: the chain is brought in line with the gains.
SyncPlan ==
    CASE service.curve /\ ~Running -> <<"remember", "start">>
      [] ~service.curve /\ Running -> <<"handback", "forget", "stop", "off">>
      [] OTHER -> <<>>   \* retuned, or off as it is

\* __apply: the device, where it is another one, then the volume.
ApplyPlan(output, changed, hasVolume) ==
    (CASE changed /\ Running -> <<"target">>
       [] changed /\ ~Running /\ output # None -> <<"device">>
       [] OTHER -> <<>>)
    \o (IF hasVolume THEN <<"volume">> ELSE <<>>)

\* The holder goes on with its plan, or lets the lock go and is done.
Go(plan) ==
    /\ lock' = IF plan = <<>> THEN Free ELSE [lock EXCEPT !.plan = plan]
    /\ job' = IF plan = <<>> THEN [job EXCEPT ![lock.owner] = NoJob] ELSE job
    /\ phase' = IF plan # <<>> \/ job[lock.owner].kind # "start" THEN phase
                ELSE IF config.volume = None THEN "adopting" ELSE "ready"

Rest == Tail(lock.plan)
At(step) == lock.plan # <<>> /\ Head(lock.plan) = step

\* The first in line takes the lock; what it asks for is decided here.
Take(t, plan) ==
    /\ lock = Free /\ queue # <<>> /\ t = Head(queue)
    /\ queue' = Tail(queue)
    /\ lock' = IF plan = <<>> THEN Free ELSE [owner |-> t, plan |-> plan]
    /\ job' = IF plan = <<>> THEN [job EXCEPT ![t] = NoJob] ELSE job
    /\ UNCHANGED <<phase, config, kept, host, cut, lost, gone, failed, writes, troubles>>

BeginStart ==
    /\ job[Main].kind = "start" /\ service' = [service EXCEPT !.state = "off"]
    /\ Take(Main, (IF ~service.curve /\ config.hostDefault # None
                   THEN <<"handback", "forget">> ELSE <<>>) \o <<"sync", "apply">>)

BeginAudio(t) ==
    LET asked == job[t] IN
    /\ asked.kind = "audio"
    /\ service' = [service EXCEPT !.output = asked.output]
    /\ Take(t, ApplyPlan(asked.output, asked.output # service.output, TRUE))

\* Before the equalizer is detected, the gains are only noted.
BeginCurve(t) ==
    /\ job[t].kind = "curve"
    /\ service' = [service EXCEPT !.curve = job[t].curve]
    /\ Take(t, IF phase \in {"detecting", "probing"} THEN <<>> ELSE <<"sync">>)

\* The timer's check; a graph that cannot be read is taken to hold the chain.
BeginCheck ==
    /\ job[Main].kind = "check"
    /\ \/ Take(Main, <<>>) /\ UNCHANGED service
          /\ (service.state # "on" \/ Running)
       \/ Take(Main, <<"stop", "sync">>) /\ service.state = "on" /\ ~(Running /\ host.chain)
          /\ UNCHANGED service

(***************************************************************************)
(* The steps of a holder                                                   *)
(***************************************************************************)

bounds == <<queue, cut, writes>>
rest == <<bounds, gone, failed>>

\* A default that cannot be set stays what it was.
MakeDefault(output) ==
    \/ host' = [host EXCEPT !.default = output] /\ UNCHANGED <<lost, troubles>>
    \/ Trouble /\ lost' = TRUE /\ UNCHANGED host

DoDevice ==
    /\ At("device") /\ Go(Rest) /\ MakeDefault(service.output)
    /\ UNCHANGED <<config, kept, service, rest>>

DoVolume ==
    LET asked == job[lock.owner]
        volume == IF asked.kind = "audio" THEN asked.volume ELSE service.volume
    IN  /\ At("volume") /\ Go(Rest) /\ SetVolume(volume)
        /\ service' = [service EXCEPT !.volume = volume]
        /\ UNCHANGED <<config, kept, lost, gone, bounds>>

\* __remember_host_default: a value it has is kept.
DoRemember ==
    LET taken == host.default = Chain /\ host.chain IN
    /\ At("remember") /\ Go(Rest)
    /\ \/ config.hostDefault # None /\ UNCHANGED <<config, kept, lost, troubles>>
       \/ config.hostDefault = None /\ ~taken /\ Keep(Heard)
       \/ config.hostDefault = None /\ taken /\ lost' = TRUE /\ UNCHANGED <<config, kept, troubles>>
       \/ config.hostDefault = None /\ Trouble /\ lost' = TRUE /\ UNCHANGED <<config, kept>>
    /\ UNCHANGED <<service, host, rest>>

\* PipeWireEqualizer.start: what is left of an earlier chain is stopped, and
\* the new one's nodes appear while it waits, or do not.
DoStart ==
    /\ At("start")
    /\ \/ /\ service.chain # "started"
          /\ service' = [service EXCEPT !.chain = "started"]
          /\ host' = [host EXCEPT !.chain = FALSE]
          /\ UNCHANGED <<lock, job, phase, troubles>>
       \/ /\ service.chain = "started"
          /\ service' = [service EXCEPT !.chain = "running"]
          /\ host' = [host EXCEPT !.chain = TRUE, !.target = None]
          /\ Go(<<"target", "takeover", "on">> \o Rest) /\ UNCHANGED troubles
       \/ /\ service.chain = "started" /\ Trouble
          /\ service' = [service EXCEPT !.chain = "none"] /\ UNCHANGED host
          /\ Go(<<"handback", "forget", "failed">> \o Rest)
    /\ UNCHANGED <<config, kept, lost, rest>>

DoTarget ==
    /\ At("target") /\ Go(Rest)
    /\ Command("target", [host EXCEPT !.target = IF host.chain THEN Target ELSE @])
    /\ UNCHANGED <<config, kept, service, lost, gone, bounds>>

DoTakeover ==
    /\ At("takeover") /\ Go(Rest)
    /\ \/ host.chain /\ MakeDefault(Chain)
       \/ ~host.chain /\ UNCHANGED <<host, lost, troubles>>
    /\ UNCHANGED <<config, kept, service, rest>>

\* The volume command answers, then the state changes.
DoOn ==
    /\ At("on") /\ Go(Rest) /\ SetVolume(service.volume)
    /\ service' = [service EXCEPT !.state = "on"] /\ gone' = ~host.chain
    /\ UNCHANGED <<config, kept, lost, bounds>>

\* __restore_default: whether or not the default could be set, it is forgotten.
DoHandback ==
    /\ At("handback") /\ Go(Rest)
    /\ \/ Target # None /\ MakeDefault(Target)
       \/ Target = None /\ UNCHANGED <<host, lost, troubles>>
    /\ UNCHANGED <<config, kept, service, rest>>

DoForget ==
    /\ At("forget") /\ Go(Rest) /\ Keep(None)
    /\ UNCHANGED <<service, host, rest>>

DoFailed ==
    /\ At("failed") /\ Go(Rest) /\ service' = [service EXCEPT !.state = "failed"]
    /\ UNCHANGED <<config, kept, host, lost, troubles, rest>>

DoStop ==
    /\ At("stop") /\ Go(Rest)
    /\ service' = [service EXCEPT !.chain = "none"]
    /\ host' = [host EXCEPT !.chain = FALSE] /\ failed' = failed \ {"target"}
    /\ UNCHANGED <<config, kept, lost, gone, troubles, bounds>>

DoOff ==
    /\ At("off") /\ Go(Rest) /\ SetVolume(service.volume)
    /\ service' = [service EXCEPT !.state = "off"] /\ gone' = FALSE
    /\ UNCHANGED <<config, kept, lost, bounds>>

\* Mutant of DoSync: the state is left to the chain's own start and stop.
DoSyncOnly ==
    /\ At("sync") /\ Go(SyncPlan \o Rest)
    /\ UNCHANGED <<config, kept, service, host, lost, troubles, rest>>

\* A flat curve with no chain running is off.
DoSync ==
    /\ At("sync") /\ Go(SyncPlan \o Rest)
    /\ service' = IF ~service.curve /\ ~Running THEN [service EXCEPT !.state = "off"] ELSE service
    /\ UNCHANGED <<config, kept, host, lost, troubles, rest>>

\* The first start pushes the device whatever it was, and a stored volume.
DoApply ==
    /\ At("apply")
    /\ Go(ApplyPlan(service.output, TRUE, config.volume # None) \o Rest)
    /\ UNCHANGED <<config, kept, service, host, lost, troubles, rest>>

Holder ==
    \/ DoDevice \/ DoVolume \/ DoRemember \/ DoStart \/ DoTarget \/ DoTakeover \/ DoOn
    \/ DoHandback \/ DoForget \/ DoFailed \/ DoStop \/ DoOff \/ DoSync \/ DoApply

(***************************************************************************)
(* The run task and the writes                                             *)
(***************************************************************************)

Ask(t, kind) ==
    /\ job' = [job EXCEPT ![t] = [kind |-> kind, output |-> config'.output, curve |-> config'.curve,
                 volume |-> IF config'.volume = None THEN DefaultVolume ELSE config'.volume]]
    /\ queue' = Append(queue, t)

\* AudioService() takes the settings; the chain is gone with the last backend.
Start ==
    /\ phase = "down" /\ phase' = "detecting" /\ cut' = FALSE /\ gone' = FALSE /\ failed' = {}
    /\ config' = [config EXCEPT !.hostDefault = kept]
    /\ service' = [output |-> config.output, curve |-> config.curve, state |-> "detecting",
                   chain |-> "none",
                   volume |-> IF config.volume = None THEN DefaultVolume ELSE config.volume]
    /\ UNCHANGED <<kept, host, job, queue, lock, lost, writes, troubles>>

DetectBackend ==
    /\ phase = "detecting" /\ phase' = "probing"
    /\ UNCHANGED <<config, kept, service, host, job, lock, lost, troubles, rest>>

DetectEqualizer ==
    /\ phase = "probing" /\ phase' = "starting"
    /\ UNCHANGED <<config, kept, service, host, lock, cut, lost, gone, failed, writes, troubles>>
    /\ job' = [job EXCEPT ![Main] = [NoJob EXCEPT !.kind = "start"]] /\ queue' = Append(queue, Main)

\* The volume of the output that plays; a chain with no target gives its own.
HostVolumes ==
    CASE Running /\ Target # None -> {host.volume[Target]}
      [] host.default = Chain /\ host.chain /\ Target = None -> Volume
      [] OTHER -> {host.volume[Heard]}

StoredVolume == IF config.volume = None THEN DefaultVolume ELSE config.volume

\* __adopt_host_volume: with no volume stored, the host's becomes the setting.
Adopt ==
    /\ phase = "adopting" /\ phase' = "ready"
    /\ \E volume \in HostVolumes :
           /\ service' = [service EXCEPT !.volume = volume]
           /\ \/ volume = StoredVolume /\ UNCHANGED <<config, kept, job, queue>>
              \/ /\ volume # StoredVolume
                 /\ config' = [config EXCEPT !.volume = volume]
                 /\ kept' = config.hostDefault /\ Ask(Main, "audio")
    /\ UNCHANGED <<host, lock, cut, lost, gone, failed, writes, troubles>>

\* A volume that cannot be read stays as it is.
CannotAdopt ==
    /\ phase = "adopting" /\ phase' = "ready" /\ Trouble
    /\ UNCHANGED <<config, kept, service, host, job, queue, lock, cut, lost, gone,
                   failed, writes>>

\* The timer: __check_equalizer.
Check ==
    /\ phase = "ready" /\ job[Main] = NoJob
    /\ \/ /\ service.state = "on"
          /\ job' = [job EXCEPT ![Main] = [NoJob EXCEPT !.kind = "check"]]
          /\ queue' = Append(queue, Main)
       \/ service.state # "on" /\ UNCHANGED <<job, queue>>
    /\ UNCHANGED <<phase, config, kept, service, host, lock, cut, lost, gone, failed, writes,
                   troubles>>

Write(t) ==
    /\ phase # "down" /\ job[t] = NoJob /\ writes < MaxWrites /\ writes' = writes + 1
    /\ \/ /\ config' = [config EXCEPT !.curve = ~config.curve] /\ Ask(t, "curve")
       \/ /\ phase # "detecting"   \* guard_write: no backend yet
          /\ \/ \E output \in (Device \cup {None}) \ {config.output} :
                    config' = [config EXCEPT !.output = output]
             \/ \E volume \in Volume \ {StoredVolume} :
                    config' = [config EXCEPT !.volume = volume]
          /\ Ask(t, "audio")
    /\ kept' = config.hostDefault   \* the save writes the whole document
    /\ UNCHANGED <<phase, service, host, lock, cut, lost, gone, failed, troubles>>

\* The queue without a task, which waits in it once at most.
Without(t) ==
    IF \E i \in DOMAIN queue : queue[i] = t
    THEN LET place == CHOOSE i \in DOMAIN queue : queue[i] = t
         IN  [i \in 1..Len(queue) - 1 |-> queue[IF i < place THEN i ELSE i + 1]]
    ELSE queue

\* The panel of a write leaves, and its handler is cancelled where it waits.
Cut(t) ==
    /\ job[t] # NoJob /\ Trouble /\ cut' = TRUE
    /\ job' = [job EXCEPT ![t] = NoJob]
    /\ lock' = IF lock.owner = t THEN Free ELSE lock
    /\ queue' = Without(t)
    /\ UNCHANGED <<phase, config, kept, service, host, lost, gone, failed, writes>>

\* PipeWire restarts: the sink is gone, its process dies or lingers.
ChainLost ==
    /\ host.chain /\ Trouble /\ gone' = TRUE
    /\ host' = [host EXCEPT !.chain = FALSE]
    /\ \/ UNCHANGED service
       \/ service' = [service EXCEPT !.chain = "none"]
    /\ UNCHANGED <<phase, config, kept, job, queue, lock, cut, lost, failed, writes>>

Crash ==
    /\ phase # "down" /\ phase' = "down" /\ Trouble
    /\ job' = [t \in Task |-> NoJob] /\ queue' = <<>> /\ lock' = Free
    /\ service' = [service EXCEPT !.chain = "none", !.state = "detecting"]
    /\ host' = [host EXCEPT !.chain = FALSE]
    /\ UNCHANGED <<config, kept, cut, lost, gone, failed, writes>>

Init ==
    /\ phase = "down"
    /\ config \in [output : {None}, volume : {None, "high"}, curve : BOOLEAN, hostDefault : {None}]
    /\ kept = None
    /\ service = [output |-> None, volume |-> DefaultVolume, curve |-> FALSE,
                  state |-> "detecting", chain |-> "none"]
    /\ host \in [default : Device, chain : {FALSE}, target : {None}, volume : [Device -> Volume]]
    /\ job = [t \in Task |-> NoJob] /\ queue = <<>> /\ lock = Free
    /\ cut = FALSE /\ lost = FALSE /\ gone = FALSE /\ failed = {} /\ writes = 0 /\ troubles = 0

Begin == BeginStart \/ BeginCheck \/ \E t \in Task : BeginAudio(t) \/ (t # Main /\ BeginCurve(t))

\* A lock that is free goes to the first in line before anything else.
Next ==
    \/ Begin
    \/ /\ lock = Free => queue = <<>>
       /\ \/ Start \/ DetectBackend \/ DetectEqualizer \/ Adopt \/ CannotAdopt \/ Check
          \/ Holder \/ ChainLost \/ Crash
          \/ \E t \in Request : Write(t) \/ Cut(t)

Spec == Init /\ [][Next]_vars

(***************************************************************************)
(* Properties                                                              *)
(***************************************************************************)

\* Every write has been answered, and no lost chain waits for the timer.
Settled == phase = "ready" /\ lock = Free /\ queue = <<>> /\ ~cut /\ ~lost /\ ~gone

\* As long as the chain is the host's default output, which the host remembers
\* across a restart, the output to go back to is on disk, whatever crash
\* comes: the chosen one, or the host's own (__remember_host_default).
TheHostsChoiceIsKept ==
    host.default = Chain => config.output # None \/ kept # None \/ lost

\* Once the writes are answered, a stored volume is the volume of the output
\* that is heard, however often the sound moved between outputs and in and
\* out of the chain (__apply: "device first, volume second, always").  A
\* command that failed is not repeated: what it left holds until the next one.
VolumeFollowsTheOutput ==
    Settled /\ config.volume # None /\ failed = {} => host.volume[Heard] = config.volume

\* And the output that is heard is the one chosen, behind a chain as well.
TheChosenOutputIsHeard ==
    Settled /\ config.output # None /\ "target" \notin failed => Heard = config.output

\* The sound comes out where it was chosen to, as loud as it was chosen to.
TheChosenSoundIsHeard == VolumeFollowsTheOutput /\ TheChosenOutputIsHeard

\* What equalizer_runtime tells the Options view: whether the chain runs.
StateTellsTheChain ==
    Settled => (Running <=> service.state = "on")
=============================================================================
