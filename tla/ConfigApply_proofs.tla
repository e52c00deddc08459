-------------------------- MODULE ConfigApply_proofs --------------------------
(***************************************************************************)
(* Proofs about ConfigApply, for every set of panels and settings and      *)
(* every bound: one of the two files can always be started from, every     *)
(* service ends up running what the file says, and the panels show it.     *)
(***************************************************************************)
EXTENDS ConfigApply, TLAPS

\* Any document; what its values are does not matter here.
Doc == [Key -> Text]
Files == [live : Doc \cup {Torn}, bak : Doc \cup {Torn}]
AnyJob == [step : {"none", "hook", "replying"}, key : Key \cup {Unset}, value : Text, turn : Nat]
Sound == [live : Doc, bak : Doc \cup {Torn}]

\* What is in memory can be written: every value comes from a document, from a
\* panel or from the schema.
InMemory ==
    /\ doc \in Doc
    /\ inForce \in Doc
    /\ job \in [Client -> AnyJob] /\ writes \in Nat

\* While the process runs the file in force parses; no save can undo it.
DiskInv ==
    /\ disk \in Files
    /\ up => disk.live # Torn
    /\ AFileToStartFrom

IInv == InMemory /\ DiskInv

(***************************************************************************)
(* Values and documents                                                    *)
(***************************************************************************)

LEMMA KeysAreKnown == Written \subseteq Key /\ LogKeys \subseteq Key /\ ReturnKey \in Key
  BY DEF Key

LEMMA ValuesAreText ==
    ASSUME NEW key \in Key
    PROVE  Default(key) \in Text /\ Unset \in Text /\ \A value \in Values(key) : value \in Text
  <1>1. Default(key) \in Values(key)
    BY DEF Default, Values, ReturnKey
  <1> QED BY <1>1 DEF Text

LEMMA MergedIsText ==
    ASSUME NEW d \in Doc, NEW key \in Key
    PROVE  Merged(d, key) \in Text
  BY ValuesAreText DEF Doc, Merged

LEMMA DocIsSound == ASSUME NEW d \in Doc PROVE d # Torn
  BY ConstantsAssumption DEF Doc

(***************************************************************************)
(* Config.save                                                             *)
(***************************************************************************)

LEMMA SoundIsSound ==
    ASSUME NEW files \in Sound
    PROVE  files \in Files /\ files.live # Torn
  BY DocIsSound DEF Sound, Files

\* A save, whether it succeeds, fails or is interrupted, leaves a file in
\* force that parses if there was one.
LEMMA SaveIsSound ==
    ASSUME NEW files \in Sound, NEW new \in Doc
    PROVE  Saves(files, new) \subseteq Sound /\ Failures(files) \subseteq Sound
           /\ Interrupted(files, new) \subseteq Sound
  <1>1. Copies(files) \subseteq Doc \cup {Torn}
    BY DEF Copies, Sound
  <1>2. Saves(files, new) \subseteq Sound
    BY <1>1 DEF Saves, Sound
  <1>3. Failures(files) \subseteq Sound
    BY <1>1 DEF Failures, Sound
  <1>4. Interrupted(files, new) \subseteq Sound
    BY <1>2 DEF Interrupted, Sound
  <1> QED BY <1>2, <1>3, <1>4

LEMMA LogHookIsSound ==
    ASSUME NEW d \in Doc, NEW f \in Sound, inForce \in Doc, LogHook(d, f)
    PROVE  doc' \in Doc /\ inForce' \in Doc /\ disk' \in Sound
  <1> DEFINE level == Merged(d, "logging.level")
             minutes == Merged(d, "logging.debugMinutes")
             returning == [d EXCEPT ![ReturnKey] = inForce["logging.level"]]
  <1>1. level \in Text /\ minutes \in Text /\ inForce["logging.level"] \in Text
    BY KeysAreKnown, MergedIsText DEF LogKeys, Doc
  <1>2. returning \in Doc
    BY <1>1 DEF Doc
  <1>3. inForce' \in Doc
    <2>1. inForce' = [inForce EXCEPT !["logging.level"] = level, !["logging.debugMinutes"] = minutes]
      BY DEF LogHook
    <2> HIDE DEF level, minutes
    <2> QED BY <1>1, <2>1 DEF Doc
  <1>4. \/ doc' = returning /\ disk' \in Saves(f, returning) \cup Failures(f)
        \/ doc' = d /\ disk' = f
    BY DEF LogHook
  <1> HIDE DEF returning
  <1> QED BY <1>2, <1>3, <1>4, SaveIsSound

LEMMA PutIsSound ==
    ASSUME InMemory, disk \in Sound, NEW key \in Written, NEW value \in Text, Put(key, value)
    PROVE  doc' \in Doc /\ inForce' \in Doc /\ disk' \in Sound
  <1> DEFINE d == [doc EXCEPT ![key] = value]
  <1>1. d \in Doc
    BY DEF InMemory, Doc
  <1>2. PICK f \in Saves(disk, d) :
            IF key \in LogKeys THEN LogHook(d, f)
            ELSE /\ doc' = d /\ disk' = f
                 /\ inForce' = IF Live(key) /\ key \notin Slow
                               THEN [inForce EXCEPT ![key] = value] ELSE inForce
    BY Zenon DEF Put
  <1> HIDE DEF d
  <1>3. f \in Sound
    BY <1>1, SaveIsSound
  <1>4. CASE key \in LogKeys
    BY <1>1, <1>2, <1>3, <1>4, LogHookIsSound DEF InMemory
  <1>5. CASE key \notin LogKeys
    BY <1>1, <1>2, <1>3, <1>5 DEF InMemory, Doc
  <1> QED BY <1>4, <1>5

LEMMA RollbackIsSound ==
    ASSUME doc \in Doc, NEW key \in Written, NEW value, Rollback(key, value)
    PROVE  doc' \in Doc
  <1>1. Merged(doc, key) \in Text
    BY KeysAreKnown, MergedIsText
  <1> QED BY <1>1 DEF Rollback, Doc

(***************************************************************************)
(* The invariant                                                           *)
(***************************************************************************)

LEMMA RunningIsSound ==
    ASSUME DiskInv, up
    PROVE  disk \in Sound
  BY DEF DiskInv, Files, Sound

LEMMA SoundKeepsInv ==
    ASSUME disk' \in Sound
    PROVE  DiskInv'
  BY SoundIsSound DEF DiskInv, AFileToStartFrom, IsDocument

LEMMA NoWriteIsAJob == NoWrite \in AnyJob
  BY KeysAreKnown, ValuesAreText DEF NoWrite, AnyJob

LEMMA InitInv == Init => IInv
  <1> SUFFICES ASSUME Init PROVE IInv
    OBVIOUS
  <1>1. [key \in Key |-> Unset] \in Doc
    BY ValuesAreText DEF Doc
  <1>2. InMemory
    BY <1>1, NoWriteIsAJob, ValuesAreText DEF Init, InMemory, Doc
  <1>3. disk = [live |-> [key \in Key |-> Unset], bak |-> Torn]
    BY DEF Init
  <1>4. disk \in Sound
    BY <1>1, <1>3 DEF Sound
  <1> QED BY <1>2, <1>4, SoundIsSound DEF IInv, DiskInv, AFileToStartFrom, IsDocument

\* What changes neither memory nor disk nor brings the process up keeps both.
LEMMA NothingSaved ==
    ASSUME IInv, UNCHANGED <<doc, inForce, disk>>, up' => up,
           job' \in [Client -> AnyJob], UNCHANGED writes
    PROVE  IInv'
  BY DEF IInv, InMemory, DiskInv, AFileToStartFrom, IsDocument

LEMMA StepInv == IInv /\ [Next]_vars => IInv'
  <1> SUFFICES ASSUME IInv, [Next]_vars PROVE IInv'
    OBVIOUS
  <1> USE KeysAreKnown
  <1>1. ASSUME NEW c \in Client, Write(c) PROVE IInv'
    <2>1. PICK key \in Written, value \in Text :
              /\ CanWrite(c, key, value) /\ Put(key, value)
              /\ \/ job' = [job EXCEPT ![c] = Job("hook", key, value, writes')]
                 \/ job' = [job EXCEPT ![c] = Job("replying", key, value, 0)]
      BY <1>1, ValuesAreText DEF Write
    <2>2. up /\ writes' = writes + 1 /\ writes' \in Nat
      BY <1>1, <2>1 DEF CanWrite, Write, IInv, InMemory
    <2>3. job' \in [Client -> AnyJob]
      BY <2>1, <2>2 DEF Job, AnyJob, IInv, InMemory
    <2> QED BY <2>1, <2>2, <2>3, RunningIsSound, PutIsSound, SoundKeepsInv DEF IInv, InMemory
  <1>2. ASSUME NEW c \in Client, WriteFails(c) PROVE IInv'
    <2>1. PICK key \in Written, value \in Text :
              CanWrite(c, key, value) /\ disk' \in Failures(disk) /\ Rollback(key, value)
      BY <1>2, ValuesAreText DEF WriteFails
    <2>2. disk \in Sound
      BY <2>1, RunningIsSound DEF CanWrite, IInv
    <2>3. disk' \in Sound
      BY <2>1, <2>2, SaveIsSound DEF IInv, InMemory
    <2>4. doc' \in Doc
      BY <2>1, RollbackIsSound DEF IInv, InMemory
    <2>5. UNCHANGED <<inForce, job>> /\ writes' \in Nat
      BY <1>2 DEF WriteFails, panelVars, IInv, InMemory
    <2> QED BY <2>3, <2>4, <2>5, SoundKeepsInv DEF IInv, InMemory
  <1>3. ASSUME NEW c \in Client, Applied(c) PROVE IInv'
    <2>1. /\ inForce' = [inForce EXCEPT ![job[c].key] = job[c].value]
          /\ job' = [job EXCEPT ![c].step = "replying", ![c].turn = 0]
          /\ UNCHANGED <<up, doc, disk, writes>>
      BY <1>3 DEF Applied, diskVars
    <2>2. job[c] \in AnyJob
      BY DEF IInv, InMemory
    <2>3. inForce' \in Doc
      BY <2>1, <2>2 DEF IInv, InMemory, Doc, AnyJob
    <2>4. [job[c] EXCEPT !.step = "replying", !.turn = 0] \in AnyJob
      BY <2>2 DEF AnyJob
    <2>5. job' \in [Client -> AnyJob]
      BY <2>1, <2>4 DEF IInv, InMemory
    <2>6. InMemory'
      BY <2>1, <2>3, <2>5 DEF IInv, InMemory
    <2> QED BY <2>1, <2>6 DEF IInv, DiskInv, AFileToStartFrom, IsDocument
  <1>4. ASSUME NEW c \in Client, Told(c) \/ Leave(c) PROVE IInv'
    <2>1. job' = [job EXCEPT ![c] = NoWrite] /\ UNCHANGED <<up, doc, disk, inForce, writes>>
      BY <1>4 DEF Told, Leave, diskVars
    <2>2. job' \in [Client -> AnyJob]
      BY <2>1, NoWriteIsAJob DEF IInv, InMemory
    <2> QED BY <2>1, <2>2, NothingSaved
  <1>5. ASSUME NEW c \in Client, Connect(c) PROVE IInv'
    BY <1>5, NothingSaved DEF Connect, diskVars, IInv, InMemory
  <1>6. CASE Expire
    <2>1. up /\ UNCHANGED <<job, writes>>
      BY <1>6 DEF Expire
    <2>2. disk \in Sound
      BY <2>1, RunningIsSound DEF IInv
    <2>3. Merged(doc, ReturnKey) \in Text /\ "logging.level" \in Written
      BY MergedIsText, ConstantsAssumption DEF IInv, InMemory, LogKeys
    <2>4. CASE Put("logging.level", Merged(doc, ReturnKey))
      BY <2>1, <2>2, <2>3, <2>4, PutIsSound, SoundKeepsInv DEF IInv, InMemory
    <2>5. CASE /\ disk' \in Failures(disk)
               /\ Rollback("logging.level", Merged(doc, ReturnKey))
               /\ inForce' = [inForce EXCEPT !["logging.level"] = Merged(doc, ReturnKey)]
      <3>1. disk' \in Sound
        BY <2>2, <2>5, SaveIsSound DEF IInv, InMemory
      <3>2. doc' \in Doc
        BY <2>3, <2>5, RollbackIsSound DEF IInv, InMemory
      <3>3. inForce' \in Doc
        BY <2>3, <2>5 DEF IInv, InMemory, Doc
      <3> QED BY <2>1, <3>1, <3>2, <3>3, SoundKeepsInv DEF IInv, InMemory
    <2> QED BY <1>6, <2>4, <2>5 DEF Expire
  <1>7. CASE RestartAsked \/ Fill
    BY <1>7, NothingSaved DEF RestartAsked, Fill, diskVars, panelVars, IInv, InMemory
  <1>8. CASE Exit
    <2>1. job' = [c \in Client |-> NoWrite] /\ ~up' /\ UNCHANGED <<doc, disk, inForce, writes>>
      BY <1>8 DEF Exit, Down, diskVars
    <2> QED BY <2>1, NoWriteIsAJob, NothingSaved
  <1>9. CASE PowerCut
    <2>1. /\ up /\ ~up' /\ job' = [c \in Client |-> NoWrite]
          /\ UNCHANGED <<doc, inForce, writes>>
      BY <1>9 DEF PowerCut, Down
    <2>2. disk \in Sound
      BY <2>1, RunningIsSound DEF IInv
    <2>3. InMemory'
      BY <2>1, NoWriteIsAJob DEF IInv, InMemory
    <2>4. CASE UNCHANGED disk
      BY <2>2, <2>3, <2>4, SoundKeepsInv DEF IInv
    <2>5. ASSUME NEW key \in Written, NEW value \in Values(key),
                 \/ disk' \in Interrupted(disk, [doc EXCEPT ![key] = value])
                 \/ \E f \in Saves(disk, [doc EXCEPT ![key] = value]) :
                        disk' \in Interrupted(f, [[doc EXCEPT ![key] = value]
                                                     EXCEPT ![ReturnKey] = inForce["logging.level"]])
          PROVE  IInv'
      <3> DEFINE d == [doc EXCEPT ![key] = value]
                 returning == [d EXCEPT ![ReturnKey] = inForce["logging.level"]]
      <3>1. d \in Doc
        BY ValuesAreText DEF IInv, InMemory, Doc
      <3>2. returning \in Doc
        BY <3>1 DEF IInv, InMemory, Doc, LogKeys
      <3>3. disk' \in Interrupted(disk, d) \/ \E f \in Saves(disk, d) : disk' \in Interrupted(f, returning)
        BY <2>5
      <3> HIDE DEF d, returning
      <3>4. disk' \in Sound
        BY <2>2, <3>1, <3>2, <3>3, SaveIsSound
      <3> QED BY <2>3, <3>4, SoundKeepsInv DEF IInv
    <2> QED BY <1>9, <2>4, <2>5, Zenon DEF PowerCut
  <1>10. CASE Damage
    <2>1. ~up /\ disk.bak # Torn /\ disk' = [disk EXCEPT !.live = Torn]
          /\ UNCHANGED <<up, doc, inForce, job, writes>>
      BY <1>10 DEF Damage, IsDocument, panelVars
    <2> QED BY <2>1 DEF IInv, InMemory, DiskInv, Files, AFileToStartFrom, IsDocument
  <1>11. CASE Start
    <2> DEFINE source == IF IsDocument(disk.live) THEN disk.live ELSE disk.bak
    <2>1. /\ source # Torn /\ doc' = source /\ disk' = [disk EXCEPT !.live = source]
          /\ inForce' = [key \in Key |-> Merged(source, key)] /\ UNCHANGED <<job, writes>>
      BY <1>11 DEF Start, Started, IsDocument, panelVars
    <2>2. source \in Doc
      BY <2>1 DEF IInv, DiskInv, Files, IsDocument
    <2> HIDE DEF source
    <2>3. disk' \in Sound
      BY <2>1, <2>2 DEF IInv, DiskInv, Files, Sound
    <2>4. inForce' \in Doc
      BY <2>1, <2>2, MergedIsText DEF Doc
    <2> QED BY <2>1, <2>2, <2>3, <2>4, SoundKeepsInv DEF IInv, InMemory
  <1>12. CASE UNCHANGED vars
    BY <1>12, NothingSaved DEF vars, diskVars, panelVars, IInv, InMemory
  <1> QED BY <1>1, <1>2, <1>3, <1>4, <1>5, <1>6, <1>7, <1>8, <1>9, <1>10, <1>11, <1>12 DEF Next

LEMMA AlwaysIInv == Spec => []IInv
  BY InitInv, StepInv, PTL DEF Spec

\* One of config.json and its copy always parses, whatever the power and the
\* disk do in the middle of Config.save, and however often (write_atomic).
THEOREM AlwaysAFile == Spec => []AFileToStartFrom
  <1>1. IInv => AFileToStartFrom
    BY DEF IInv, DiskInv
  <1> QED BY <1>1, AlwaysIInv, PTL

(***************************************************************************)
(* What a write does to the document, the file and the services            *)
(***************************************************************************)

\* The keys that wait for a lock are not the log level's, and the level that
\* DEBUG returns to is no setting.
LEMMA SettingsAreApart == LogKeys \cap Slow = {} /\ ReturnKey \notin Written
  <1>1. LogKeys \cap Slow = {}
    <2>1. \A setting \in AudioSettings : setting.key \notin LogKeys
      BY DEF AudioSettings, Hook, LogKeys
    <2>2. FieldFlag \notin LogKeys
      BY DEF FieldFlag, LogKeys
    <2> QED BY <2>1, <2>2 DEF Slow
  <1>2. \A setting \in GeneralSettings \cup MediaSettings \cup AudioSettings : setting.key # ReturnKey
    BY DEF GeneralSettings, MediaSettings, AudioSettings, Hook, Restart, ReturnKey
  <1>3. \A setting \in ElectricitySettings \cup TeslaSettings \cup MaintenanceSettings :
            setting.key # ReturnKey
    BY DEF ElectricitySettings, TeslaSettings, MaintenanceSettings, Hook, Restart, ReturnKey
  <1>4. FieldFlag # ReturnKey
    BY DEF FieldFlag, ReturnKey
  <1> QED BY <1>1, <1>2, <1>3, <1>4, ConstantsAssumption DEF Schema

\* No setting's value is the mark of an absent one.
LEMMA ValuesAreSet ==
    ASSUME NEW key
    PROVE  Default(key) \in Values(key) /\ Unset \notin Values(key)
  BY DEF Default, Values, ReturnKey, Unset

\* Two documents say the same of a setting.
Agree(d, e, key) == Merged(d, key) = Merged(e, key)

\* Setting one key of a document says so of it and leaves the others.
LEMMA SetOne ==
    ASSUME NEW d \in Doc, NEW key \in Key, NEW value
    PROVE  /\ \A k \in Key \ {key} : Agree([d EXCEPT ![key] = value], d, k)
           /\ value # Unset => Merged([d EXCEPT ![key] = value], key) = value
  BY DEF Doc, Agree, Merged

LEMMA SavesTheNew ==
    ASSUME NEW files, NEW new, NEW f \in Saves(files, new)
    PROVE  f.live = new /\ \A g \in Failures(f) : g.live = new
  BY DEF Saves, Failures

(***************************************************************************)
(* The services and the file                                               *)
(***************************************************************************)

\* The file in force says what the document says, though a level to return to
\* may be missing from it, or a pinned default.
FileSaysTheDocument ==
    up => disk.live \in Doc /\ \A key \in Written : Agree(disk.live, doc, key)

ServicesRunTheDocument ==
    up => \A key \in Written :
              /\ Live(key) /\ key \notin missed
              /\ \A c \in Client : ~Waits(c, key)
              => inForce[key] = Merged(doc, key)

\* Nobody asked for the lock after c.
Last(c) == \A other \in Client : Waits(other, job[c].key) => job[other].turn <= job[c].turn

\* The last to wait brings what the document says, unless a write after it was
\* cut off.
TheLastBringsTheDocument ==
    \A c \in Client : (job[c].step = "hook" /\ job[c].key \notin missed /\ Last(c))
                         => job[c].value = Merged(doc, job[c].key)

TicketsInOrder ==
    \A c \in Client : job[c].step = "hook" =>
                             job[c].key \in Slow \cap Written /\ job[c].turn <= writes

IdleWhenDown == ~up => \A c \in Client : job[c] = NoWrite

ServiceInv ==
    /\ FileSaysTheDocument
    /\ ServicesRunTheDocument
    /\ TheLastBringsTheDocument
    /\ TicketsInOrder
    /\ IdleWhenDown

\* DEBUG is in force only where the document asks for it.
DebugIsMeant ==
    up /\ inForce["logging.level"] = "debug" => Merged(doc, "logging.level") = "debug"

Inv == IInv /\ ServiceInv

\* What Config.set, its save and the hooks that do not wait do together.
LEMMA PutDoes ==
    ASSUME IInv, up, NEW key \in Written, NEW value \in Text \ {Unset}, Put(key, value)
    PROVE  /\ disk'.live \in Doc
           /\ \A k \in Written :
                  /\ Merged(doc', k) = IF k = key THEN value ELSE Merged(doc, k)
                  /\ Merged(disk'.live, k) = Merged(doc', k)
           /\ \A k \in Written \ LogKeys :
                  inForce'[k] = IF k = key /\ Live(k) /\ k \notin Slow THEN value ELSE inForce[k]
           /\ missed' = IF key \in LogKeys THEN missed \ LogKeys ELSE missed
           /\ \A k \in LogKeys : inForce'[k] = IF key \in LogKeys THEN Merged(doc', k) ELSE inForce[k]
  <1> DEFINE d == [doc EXCEPT ![key] = value]
             left == inForce["logging.level"]
             returning == [d EXCEPT ![ReturnKey] = left]
  <1> USE KeysAreKnown
  <1>1. d \in Doc /\ disk \in Sound /\ value # Unset
    BY RunningIsSound DEF IInv, InMemory, Doc
  <1>2. \A k \in Written : Merged(d, k) = IF k = key THEN value ELSE Merged(doc, k)
    BY <1>1, SetOne DEF Agree, IInv, InMemory
  <1>3. PICK f \in Saves(disk, d) :
            IF key \in LogKeys THEN LogHook(d, f)
            ELSE /\ doc' = d /\ disk' = f
                 /\ inForce' = IF Live(key) /\ key \notin Slow
                               THEN [inForce EXCEPT ![key] = value] ELSE inForce
                 /\ UNCHANGED <<counting, missed>>
    BY Zenon DEF Put
  <1>4. returning \in Doc /\ \A k \in Written : Merged(returning, k) = Merged(d, k)
    <2>1. left \in Text
      BY DEF IInv, InMemory, Doc, LogKeys
    <2>2. returning \in Doc
      BY <1>1, <2>1 DEF Doc
    <2>3. \A k \in Key \ {ReturnKey} : Merged(returning, k) = Merged(d, k)
      <3> HIDE DEF d, left
      <3> QED BY <1>1, SetOne DEF Agree
    <2> HIDE DEF returning, d
    <2> QED BY <2>2, <2>3, SettingsAreApart
  <1>5. f.live = d /\ \A g \in Failures(f) : g.live = d
    BY <1>3, SavesTheNew
  <1>6. \A g \in Saves(f, returning) : g.live = returning
    BY SavesTheNew
  <1>7. CASE key \in LogKeys
    <2>1. LogHook(d, f)
      BY <1>3, <1>7
    <2> DEFINE level == Merged(d, "logging.level")
               minutes == Merged(d, "logging.debugMinutes")
    <2>2. /\ \/ doc' = returning /\ disk' \in Saves(f, returning) \cup Failures(f)
             \/ doc' = d /\ disk' = f
          /\ inForce' = [inForce EXCEPT !["logging.level"] = level, !["logging.debugMinutes"] = minutes]
          /\ missed' = missed \ LogKeys
      BY <2>1 DEF LogHook
    <2>3. \A k \in Written : Merged(doc', k) = Merged(d, k)
      BY <1>4, <2>2
    <2>4. /\ inForce'["logging.level"] = level /\ inForce'["logging.debugMinutes"] = minutes
          /\ \A k \in Written \ LogKeys : inForce'[k] = inForce[k]
      <3> HIDE DEF level, minutes
      <3> QED BY <2>2 DEF IInv, InMemory, Doc, LogKeys
    <2>5. LogKeys \subseteq Written
      BY ConstantsAssumption
    <2>6. \A k \in LogKeys : inForce'[k] = Merged(doc', k)
      BY <2>3, <2>4, <2>5 DEF LogKeys
    <2>7. disk'.live \in {d, returning}
      BY <1>5, <1>6, <2>2
    <2> HIDE DEF d, returning, level, minutes
    <2> QED BY <1>1, <1>2, <1>4, <1>7, <2>2, <2>3, <2>4, <2>6, <2>7
  <1>8. CASE key \notin LogKeys
    <2>1. /\ doc' = d /\ disk' = f /\ missed' = missed
          /\ inForce' = IF Live(key) /\ key \notin Slow
                        THEN [inForce EXCEPT ![key] = value] ELSE inForce
      BY <1>3, <1>8
    <2>2. \A k \in Key : inForce'[k] = IF k = key /\ Live(k) /\ k \notin Slow
                                     THEN value ELSE inForce[k]
      BY <2>1 DEF IInv, InMemory, Doc
    <2>3. LogKeys \subseteq Key /\ disk'.live = doc'
      BY <1>5, <2>1
    <2> HIDE DEF d, returning
    <2>4. \A k \in LogKeys : inForce'[k] = inForce[k]
      BY <1>8, <2>2, <2>3
    <2>5. \A k \in Written \ LogKeys :
             inForce'[k] = IF k = key /\ Live(k) /\ k \notin Slow THEN value ELSE inForce[k]
      BY <2>2
    <2>6. \A k \in Written : /\ Merged(doc', k) = IF k = key THEN value ELSE Merged(doc, k)
                             /\ Merged(disk'.live, k) = Merged(doc', k)
      BY <1>2, <2>1, <2>3
    <2> QED BY <1>1, <1>8, <2>1, <2>3, <2>4, <2>5, <2>6
  <1> QED BY <1>7, <1>8

\* Taking a value back leaves every setting as it was.
LEMMA RollbackKeeps ==
    ASSUME IInv, NEW key \in Written, NEW value, Rollback(key, value)
    PROVE  \A k \in Written : Merged(doc', k) = Merged(doc, k)
  <1> USE KeysAreKnown
  <1>1. CASE key = FieldFlag
    BY <1>1 DEF Rollback
  <1>2. CASE key # FieldFlag
    <2>1. doc' = [doc EXCEPT ![key] = Merged(doc, key)]
      BY <1>2 DEF Rollback
    <2>2. Merged(doc, key) # Unset
      BY ValuesAreSet DEF Merged
    <2>3. doc \in Doc
      BY DEF IInv, InMemory
    <2> DEFINE kept == Merged(doc, key)
    <2>4. kept # Unset /\ doc' = [doc EXCEPT ![key] = kept]
      BY <2>1, <2>2
    <2>5. \A k \in Key \ {key} : Merged(doc', k) = Merged(doc, k)
      <3> HIDE DEF kept
      <3>1. \A k \in Key \ {key} : Agree([doc EXCEPT ![key] = kept], doc, k)
        BY <2>3, SetOne
      <3> QED BY <2>4, <3>1 DEF Agree
    <2>6. Merged(doc', key) = kept
      <3> HIDE DEF kept
      <3> QED BY <2>3, <2>4, SetOne
    <2> QED BY <2>5, <2>6
  <1> QED BY <1>1, <1>2

LEMMA FailuresKeepTheFile ==
    ASSUME NEW files \in Sound, NEW f \in Failures(files)
    PROVE  f.live = files.live
  BY DEF Failures, Sound

LEMMA InitService == Init => ServiceInv
  <1> SUFFICES ASSUME Init PROVE ServiceInv
    OBVIOUS
  <1>1. ~up /\ \A c \in Client : job[c] = NoWrite
    BY DEF Init
  <1> QED BY <1>1 DEF ServiceInv, FileSaysTheDocument, ServicesRunTheDocument,
             TheLastBringsTheDocument, TicketsInOrder, IdleWhenDown, NoWrite

\* A job that asks for no lock, before or after.
Apart(before, after) == before.step # "hook" /\ after.step # "hook"

LEMMA ServicesKept ==
    ASSUME Inv, UNCHANGED <<up, inForce, missed>>, FileSaysTheDocument', IdleWhenDown',
           \A key \in Written : Merged(doc', key) = Merged(doc, key),
           \A c \in Client : job'[c] = job[c] \/ Apart(job[c], job'[c]),
           writes' \in {writes, writes + 1}
    PROVE  ServiceInv'
  <1>1. \A c \in Client, key \in Written : Waits(c, key)' <=> Waits(c, key)
    BY DEF Waits, Apart
  <1>2. \A c \in Client : job'[c].step = "hook" => job'[c] = job[c]
    BY DEF Apart
  <1>3. ServicesRunTheDocument'
    BY <1>1 DEF Inv, ServiceInv, ServicesRunTheDocument
  <1>4. TicketsInOrder'
    <2>1. \A c \in Client : job[c].turn \in Nat
      BY DEF Inv, IInv, InMemory, AnyJob
    <2> QED BY <1>2, <2>1 DEF Inv, ServiceInv, IInv, InMemory, TicketsInOrder
  <1>5. TheLastBringsTheDocument'
    <2>1. ASSUME NEW c \in Client, job'[c].step = "hook", job'[c].key \notin missed', Last(c)'
          PROVE  job'[c].value = Merged(doc', job'[c].key)
      <3>1. job'[c] = job[c] /\ job[c].step = "hook" /\ job[c].key \in Written
        BY <1>2, <2>1 DEF Inv, ServiceInv, TicketsInOrder
      <3>2. Last(c)
        BY <1>1, <1>2, <2>1, <3>1 DEF Last, Waits
      <3> QED BY <2>1, <3>1, <3>2 DEF Inv, ServiceInv, TheLastBringsTheDocument
    <2> QED BY <2>1 DEF TheLastBringsTheDocument
  <1> QED BY <1>3, <1>4, <1>5 DEF ServiceInv

LEMMA DownServes ==
    ASSUME ~up', job' = [c \in Client |-> NoWrite]
    PROVE  ServiceInv'
  BY DEF ServiceInv, FileSaysTheDocument, ServicesRunTheDocument,
     TheLastBringsTheDocument, TicketsInOrder, IdleWhenDown, NoWrite

\* A write whose value is for a service with a lock leaves its handler waiting;
\* any other leaves no one waiting who did not.
LEMMA PutServes ==
    ASSUME Inv, up, up', NEW key \in Written, NEW value \in Text \ {Unset}, Put(key, value),
           \A c \in Client : \/ job'[c] = job[c]
                            \/ Apart(job[c], job'[c])
                            \/ /\ job[c].step # "hook" /\ key \in Slow
                               /\ job'[c] = Job("hook", key, value, writes + 1),
           key \in Slow => /\ writes' = writes + 1
                          /\ \E c \in Client : job'[c] = Job("hook", key, value, writes + 1),
           writes' \in {writes, writes + 1}
    PROVE  ServiceInv'
  <1>1. /\ disk'.live \in Doc
        /\ \A k \in Written :
              /\ Merged(doc', k) = IF k = key THEN value ELSE Merged(doc, k)
              /\ Merged(disk'.live, k) = Merged(doc', k)
        /\ \A k \in Written \ LogKeys :
              inForce'[k] = IF k = key /\ Live(k) /\ k \notin Slow THEN value ELSE inForce[k]
        /\ missed' = IF key \in LogKeys THEN missed \ LogKeys ELSE missed
        /\ \A k \in LogKeys : inForce'[k] = IF key \in LogKeys THEN Merged(doc', k) ELSE inForce[k]
    BY PutDoes DEF Inv
  <1>2. \A c \in Client : job[c].turn \in Nat /\ writes \in Nat
    BY DEF Inv, IInv, InMemory, AnyJob
  <1>3. \A c \in Client : job[c].step = "hook" => job'[c] = job[c]
    BY DEF Apart
  <1>4. \A c \in Client : job'[c].step = "hook" =>
           \/ job'[c] = job[c]
           \/ key \in Slow /\ job'[c] = Job("hook", key, value, writes + 1)
    BY DEF Apart
  <1>5. FileSaysTheDocument'
    BY <1>1 DEF FileSaysTheDocument, Agree
  <1>6. \A k \in Written \ {key}, c \in Client : Waits(c, k)' <=> Waits(c, k)
    BY <1>3, <1>4 DEF Waits, Job
  <1>7. key \in Slow => \E c \in Client : Waits(c, key)' /\ job'[c].turn = writes + 1
    BY DEF Waits, Job
  <1>8. ServicesRunTheDocument'
    <2>1. ASSUME NEW k \in Written, Live(k), k \notin missed', \A c \in Client : ~Waits(c, k)'
          PROVE  inForce'[k] = Merged(doc', k)
      <3>1. CASE k # key /\ (k \notin LogKeys \/ key \notin LogKeys)
        <4>1. inForce'[k] = inForce[k] /\ Merged(doc', k) = Merged(doc, k) /\ k \notin missed
          BY <1>1, <2>1, <3>1
        <4> QED BY <1>6, <2>1, <3>1, <4>1 DEF Inv, ServiceInv, ServicesRunTheDocument
      <3>2. CASE k \in LogKeys /\ key \in LogKeys
        BY <1>1, <3>2
      <3>3. CASE k = key /\ key \notin LogKeys
        <4>1. k \notin Slow
          BY <1>7, <2>1, <3>3
        <4> QED BY <1>1, <2>1, <3>3, <4>1
      <3> QED BY <3>1, <3>2, <3>3
    <2> QED BY <2>1 DEF ServicesRunTheDocument, Live
  <1>9. TicketsInOrder'
    BY <1>2, <1>4 DEF Inv, ServiceInv, TicketsInOrder, Job
  <1>10. TheLastBringsTheDocument'
    <2>1. ASSUME NEW c \in Client, job'[c].step = "hook", job'[c].key \notin missed', Last(c)'
          PROVE  job'[c].value = Merged(doc', job'[c].key)
      <3>1. CASE job'[c] = Job("hook", key, value, writes + 1)
        BY <1>1, <3>1 DEF Job
      <3>2. CASE job'[c] = job[c]
        <4> DEFINE k == job[c].key
        <4>1. k \in Slow \cap Written /\ job[c].turn <= writes
          BY <2>1, <3>2 DEF Inv, ServiceInv, TicketsInOrder
        <4>2. k # key
          BY <1>2, <1>7, <2>1, <3>2, <4>1 DEF Last
        <4>3. k \notin missed /\ Merged(doc', k) = Merged(doc, k)
          BY <1>1, <2>1, <3>2, <4>1, <4>2, SettingsAreApart
        <4>4. Last(c)
          BY <1>3, <1>6, <2>1, <3>2, <4>1, <4>2 DEF Last, Waits
        <4> QED BY <2>1, <3>2, <4>3, <4>4 DEF Inv, ServiceInv, TheLastBringsTheDocument
      <3> QED BY <1>4, <2>1, <3>1, <3>2
    <2> QED BY <2>1 DEF TheLastBringsTheDocument
  <1> QED BY <1>5, <1>8, <1>9, <1>10 DEF ServiceInv, IdleWhenDown

LEMMA StepService == Inv /\ [Next]_vars => ServiceInv'
  <1> SUFFICES ASSUME Inv, [Next]_vars PROVE ServiceInv'
    OBVIOUS
  <1> USE KeysAreKnown
  <1>0. writes \in Nat /\ job \in [Client -> AnyJob] /\ DiskInv
    BY DEF Inv, IInv, InMemory
  <1>1. ASSUME NEW c \in Client, Write(c) PROVE ServiceInv'
    <2>1. PICK key \in Written : \E value \in Values(key) :
              /\ CanWrite(c, key, value)
              /\ Put(key, value)
              /\ writes' = writes + 1
              /\ IF key \in Slow
                 THEN job' = [job EXCEPT ![c] = Job("hook", key, value, writes')]
                 ELSE job' = [job EXCEPT ![c] = Job("replying", key, value, 0)]
              /\ UNCHANGED up
      BY <1>1 DEF Write
    <2>2. PICK value \in Text \ {Unset} :
              /\ CanWrite(c, key, value)
              /\ Put(key, value)
              /\ writes' = writes + 1
              /\ IF key \in Slow
                 THEN job' = [job EXCEPT ![c] = Job("hook", key, value, writes')]
                 ELSE job' = [job EXCEPT ![c] = Job("replying", key, value, 0)]
              /\ UNCHANGED up
      BY <2>1, ValuesAreText, ValuesAreSet
    <2>3. up /\ up' /\ job[c] = NoWrite
      BY <2>2 DEF CanWrite
    <2>4. CASE key \in Slow
      <3>1. job' = [job EXCEPT ![c] = Job("hook", key, value, writes + 1)]
        BY <2>2, <2>4
      <3>2. \A d \in Client :
               \/ job'[d] = job[d]
               \/ /\ job[d].step # "hook" /\ key \in Slow
                  /\ job'[d] = Job("hook", key, value, writes + 1)
        BY <1>0, <2>3, <2>4, <3>1 DEF NoWrite
      <3>3. job'[c] = Job("hook", key, value, writes + 1)
        BY <1>0, <3>1
      <3> QED BY <2>2, <2>3, <3>2, <3>3, PutServes
    <2>5. CASE key \notin Slow
      <3>1. \A d \in Client : job'[d] = job[d] \/ Apart(job[d], job'[d])
        BY <1>0, <2>2, <2>3, <2>5 DEF NoWrite, Apart, Job
      <3> QED BY <2>2, <2>3, <2>5, <3>1, PutServes
    <2> QED BY <2>4, <2>5
  <1>2. ASSUME NEW c \in Client, WriteFails(c) PROVE ServiceInv'
    <2>1. PICK key \in Written, value \in Text :
              CanWrite(c, key, value) /\ disk' \in Failures(disk) /\ Rollback(key, value)
      BY <1>2, ValuesAreText DEF WriteFails
    <2>2. up /\ writes' = writes + 1 /\ UNCHANGED <<up, inForce, missed, job>>
      BY <1>2, <2>1 DEF WriteFails, CanWrite, panelVars
    <2>3. \A k \in Written : Merged(doc', k) = Merged(doc, k)
      BY <2>1, RollbackKeeps DEF Inv
    <2>4. disk'.live = disk.live
      BY <1>0, <2>1, <2>2, RunningIsSound, FailuresKeepTheFile
    <2>5. FileSaysTheDocument'
      BY <2>2, <2>3, <2>4 DEF Inv, ServiceInv, FileSaysTheDocument, Agree
    <2> QED BY <2>2, <2>3, <2>5, ServicesKept DEF IdleWhenDown
  <1>3. ASSUME NEW c \in Client, Applied(c) PROVE ServiceInv'
    <2> DEFINE key == job[c].key
               value == job[c].value
    <2>1. /\ job[c].step = "hook" /\ Turn(c)
          /\ inForce' = [inForce EXCEPT ![key] = value]
          /\ missed' = IF /\ value = Merged(doc, key)
                          /\ \A other \in Client \ {c} : ~Waits(other, key)
                       THEN missed \ {key} ELSE missed
          /\ job' = [job EXCEPT ![c].step = "replying", ![c].turn = 0]
          /\ UNCHANGED <<up, doc, disk, writes>>
      BY <1>3 DEF Applied, diskVars
    <2>2. key \in Slow \cap Written
      BY <2>1 DEF Inv, ServiceInv, TicketsInOrder
    <2>3. up
      BY <2>1 DEF Inv, ServiceInv, IdleWhenDown, NoWrite
    <2>4. job'[c].step = "replying" /\ \A d \in Client \ {c} : job'[d] = job[d]
      BY <1>0, <2>1 DEF AnyJob
    <2>5. /\ inForce'[key] = value
          /\ \A k \in Written \ {key} : inForce'[k] = inForce[k] /\ (k \in missed' <=> k \in missed)
      BY <2>1, <2>2 DEF Inv, IInv, InMemory, Doc
    <2>6. \A d \in Client \ {c}, k \in Written : Waits(d, k)' <=> Waits(d, k)
      BY <2>4 DEF Waits
    <2>7. ~Waits(c, key)' /\ \A k \in Written \ {key} : ~Waits(c, k)
      BY <2>4 DEF Waits
    <2>8. FileSaysTheDocument' /\ IdleWhenDown'
      BY <2>1, <2>3 DEF Inv, ServiceInv, FileSaysTheDocument, Agree, IdleWhenDown
    <2>9. TicketsInOrder'
      BY <2>1, <2>4 DEF Inv, ServiceInv, TicketsInOrder
    <2>10. ServicesRunTheDocument'
      <3>1. ASSUME NEW k \in Written, Live(k), k \notin missed', \A d \in Client : ~Waits(d, k)'
            PROVE  inForce'[k] = Merged(doc', k)
        <4>1. CASE k = key
          <5>1. \A other \in Client \ {c} : ~Waits(other, key)
            BY <2>2, <2>6, <3>1, <4>1
          <5>2. Last(c)
            BY <1>0, <5>1 DEF Last, AnyJob
          <5>3. value = Merged(doc, key)
            BY <2>1, <3>1, <4>1, <5>1, <5>2 DEF Inv, ServiceInv, TheLastBringsTheDocument
          <5> QED BY <2>1, <2>5, <4>1, <5>3
        <4>2. CASE k # key
          <5>1. \A d \in Client : ~Waits(d, k)
            BY <2>6, <2>7, <3>1, <4>2
          <5>2. inForce[k] = Merged(doc, k)
            BY <2>3, <2>5, <3>1, <4>2, <5>1 DEF Inv, ServiceInv, ServicesRunTheDocument
          <5> QED BY <2>1, <2>5, <4>2, <5>2
        <4> QED BY <4>1, <4>2
      <3> QED BY <3>1 DEF ServicesRunTheDocument, Live
    <2>11. TheLastBringsTheDocument'
      <3>1. ASSUME NEW d \in Client, job'[d].step = "hook", job'[d].key \notin missed', Last(d)'
            PROVE  job'[d].value = Merged(doc', job'[d].key)
        <4>1. d # c /\ job'[d] = job[d] /\ job[d].key \in Written
          BY <2>4, <3>1 DEF Inv, ServiceInv, TicketsInOrder
        <4>2. job[d].key \notin missed
          <5>1. CASE job[d].key = key
            BY <2>1, <3>1, <4>1, <5>1 DEF Waits
          <5> QED BY <2>5, <3>1, <4>1, <5>1
        <4>3. ASSUME NEW other \in Client, Waits(other, job[d].key)
              PROVE  job[other].turn <= job[d].turn
          <5>1. CASE other = c
            BY <2>1, <3>1, <4>1, <4>3, <5>1 DEF Turn, Waits
          <5>2. CASE other # c
            BY <2>4, <2>6, <3>1, <4>1, <4>3, <5>2 DEF Last
          <5> QED BY <5>1, <5>2
        <4>4. Last(d)
          BY <4>3 DEF Last
        <4> QED BY <2>1, <3>1, <4>1, <4>2, <4>4 DEF Inv, ServiceInv, TheLastBringsTheDocument
      <3> QED BY <3>1 DEF TheLastBringsTheDocument
    <2> QED BY <2>8, <2>9, <2>10, <2>11 DEF ServiceInv
  <1>4. ASSUME NEW c \in Client, Told(c) \/ Connect(c) PROVE ServiceInv'
    <2>1. UNCHANGED <<up, doc, disk, inForce, missed, writes>>
      BY <1>4 DEF Told, Connect, diskVars
    <2>2. /\ \A d \in Client : job'[d] = job[d] \/ Apart(job[d], job'[d])
          /\ \A d \in Client : job[d] = NoWrite => job'[d] = NoWrite
      BY <1>0, <1>4 DEF Told, Connect, Apart, NoWrite
    <2> QED BY <1>0, <2>1, <2>2, ServicesKept DEF Inv, ServiceInv, FileSaysTheDocument, Agree, IdleWhenDown
  <1>5. ASSUME NEW c \in Client, Leave(c) PROVE ServiceInv'
    <2>1. /\ job' = [job EXCEPT ![c] = NoWrite]
          /\ missed' = missed \cup (IF job[c].step = "hook" THEN {job[c].key} ELSE {})
          /\ UNCHANGED <<up, doc, disk, inForce, writes>>
      BY <1>5 DEF Leave, diskVars
    <2>2. job'[c] = NoWrite /\ \A d \in Client \ {c} : job'[d] = job[d]
      BY <1>0, <2>1
    <2>3. \A d \in Client, k \in Written : Waits(d, k)' => Waits(d, k) /\ d # c
      BY <2>2 DEF Waits, NoWrite
    <2>4. \A d \in Client, k \in Written : Waits(d, k) /\ k \notin missed' => Waits(d, k)'
      BY <2>1, <2>2 DEF Waits
    <2>5. ServicesRunTheDocument'
      BY <2>1, <2>4 DEF Inv, ServiceInv, ServicesRunTheDocument
    <2>6. TheLastBringsTheDocument'
      <3>1. ASSUME NEW d \in Client, job'[d].step = "hook", job'[d].key \notin missed', Last(d)'
            PROVE  job'[d].value = Merged(doc', job'[d].key)
        <4>1. d # c /\ job'[d] = job[d] /\ job[d].key \in Written /\ job[d].key \notin missed
          BY <2>1, <2>2, <3>1 DEF Inv, ServiceInv, TicketsInOrder, NoWrite
        <4>2. ASSUME NEW other \in Client, Waits(other, job[d].key)
              PROVE  job[other].turn <= job[d].turn
          <5>1. other # c
            BY <2>1, <3>1, <4>1, <4>2 DEF Waits
          <5> QED BY <2>2, <2>4, <3>1, <4>1, <4>2, <5>1 DEF Last
        <4>3. Last(d)
          BY <4>2 DEF Last
        <4> QED BY <2>1, <3>1, <4>1, <4>3 DEF Inv, ServiceInv, TheLastBringsTheDocument
      <3> QED BY <3>1 DEF TheLastBringsTheDocument
    <2>7. TicketsInOrder' /\ FileSaysTheDocument' /\ IdleWhenDown'
      BY <2>1, <2>2 DEF Inv, ServiceInv, TicketsInOrder, FileSaysTheDocument, Agree, IdleWhenDown, NoWrite
    <2> QED BY <2>5, <2>6, <2>7 DEF ServiceInv
  <1>6. CASE Expire
    <2> DEFINE target == Merged(doc, ReturnKey)
    <2>1. up /\ up' /\ UNCHANGED <<job, writes>>
      BY <1>6 DEF Expire
    <2>2. "logging.level" \in Written \ Slow /\ "logging.level" \in LogKeys
      BY SettingsAreApart, ConstantsAssumption DEF LogKeys
    <2>3. target \in Text \ {Unset}
      BY MergedIsText, ValuesAreSet DEF Merged, Inv, IInv, InMemory
    <2>4. CASE Put("logging.level", target)
      BY <2>1, <2>2, <2>3, <2>4, PutServes
    <2>5. CASE /\ disk' \in Failures(disk)
               /\ Rollback("logging.level", target)
               /\ inForce' = [inForce EXCEPT !["logging.level"] = target]
               /\ missed' = missed \cup {"logging.level"}
      <3>1. \A k \in Written : Merged(doc', k) = Merged(doc, k)
        BY <2>2, <2>5, RollbackKeeps DEF Inv
      <3>2. disk'.live = disk.live
        BY <1>0, <2>1, <2>5, RunningIsSound, FailuresKeepTheFile
      <3>3. FileSaysTheDocument' /\ TicketsInOrder' /\ IdleWhenDown'
        BY <2>1, <3>1, <3>2 DEF Inv, ServiceInv, FileSaysTheDocument, Agree, TicketsInOrder, IdleWhenDown
      <3>4. \A k \in Written \ {"logging.level"} : inForce'[k] = inForce[k]
        <4> HIDE DEF target
        <4> QED BY <2>5 DEF Inv, IInv, InMemory, Doc
      <3>5. ServicesRunTheDocument'
        BY <2>1, <2>5, <3>1, <3>4 DEF Inv, ServiceInv, ServicesRunTheDocument, Waits, Live
      <3>6. TheLastBringsTheDocument'
        BY <2>1, <2>5, <3>1 DEF Inv, ServiceInv, TheLastBringsTheDocument, TicketsInOrder, Last, Waits
      <3> QED BY <3>3, <3>5, <3>6 DEF ServiceInv
    <2> QED BY <1>6, <2>4, <2>5 DEF Expire
  <1>7. CASE RestartAsked \/ Fill \/ UNCHANGED vars
    <2>1. UNCHANGED <<up, doc, disk, inForce, missed, job, writes>>
      BY <1>7 DEF RestartAsked, Fill, vars, diskVars, panelVars
    <2> QED BY <1>0, <2>1, ServicesKept DEF Inv, ServiceInv, FileSaysTheDocument, Agree, IdleWhenDown
  <1>8. CASE Exit \/ PowerCut
    BY <1>8, DownServes DEF Exit, PowerCut, Down
  <1>9. CASE Damage
    <2>1. ~up /\ UNCHANGED <<up, doc, inForce, missed, job, writes>>
      BY <1>9 DEF Damage, panelVars
    <2> QED BY <1>0, <2>1, ServicesKept DEF Inv, ServiceInv, FileSaysTheDocument, IdleWhenDown
  <1>10. CASE Start
    <2> DEFINE source == IF IsDocument(disk.live) THEN disk.live ELSE disk.bak
    <2>1. /\ ~up /\ up' /\ source # Torn /\ doc' = source
          /\ disk' = [disk EXCEPT !.live = source]
          /\ inForce' = [key \in Key |-> Merged(source, key)] /\ UNCHANGED <<job, writes>>
      BY <1>10 DEF Start, Started, IsDocument, panelVars
    <2>2. source \in Doc /\ disk'.live = source
      BY <1>0, <2>1 DEF DiskInv, Files, IsDocument
    <2>3. \A c \in Client : job'[c] = NoWrite
      BY <2>1 DEF Inv, ServiceInv, IdleWhenDown
    <2> HIDE DEF source
    <2> QED BY <2>1, <2>2, <2>3 DEF ServiceInv, FileSaysTheDocument, Agree, ServicesRunTheDocument,
              TheLastBringsTheDocument, TicketsInOrder, IdleWhenDown, NoWrite
  <1> QED BY <1>1, <1>2, <1>3, <1>4, <1>5, <1>6, <1>7, <1>8, <1>9, <1>10 DEF Next

LEMMA AlwaysInv == Spec => []Inv
  <1>1. Init => Inv
    BY InitInv, InitService DEF Inv
  <1>2. Inv /\ [Next]_vars => Inv'
    BY StepInv, StepService DEF Inv
  <1> QED BY <1>1, <1>2, PTL DEF Spec

\* A running service and config.json agree on every setting applied live, once
\* no write of it waits for the service (ConfigService.__write, the lock of
\* AudioService and of Vehicle), for any number of panels and writes.
THEOREM AlwaysServicesRunTheFile == Spec => []ServicesRunTheFile
  <1>1. Inv => ServicesRunTheFile
    BY DEF Inv, ServiceInv, FileSaysTheDocument, Agree, ServicesRunTheDocument, ServicesRunTheFile
  <1> QED BY <1>1, AlwaysInv, PTL

\* Whatever fails or is cut off, a start finds a file and the services run what it says
\* (Config.save, ConfigService.__write).
THEOREM FileAlwaysGoverns == Spec => []FileGoverns
  BY AlwaysAFile, AlwaysServicesRunTheFile, PTL DEF FileGoverns

(***************************************************************************)
(* The panels and the document                                             *)
(***************************************************************************)

\* A process that does not run has no panels, so that it starts with none.
PanelInv == PanelsShowTheDocument /\ (~up => present = {})

LEMMA StepPanels == IInv /\ PanelInv /\ [Next]_vars => PanelInv'
  <1> SUFFICES ASSUME IInv, PanelInv, [Next]_vars PROVE PanelInv'
    OBVIOUS
  <1> USE DEF PanelInv, PanelsShowTheDocument
  <1>0. job \in [Client -> AnyJob]
    BY DEF IInv, InMemory
  <1>1. ASSUME NEW c \in Client, Write(c) PROVE PanelInv'
    <2>1. PICK key, value :
              /\ up /\ UNCHANGED <<up, present>>
              /\ \/ job' = [job EXCEPT ![c] = Job("hook", key, value, writes')]
                 \/ job' = [job EXCEPT ![c] = Job("replying", key, value, 0)]
      BY <1>1 DEF Write, CanWrite
    <2>2. job'[c] # NoWrite
      BY <1>0, <2>1 DEF Job, NoWrite
    <2> QED BY <2>1, <2>2
  <1>2. ASSUME NEW c \in Client, WriteFails(c) PROVE PanelInv'
    BY <1>2 DEF WriteFails, panelVars
  <1>3. ASSUME NEW c \in Client, Applied(c) PROVE PanelInv'
    <2>1. job'[c].step = "replying" /\ UNCHANGED <<up, present>>
      BY <1>0, <1>3 DEF Applied, AnyJob
    <2> QED BY <2>1 DEF NoWrite
  <1>4. ASSUME NEW c \in Client, Told(c) PROVE PanelInv'
    BY <1>4 DEF Told
  <1>5. ASSUME NEW c \in Client, Connect(c) PROVE PanelInv'
    BY <1>5 DEF Connect
  <1>6. ASSUME NEW c \in Client, Leave(c) PROVE PanelInv'
    BY <1>0, <1>6 DEF Leave
  <1>7. CASE Expire
    BY <1>7 DEF Expire, ExpireTold
  <1>8. CASE RestartAsked \/ Damage \/ Fill \/ UNCHANGED vars
    BY <1>8 DEF RestartAsked, Damage, Fill, vars, panelVars
  <1>9. CASE Exit \/ PowerCut
    BY <1>9 DEF Exit, PowerCut, Down
  <1>10. CASE Start
    BY <1>10 DEF Start, panelVars
  <1> QED BY <1>1, <1>2, <1>3, <1>4, <1>5, <1>6, <1>7, <1>8, <1>9, <1>10 DEF Next

\* When no write is under way every panel shows the document, unless a handler
\* was cut off between its save and its broadcast (ConfigService.__write,
\* LogLevel.apply_write): a broadcast of an earlier schema never comes last.
THEOREM AlwaysPanelsShowTheDocument == Spec => []PanelsShowTheDocument
  <1>1. Init => PanelInv
    BY DEF Init, PanelInv, PanelsShowTheDocument
  <1>2. Spec => []PanelInv
    BY <1>1, AlwaysIInv, StepPanels, PTL DEF Spec
  <1> QED BY <1>2, PTL DEF PanelInv

(***************************************************************************)
(* Types                                                                   *)
(***************************************************************************)

\* Memory, as TypeOK has it, and what keeps DEBUG out of the level to return
\* to: it is in force only where the document asks for it.
MemoryTyped ==
    /\ doc \in Document
    /\ inForce \in Document /\ \A key \in Key : inForce[key] # Unset
    /\ up /\ inForce["logging.level"] = "debug" => Merged(doc, "logging.level") = "debug"

TypedFiles == [live : Document \cup {Torn}, bak : Document \cup {Torn}]
FilesTyped == disk \in TypedFiles

WriteJobs == [step : {"hook", "replying"}, key : Written, value : Text \ {Unset}, turn : 0..writes]

JobsTyped ==
    /\ job \in [Client -> {NoWrite} \cup WriteJobs]
    /\ \A c \in Client : job[c] # NoWrite => job[c].value \in Values(job[c].key)

NumbersTyped == writes \in 0..MaxWrites /\ troubles \in 0..MaxTroubles
SetsTyped == fresh \subseteq Client /\ present \subseteq Client /\ missed \subseteq Key
FlagsTyped ==
    /\ up \in BOOLEAN /\ armed \in BOOLEAN /\ full \in BOOLEAN
    /\ counting \in BOOLEAN /\ untold \in BOOLEAN

TypeInv == MemoryTyped /\ FilesTyped /\ JobsTyped /\ NumbersTyped /\ SetsTyped /\ FlagsTyped

\* Documents are read a key at a time.
LEMMA DocumentPointwise ==
    ASSUME NEW d
    PROVE  d \in Document <=> d \in Doc /\ \A key \in Key : d[key] \in Values(key) \cup {Unset}
  BY DEF Document, Doc

LEMMA SetInDocument ==
    ASSUME NEW d \in Document, NEW key \in Key, NEW value \in Values(key)
    PROVE  [d EXCEPT ![key] = value] \in Document
  <1>1. value \in Text
    BY ValuesAreText
  <1>2. [d EXCEPT ![key] = value] \in Doc
    BY <1>1, DocumentPointwise DEF Doc
  <1> QED BY <1>2, DocumentPointwise DEF Doc

LEMMA MergedIsAValue ==
    ASSUME NEW d \in Document, NEW key \in Key
    PROVE  Merged(d, key) \in Values(key) /\ Merged(d, key) # Unset
  BY ValuesAreSet, DocumentPointwise DEF Merged

LEMMA SaveIsTyped ==
    ASSUME NEW files \in TypedFiles, NEW new \in Document
    PROVE  Saves(files, new) \subseteq TypedFiles /\ Failures(files) \subseteq TypedFiles
           /\ Interrupted(files, new) \subseteq TypedFiles
  <1>1. Copies(files) \subseteq Document \cup {Torn}
    BY DEF Copies, TypedFiles
  <1>2. Saves(files, new) \subseteq TypedFiles
    BY <1>1 DEF Saves, TypedFiles
  <1>3. Failures(files) \subseteq TypedFiles
    BY <1>1 DEF Failures, TypedFiles
  <1>4. Interrupted(files, new) \subseteq TypedFiles
    BY <1>2 DEF Interrupted, TypedFiles
  <1> QED BY <1>2, <1>3, <1>4

\* The level left for DEBUG is one to return to.
LEMMA LevelToReturnTo ==
    ASSUME NEW level \in Values("logging.level"), level # "debug"
    PROVE  level \in Values(ReturnKey)
  BY DEF Values, ReturnKey

\* "debug" is a value of the level only.
LEMMA DebugIsALevel ==
    ASSUME NEW key, "debug" \in Values(key)
    PROVE  key = "logging.level"
  BY DEF Values, ReturnKey

LEMMA PutIsTyped ==
    ASSUME IInv, MemoryTyped, FilesTyped, up,
           NEW key \in Written, NEW value \in Values(key), Put(key, value)
    PROVE  MemoryTyped' /\ FilesTyped'
  <1> DEFINE d == [doc EXCEPT ![key] = value]
             left == inForce["logging.level"]
             returning == [d EXCEPT ![ReturnKey] = left]
  <1> USE KeysAreKnown
  <1>1. value \in Text \ {Unset} /\ LogKeys \subseteq Written
    BY ValuesAreText, ValuesAreSet, ConstantsAssumption
  <1>2. /\ \A k \in Written : Merged(doc', k) = IF k = key THEN value ELSE Merged(doc, k)
        /\ \A k \in LogKeys : inForce'[k] = IF key \in LogKeys THEN Merged(doc', k) ELSE inForce[k]
    BY <1>1, PutDoes
  <1>3. "logging.level" \in LogKeys /\ "logging.debugMinutes" \in LogKeys
    BY DEF LogKeys
  <1>4. inForce'["logging.level"] = "debug" => Merged(doc', "logging.level") = "debug"
    BY <1>1, <1>2, <1>3 DEF MemoryTyped
  <1>5. d \in Document
    BY SetInDocument DEF MemoryTyped
  <1>6. PICK f \in Saves(disk, d) :
            IF key \in LogKeys THEN LogHook(d, f)
            ELSE /\ doc' = d /\ disk' = f
                 /\ inForce' = IF Live(key) /\ key \notin Slow
                               THEN [inForce EXCEPT ![key] = value] ELSE inForce
                 /\ UNCHANGED <<counting, missed>>
    BY Zenon DEF Put
  <1>7. f \in TypedFiles
    <2> HIDE DEF d
    <2> QED BY <1>5, SaveIsTyped DEF FilesTyped
  <1>8. CASE key \in LogKeys
    <2> DEFINE level == Merged(d, "logging.level")
               minutes == Merged(d, "logging.debugMinutes")
    <2>1. /\ \/ doc' = returning /\ left # "debug" /\ disk' \in Saves(f, returning) \cup Failures(f)
             \/ doc' = d /\ disk' = f
          /\ inForce' = [inForce EXCEPT !["logging.level"] = level, !["logging.debugMinutes"] = minutes]
      BY <1>6, <1>8 DEF LogHook, Entering
    <2>2. /\ level \in Values("logging.level") /\ level # Unset
          /\ minutes \in Values("logging.debugMinutes") /\ minutes # Unset
      <3> HIDE DEF d
      <3> QED BY <1>3, <1>5, MergedIsAValue
    <2>3. inForce' \in Document /\ \A k \in Key : inForce'[k] # Unset
      <3> DEFINE one == [inForce EXCEPT !["logging.level"] = level]
      <3> HIDE DEF level, minutes
      <3>1. one \in Document
        BY <1>3, <2>2, SetInDocument DEF MemoryTyped
      <3>2. [one EXCEPT !["logging.debugMinutes"] = minutes] \in Document
        <4> HIDE DEF one
        <4> QED BY <1>3, <2>2, <3>1, SetInDocument
      <3>3. inForce' = [one EXCEPT !["logging.debugMinutes"] = minutes]
        BY <2>1
      <3>4. \A k \in Key : inForce'[k] # Unset
        BY <2>1, <2>2 DEF MemoryTyped, Document
      <3> QED BY <3>2, <3>3, <3>4
    <2>4. CASE doc' = returning /\ left # "debug" /\ disk' \in Saves(f, returning) \cup Failures(f)
      <3>1. left \in Values(ReturnKey)
        BY <1>3, <2>4, LevelToReturnTo DEF MemoryTyped, Document, Unset, Values
      <3> HIDE DEF left, d
      <3>2. returning \in Document
        BY <1>5, <3>1, SetInDocument
      <3> HIDE DEF returning
      <3> QED BY <1>4, <1>7, <2>3, <2>4, <3>2, SaveIsTyped DEF MemoryTyped, FilesTyped
    <2>5. CASE doc' = d /\ disk' = f
      <3> HIDE DEF d
      <3> QED BY <1>4, <1>5, <1>7, <2>3, <2>5 DEF MemoryTyped, FilesTyped
    <2> QED BY <2>1, <2>4, <2>5
  <1>9. CASE key \notin LogKeys
    <2>1. [inForce EXCEPT ![key] = value] \in Document
      BY SetInDocument DEF MemoryTyped
    <2>2. inForce' \in Document /\ \A k \in Key : inForce'[k] # Unset
      BY <1>1, <1>6, <1>9, <2>1 DEF MemoryTyped, Document
    <2> HIDE DEF d
    <2> QED BY <1>4, <1>5, <1>6, <1>7, <1>9, <2>2 DEF MemoryTyped, FilesTyped
  <1> QED BY <1>8, <1>9

LEMMA RollbackIsTyped ==
    ASSUME doc \in Document, NEW key \in Written, NEW value, Rollback(key, value)
    PROVE  doc' \in Document
  BY KeysAreKnown, MergedIsAValue, SetInDocument DEF Rollback

\* A job's ticket stays in range as the writes go on.
LEMMA JobsLater ==
    ASSUME JobsTyped, writes \in Nat, writes' \in {writes, writes + 1},
           NEW c \in Client, NEW j \in {NoWrite} \cup [step : {"hook", "replying"}, key : Written,
                                                     value : Text \ {Unset}, turn : 0..writes'],
           job' = [job EXCEPT ![c] = j] \/ UNCHANGED job,
           j # NoWrite => j.value \in Values(j.key)
    PROVE  JobsTyped'
  <1>1. 0..writes \subseteq 0..writes'
    OBVIOUS
  <1>2. \A k \in WriteJobs : k \in WriteJobs'
    BY <1>1 DEF WriteJobs
  <1> DEFINE After == {NoWrite} \cup WriteJobs'
  <1>3. job \in [Client -> After] /\ j \in After
    BY <1>2 DEF JobsTyped, WriteJobs
  <1> HIDE DEF After
  <1>4. job' \in [Client -> After]
    BY <1>3
  <1>5. \A d \in Client : job'[d] # NoWrite => job'[d].value \in Values(job'[d].key)
    BY DEF JobsTyped
  <1> QED BY <1>4, <1>5 DEF JobsTyped, After

LEMMA JobsGone ==
    ASSUME job' = [c \in Client |-> NoWrite]
    PROVE  JobsTyped'
  BY DEF JobsTyped

LEMMA StepJobs == Inv /\ TypeInv /\ [Next]_vars => JobsTyped' /\ NumbersTyped'
  <1> SUFFICES ASSUME Inv, TypeInv, [Next]_vars PROVE JobsTyped' /\ NumbersTyped'
    OBVIOUS
  <1>0. JobsTyped /\ NumbersTyped /\ writes \in Nat /\ MaxWrites \in Nat /\ MaxTroubles \in Nat
    BY ConstantsAssumption DEF TypeInv, Inv, IInv, InMemory
  <1>1. ASSUME NEW c \in Client, Write(c) PROVE JobsTyped' /\ NumbersTyped'
    <2>1. PICK key \in Written : \E value \in Values(key) :
              /\ writes < MaxWrites /\ writes' = writes + 1 /\ UNCHANGED troubles
              /\ \/ job' = [job EXCEPT ![c] = Job("hook", key, value, writes')]
                 \/ job' = [job EXCEPT ![c] = Job("replying", key, value, 0)]
      BY <1>1 DEF Write, CanWrite
    <2>2. PICK value \in Values(key) :
              /\ writes < MaxWrites /\ writes' = writes + 1 /\ UNCHANGED troubles
              /\ \/ job' = [job EXCEPT ![c] = Job("hook", key, value, writes')]
                 \/ job' = [job EXCEPT ![c] = Job("replying", key, value, 0)]
      BY <2>1
    <2>3. value \in Text \ {Unset}
      BY ValuesAreText, ValuesAreSet, KeysAreKnown
    <2>4. \A step \in {"hook", "replying"}, turn \in {0, writes'} :
             Job(step, key, value, turn) \in [step : {"hook", "replying"}, key : Written,
                                              value : Text \ {Unset}, turn : 0..writes']
             /\ Job(step, key, value, turn).value \in Values(Job(step, key, value, turn).key)
      BY <1>0, <2>2, <2>3 DEF Job
    <2> QED BY <1>0, <2>2, <2>4, JobsLater DEF NumbersTyped
  <1>2. ASSUME NEW c \in Client, WriteFails(c) PROVE JobsTyped' /\ NumbersTyped'
    <2>1. writes < MaxWrites /\ writes' = writes + 1 /\ UNCHANGED <<job, troubles>>
      BY <1>2 DEF WriteFails, CanWrite, panelVars
    <2>2. JobsTyped'
      BY <1>0, <2>1, JobsLater
    <2> QED BY <1>0, <2>1, <2>2 DEF NumbersTyped
  <1>3. ASSUME NEW c \in Client, Applied(c) PROVE JobsTyped' /\ NumbersTyped'
    <2>1. /\ job' = [job EXCEPT ![c].step = "replying", ![c].turn = 0]
          /\ job[c].step = "hook" /\ UNCHANGED <<writes, troubles>>
      BY <1>3 DEF Applied
    <2> DEFINE j == [job[c] EXCEPT !.step = "replying", !.turn = 0]
    <2>2. job[c] \in WriteJobs /\ job[c].value \in Values(job[c].key)
      BY <1>0, <2>1 DEF JobsTyped, NoWrite
    <2>3. /\ j \in AnyJob
          /\ j.step = "replying" /\ j.key = job[c].key /\ j.value = job[c].value /\ j.turn = 0
      BY DEF Inv, IInv, InMemory, AnyJob
    <2>4. job' = [job EXCEPT ![c] = j]
      BY <2>1
    <2> HIDE DEF j
    <2>5. 0 \in 0..writes
      BY <1>0
    <2>6. j \in WriteJobs /\ j.value \in Values(j.key)
      BY <2>2, <2>3, <2>5 DEF WriteJobs, AnyJob
    <2>7. JobsTyped'
      BY <1>0, <2>1, <2>4, <2>6, JobsLater DEF WriteJobs
    <2> QED BY <1>0, <2>1, <2>7 DEF NumbersTyped
  <1>4. ASSUME NEW c \in Client, Told(c) \/ Leave(c) PROVE JobsTyped' /\ NumbersTyped'
    <2>1. job' = [job EXCEPT ![c] = NoWrite] /\ UNCHANGED <<writes, troubles>>
      BY <1>4 DEF Told, Leave
    <2>2. JobsTyped'
      BY <1>0, <2>1, JobsLater
    <2> QED BY <1>0, <2>1, <2>2 DEF NumbersTyped
  <1>5. ASSUME UNCHANGED <<job, writes>>, troubles' \in 0..MaxTroubles
        PROVE  JobsTyped' /\ NumbersTyped'
    BY <1>0, <1>5 DEF JobsTyped, WriteJobs, NumbersTyped
  <1>6. (\E c \in Client : Connect(c)) \/ Expire \/ RestartAsked \/ Damage \/ Fill \/ Start \/ UNCHANGED vars
        => /\ UNCHANGED <<job, writes>>
           /\ \/ UNCHANGED troubles
              \/ troubles < MaxTroubles /\ troubles' = troubles + 1
    BY DEF Connect, Expire, RestartAsked, Damage, Fill, Start, vars, panelVars
  <1>7. CASE (\E c \in Client : Connect(c)) \/ Expire \/ RestartAsked \/ Damage \/ Fill \/ Start \/ UNCHANGED vars
    BY <1>0, <1>5, <1>6, <1>7 DEF NumbersTyped
  <1>8. CASE Exit \/ PowerCut
    <2>1. job' = [c \in Client |-> NoWrite] /\ UNCHANGED writes
          /\ (UNCHANGED troubles \/ (troubles < MaxTroubles /\ troubles' = troubles + 1))
      BY <1>8 DEF Exit, PowerCut, Down
    <2> QED BY <1>0, <2>1, JobsGone DEF NumbersTyped
  <1> QED BY <1>1, <1>2, <1>3, <1>4, <1>7, <1>8 DEF Next

LEMMA StepSets == TypeInv /\ [Next]_vars => SetsTyped'
  <1> SUFFICES ASSUME TypeInv, [Next]_vars PROVE SetsTyped'
    OBVIOUS
  <1> USE DEF TypeInv, SetsTyped
  <1>1. ASSUME NEW c \in Client, Write(c) PROVE SetsTyped'
    <2>1. missed' \subseteq missed
      BY <1>1 DEF Write, Put, LogHook
    <2> QED BY <1>1, <2>1 DEF Write
  <1>2. ASSUME NEW c \in Client, Applied(c) PROVE SetsTyped'
    BY <1>2 DEF Applied
  <1>3. ASSUME NEW c \in Client, Leave(c) PROVE SetsTyped'
    <2>1. job[c].step = "hook" => job[c].key \in Key
      BY KeysAreKnown DEF JobsTyped, WriteJobs, NoWrite
    <2> QED BY <1>3, <2>1 DEF Leave
  <1>4. ASSUME NEW c \in Client, WriteFails(c) \/ Told(c) \/ Connect(c) PROVE SetsTyped'
    BY <1>4 DEF WriteFails, Told, Connect, panelVars
  <1>5. CASE Expire
    <2>1. missed' \subseteq missed \cup {"logging.level"}
      BY <1>5 DEF Expire, Put, LogHook
    <2>2. "logging.level" \in Key
      BY KeysAreKnown DEF LogKeys
    <2> QED BY <1>5, <2>1, <2>2 DEF Expire, ExpireTold
  <1>6. CASE Exit \/ PowerCut
    BY <1>6 DEF Exit, PowerCut, Down
  <1>7. CASE RestartAsked \/ Damage \/ Fill \/ Start \/ UNCHANGED vars
    BY <1>7 DEF RestartAsked, Damage, Fill, Start, vars, panelVars
  <1> QED BY <1>1, <1>2, <1>3, <1>4, <1>5, <1>6, <1>7 DEF Next

LEMMA StepFlags == TypeInv /\ [Next]_vars => FlagsTyped'
  <1> SUFFICES ASSUME TypeInv, [Next]_vars PROVE FlagsTyped'
    OBVIOUS
  <1> USE DEF TypeInv, FlagsTyped
  <1>1. \A key \in Written : \A value : Put(key, value) => counting' \in BOOLEAN
    BY DEF Put, LogHook
  <1>2. ASSUME NEW c \in Client, Write(c) PROVE FlagsTyped'
    BY <1>1, <1>2 DEF Write
  <1>3. ASSUME NEW c \in Client, WriteFails(c) \/ Applied(c) \/ Told(c) \/ Connect(c) \/ Leave(c)
        PROVE  FlagsTyped'
    BY <1>3 DEF WriteFails, Applied, Told, Connect, Leave, panelVars
  <1>4. CASE Expire
    <2>1. "logging.level" \in Written
      BY ConstantsAssumption DEF LogKeys
    <2> QED BY <1>1, <1>4, <2>1 DEF Expire, ExpireTold
  <1>5. CASE Exit \/ PowerCut
    BY <1>5 DEF Exit, PowerCut, Down
  <1>6. CASE RestartAsked \/ Damage \/ Fill \/ UNCHANGED vars
    BY <1>6 DEF RestartAsked, Damage, Fill, vars, panelVars
  <1>7. CASE Start
    BY <1>7 DEF Start, Started, Counted, panelVars
  <1> QED BY <1>2, <1>3, <1>4, <1>5, <1>6, <1>7 DEF Next

LEMMA MemoryKept ==
    ASSUME MemoryTyped, FilesTyped, UNCHANGED <<doc, inForce>>, up' => up, FilesTyped'
    PROVE  MemoryTyped' /\ FilesTyped'
  BY DEF MemoryTyped

LEMMA StepMemory == Inv /\ TypeInv /\ [Next]_vars => MemoryTyped' /\ FilesTyped'
  <1> SUFFICES ASSUME Inv, TypeInv, [Next]_vars PROVE MemoryTyped' /\ FilesTyped'
    OBVIOUS
  <1> USE KeysAreKnown
  <1>0. MemoryTyped /\ FilesTyped /\ JobsTyped /\ "logging.level" \in LogKeys
    BY DEF TypeInv, LogKeys
  <1>1. ASSUME NEW c \in Client, Write(c) PROVE MemoryTyped' /\ FilesTyped'
    <2>1. PICK key \in Written : \E value \in Values(key) :
              CanWrite(c, key, value) /\ Put(key, value)
      BY <1>1 DEF Write
    <2>2. PICK value \in Values(key) : CanWrite(c, key, value) /\ Put(key, value)
      BY <2>1
    <2> QED BY <1>0, <2>2, PutIsTyped DEF Inv, CanWrite
  <1>2. ASSUME NEW c \in Client, WriteFails(c) PROVE MemoryTyped' /\ FilesTyped'
    <2>1. PICK key \in Written, value \in Text :
              CanWrite(c, key, value) /\ disk' \in Failures(disk) /\ Rollback(key, value)
      BY <1>2, ValuesAreText DEF WriteFails
    <2>2. doc' \in Document /\ UNCHANGED <<up, inForce>>
      BY <1>0, <1>2, <2>1, RollbackIsTyped DEF MemoryTyped, WriteFails
    <2>3. LogKeys \subseteq Written /\ \A k \in Written : Merged(doc', k) = Merged(doc, k)
      BY <2>1, RollbackKeeps, ConstantsAssumption DEF Inv
    <2>4. FilesTyped'
      BY <1>0, <2>1, SaveIsTyped DEF FilesTyped, MemoryTyped
    <2> QED BY <1>0, <2>2, <2>3, <2>4 DEF MemoryTyped
  <1>3. ASSUME NEW c \in Client, Applied(c) PROVE MemoryTyped' /\ FilesTyped'
    <2> DEFINE key == job[c].key
               value == job[c].value
    <2>1. /\ job[c].step = "hook" /\ inForce' = [inForce EXCEPT ![key] = value]
          /\ UNCHANGED <<up, doc, disk>>
      BY <1>3 DEF Applied, diskVars
    <2>2. key \in Slow \cap Written /\ key # "logging.level"
      BY <1>0, <2>1, SettingsAreApart DEF Inv, ServiceInv, TicketsInOrder
    <2>3. value \in Values(key) /\ value # Unset
      BY <1>0, <2>1, ValuesAreSet DEF JobsTyped, NoWrite
    <2> HIDE DEF key, value
    <2>4. inForce' \in Document
      BY <1>0, <2>1, <2>2, <2>3, SetInDocument DEF MemoryTyped
    <2>5. /\ \A k \in Key : inForce'[k] # Unset
          /\ inForce'["logging.level"] = inForce["logging.level"]
      BY <1>0, <2>1, <2>2, <2>3 DEF MemoryTyped, Document
    <2> QED BY <1>0, <2>1, <2>4, <2>5 DEF MemoryTyped, FilesTyped
  <1>4. ASSUME NEW c \in Client, Told(c) \/ Connect(c) \/ Leave(c)
        PROVE  MemoryTyped' /\ FilesTyped'
    BY <1>0, <1>4, MemoryKept DEF Told, Connect, Leave, diskVars, FilesTyped
  <1>5. CASE Expire
    <2> DEFINE target == Merged(doc, ReturnKey)
    <2>1. up /\ UNCHANGED up
      BY <1>5 DEF Expire
    <2>2. target \in Values(ReturnKey)
      BY <1>0, MergedIsAValue DEF MemoryTyped
    <2>3. /\ target \in Values("logging.level") /\ target # "debug" /\ target # Unset
          /\ "logging.level" \in Written
      BY <1>0, <2>2, ValuesAreSet, ConstantsAssumption DEF Values, ReturnKey
    <2> HIDE DEF target
    <2>4. CASE Put("logging.level", target)
      BY <1>0, <2>1, <2>3, <2>4, PutIsTyped DEF Inv
    <2>5. CASE /\ disk' \in Failures(disk)
               /\ Rollback("logging.level", target)
               /\ inForce' = [inForce EXCEPT !["logging.level"] = target]
      <3>1. doc' \in Document
        BY <1>0, <2>3, <2>5, RollbackIsTyped DEF MemoryTyped
      <3>2. FilesTyped'
        BY <1>0, <2>5, SaveIsTyped DEF FilesTyped, MemoryTyped
      <3>3. inForce' \in Document
        BY <1>0, <2>3, <2>5, SetInDocument DEF MemoryTyped
      <3>4. inForce'["logging.level"] = target /\ \A k \in Key : inForce'[k] # Unset
        BY <1>0, <2>3, <2>5 DEF MemoryTyped, Document
      <3> QED BY <2>3, <3>1, <3>2, <3>3, <3>4 DEF MemoryTyped
    <2> QED BY <1>5, <2>4, <2>5 DEF Expire, target
  <1>6. CASE RestartAsked \/ Exit \/ Fill \/ UNCHANGED vars
    BY <1>0, <1>6, MemoryKept DEF RestartAsked, Exit, Down, Fill, vars, diskVars, FilesTyped
  <1>7. CASE PowerCut
    <2>1. up /\ ~up' /\ UNCHANGED <<doc, inForce>>
      BY <1>7 DEF PowerCut, Down
    <2>2. CASE UNCHANGED disk
      BY <1>0, <2>1, <2>2, MemoryKept DEF FilesTyped
    <2>3. ASSUME NEW key \in Written, NEW value \in Values(key), value # Merged(doc, key),
                 \/ disk' \in Interrupted(disk, [doc EXCEPT ![key] = value])
                 \/ /\ value = "debug"
                    /\ \E f \in Saves(disk, [doc EXCEPT ![key] = value]) :
                          disk' \in Interrupted(f, [[doc EXCEPT ![key] = value]
                                                       EXCEPT ![ReturnKey] = inForce["logging.level"]])
          PROVE  FilesTyped'
      <3> DEFINE d == [doc EXCEPT ![key] = value]
                 left == inForce["logging.level"]
                 returning == [d EXCEPT ![ReturnKey] = left]
      <3>1. \/ disk' \in Interrupted(disk, d)
            \/ value = "debug" /\ \E f \in Saves(disk, d) : disk' \in Interrupted(f, returning)
        BY <2>3
      <3>2. d \in Document
        BY <1>0, SetInDocument DEF MemoryTyped
      <3>3. value = "debug" => left \in Values(ReturnKey)
        <4> SUFFICES ASSUME value = "debug" PROVE left \in Values(ReturnKey)
          OBVIOUS
        <4>1. key = "logging.level"
          BY DebugIsALevel
        <4>2. left # "debug"
          BY <1>0, <2>1, <2>3, <4>1 DEF MemoryTyped
        <4>3. left \in Values("logging.level")
          BY <1>0 DEF MemoryTyped, Document
        <4> QED BY <4>2, <4>3, LevelToReturnTo
      <3> HIDE DEF d, left
      <3>4. value = "debug" => returning \in Document
        BY <3>2, <3>3, SetInDocument
      <3> HIDE DEF returning
      <3>5. Interrupted(disk, d) \subseteq TypedFiles /\ Saves(disk, d) \subseteq TypedFiles
        BY <1>0, <3>2, SaveIsTyped DEF FilesTyped
      <3> QED BY <3>1, <3>4, <3>5, SaveIsTyped DEF FilesTyped
    <2>4. FilesTyped'
      BY <1>0, <1>7, <2>2, <2>3, Zenon DEF PowerCut, FilesTyped
    <2> QED BY <1>0, <2>1, <2>4, MemoryKept
  <1>8. CASE Damage
    <2>1. disk' = [disk EXCEPT !.live = Torn] /\ UNCHANGED <<up, doc, inForce>>
      BY <1>8 DEF Damage, panelVars
    <2>2. FilesTyped'
      BY <1>0, <2>1 DEF FilesTyped, TypedFiles
    <2> QED BY <1>0, <2>1, <2>2, MemoryKept
  <1>9. CASE Start
    <2> DEFINE source == IF IsDocument(disk.live) THEN disk.live ELSE disk.bak
    <2>1. /\ source # Torn /\ doc' = source /\ disk' = [disk EXCEPT !.live = source]
          /\ inForce' = [key \in Key |-> Merged(source, key)]
      BY <1>9 DEF Start, Started, IsDocument
    <2>2. source \in Document
      BY <1>0, <2>1 DEF FilesTyped, TypedFiles, IsDocument
    <2> HIDE DEF source
    <2>3. FilesTyped'
      BY <1>0, <2>1, <2>2 DEF FilesTyped, TypedFiles
    <2>4. \A key \in Key : inForce'[key] \in Values(key) /\ inForce'[key] # Unset
      BY <2>1, <2>2, MergedIsAValue
    <2>5. inForce' \in Doc
      BY <2>1, <2>4, ValuesAreText DEF Doc
    <2>6. inForce' \in Document
      BY <2>4, <2>5, DocumentPointwise
    <2> QED BY <1>0, <2>1, <2>2, <2>3, <2>4, <2>6 DEF MemoryTyped
  <1> QED BY <1>1, <1>2, <1>3, <1>4, <1>5, <1>6, <1>7, <1>8, <1>9 DEF Next

LEMMA InitTypes == Init => TypeInv
  <1> SUFFICES ASSUME Init PROVE TypeInv
    OBVIOUS
  <1> DEFINE first == [key \in Key |-> Unset]
  <1>1. first \in Document
    BY ValuesAreText DEF Document
  <1>2. disk = [live |-> first, bak |-> Torn] /\ doc = first
        /\ inForce = [key \in Key |-> Default(key)] /\ ~up
    BY DEF Init
  <1>3. inForce \in Document /\ \A key \in Key : inForce[key] # Unset
    <2>1. inForce \in Doc
      BY <1>2, ValuesAreText DEF Doc
    <2> QED BY <1>2, <2>1, ValuesAreSet, DocumentPointwise
  <1> HIDE DEF first
  <1>4. MemoryTyped /\ FilesTyped
    BY <1>1, <1>2, <1>3 DEF MemoryTyped, FilesTyped, TypedFiles
  <1>5. JobsTyped
    BY DEF Init, JobsTyped
  <1>6. NumbersTyped
    BY ConstantsAssumption DEF Init, NumbersTyped
  <1>7. SetsTyped /\ FlagsTyped
    BY DEF Init, SetsTyped, FlagsTyped
  <1> QED BY <1>4, <1>5, <1>6, <1>7 DEF TypeInv

\* Every document, in memory, in force and on disk, holds a value of its key or
\* none, the level to return to is never DEBUG, and every handler carries a
\* value of its setting.
THEOREM TypeCorrect == Spec => []TypeOK
  <1>1. Inv /\ TypeInv /\ [Next]_vars => TypeInv'
    BY StepJobs, StepSets, StepFlags, StepMemory DEF TypeInv
  <1>2. Spec => []TypeInv
    BY <1>1, InitTypes, AlwaysInv, PTL DEF Spec
  <1>3. Inv /\ TypeInv => TypeOK
    <2> SUFFICES ASSUME Inv, TypeInv PROVE TypeOK
      OBVIOUS
    <2>1. \A c \in Client : job[c].step = "hook" => job[c].key \in Slow
      BY DEF Inv, ServiceInv, TicketsInOrder
    <2> QED BY <2>1 DEF TypeInv, MemoryTyped, FilesTyped, TypedFiles, JobsTyped, WriteJobs,
              NumbersTyped, SetsTyped, FlagsTyped, TypeOK
  <1> QED BY <1>2, <1>3, AlwaysInv, PTL

(***************************************************************************)
(* One set of durable settings                                             *)
(***************************************************************************)

SpareOf(file) == IF IsDocument(file) THEN Filled(file) ELSE Torn

\* Filling in the defaults of a document in which a key was set.
LEMMA FilledWith ==
    ASSUME NEW d \in Doc, NEW key \in Key, NEW value \in Text \ {Unset}
    PROVE  /\ [d EXCEPT ![key] = value] \in Doc
           /\ Filled([d EXCEPT ![key] = value]) = [Filled(d) EXCEPT ![key] = value]
  <1> DEFINE e == [d EXCEPT ![key] = value]
  <1>1. e \in Doc
    BY DEF Doc
  <1>2. \A k \in Key : Merged(e, k) = IF k = key THEN value ELSE Merged(d, k)
    BY DEF Doc, Merged
  <1> HIDE DEF e
  <1>3. Filled(e) = [Filled(d) EXCEPT ![key] = value]
    BY <1>2 DEF Filled
  <1> QED BY <1>1, <1>3 DEF e

\* What a save may leave as the copy was saved before, or is the copy there was.
LEMMA CopyIsBeside ==
    ASSUME NEW files, NEW copy \in Copies(files), files.live # Torn
    PROVE  SpareOf(copy) \in {Filled(files.live), SpareOf(files.bak), Torn}
  BY DEF Copies, SpareOf, IsDocument

\* The documents of a save that succeeds, of two in a row, and of one that fails.
LEMMA SaveLeaves ==
    ASSUME NEW files \in Sound, NEW d \in Doc, NEW f \in Saves(files, d)
    PROVE  /\ f.live = d /\ f \in Sound
           /\ SpareOf(f.bak) \in {Filled(files.live), SpareOf(files.bak), Torn}
  <1>1. PICK copy \in Copies(files) : f = [live |-> d, bak |-> copy]
    BY DEF Saves
  <1>2. files.live # Torn
    BY SoundIsSound
  <1> QED BY <1>1, <1>2, CopyIsBeside, SaveIsSound

LEMMA FailureLeaves ==
    ASSUME NEW files \in Sound, NEW f \in Failures(files)
    PROVE  /\ f.live = files.live
           /\ SpareOf(f.bak) \in {Filled(files.live), SpareOf(files.bak), Torn}
  <1>1. PICK copy \in Copies(files) : f = [files EXCEPT !.bak = copy]
    BY DEF Failures
  <1>2. files.live # Torn
    BY SoundIsSound
  <1> QED BY <1>1, <1>2, CopyIsBeside DEF Sound

LEMMA InterruptedLeaves ==
    ASSUME NEW files \in Sound, NEW d \in Doc, NEW f \in Interrupted(files, d)
    PROVE  /\ f.live \in {files.live, d}
           /\ SpareOf(f.bak) \in {Filled(files.live), SpareOf(files.bak), Torn}
  <1>1. CASE f = files
    BY <1>1
  <1>2. CASE f \in Saves(files, d)
    BY <1>2, SaveLeaves
  <1>3. ASSUME NEW copy \in {Torn, files.live}, f = [files EXCEPT !.bak = copy] PROVE f.live = files.live /\ f.bak = copy
    BY <1>3 DEF Sound
  <1>4. files.live # Torn
    BY SoundIsSound
  <1> QED BY <1>1, <1>2, <1>3, <1>4 DEF Interrupted, SpareOf, IsDocument

\* What is promised, while the process runs and while it does not.
LEMMA WhileUp ==
    ASSUME disk \in Sound
    PROVE  Durable = disk.live
  BY SoundIsSound DEF Durable, IsDocument

LEMMA WhileUpNext ==
    ASSUME disk' \in Sound
    PROVE  Durable' = disk'.live
  BY SoundIsSound DEF Durable, IsDocument

\* A write, by a panel or by DEBUG's timer, sets one key, and may note the level
\* that it leaves.
LEMMA PutIsASet ==
    ASSUME IInv, TypeOK, up, UNCHANGED up, NEW key \in Written, NEW value \in Text \ {Unset}, Put(key, value)
    PROVE  Settings!DurableNext
  <1> DEFINE d == [doc EXCEPT ![key] = value]
             left == inForce["logging.level"]
             returning == [d EXCEPT ![ReturnKey] = left]
             known == Filled(doc)
             first == Settings!With(known, key, value)
  <1>1. disk \in Sound /\ doc \in Doc /\ key \in Key /\ "logging.level" \in Key /\ ReturnKey \in Key
    BY RunningIsSound, KeysAreKnown DEF IInv, InMemory, LogKeys
  <1>2. left \in Text \ {Unset}
    BY <1>1 DEF TypeOK, IInv, InMemory, Doc
  <1>3. d \in Doc /\ Filled(d) = first
    BY <1>1, FilledWith DEF Settings!With
  <1> HIDE DEF d, left
  <1> HIDE DEF first
  <1>4. returning \in Doc /\ Filled(returning) = Settings!With(first, ReturnKey, left)
    <2>1. returning \in Doc /\ Filled(returning) = [Filled(d) EXCEPT ![ReturnKey] = left]
      BY <1>1, <1>2, <1>3, FilledWith
    <2> QED BY <1>3, <2>1 DEF Settings!With
  <1>5. first["logging.level"] = Merged(d, "logging.level")
    BY <1>1, <1>3 DEF Filled
  <1> HIDE DEF known, returning
  <1>6. PICK f \in Saves(disk, d) :
            IF key \in LogKeys THEN LogHook(d, f)
            ELSE doc' = d /\ disk' = f
    BY Zenon DEF Put, d
  <1>7. /\ f.live = d /\ f \in Sound
        /\ SpareOf(f.bak) \in {Filled(disk.live), SpareOf(disk.bak), Torn}
    BY <1>1, <1>3, <1>6, SaveLeaves
  <1>8. CASE doc' = d /\ disk' = f
    <2>1. Durable = disk.live /\ Durable' = d
      BY <1>1, <1>7, <1>8, WhileUp, WhileUpNext
    <2>2. SpareOf(disk.bak)' = SpareOf(f.bak)
      BY <1>8
    <2>3. Settings!Set(key, value)
      BY <1>3, <1>7, <1>8, <2>1, <2>2 DEF Settings!Set, Settings!Beside, SpareOf, first, known
    <2> QED BY <2>3 DEF Settings!DurableNext
  <1>9. CASE /\ Entering(Merged(d, "logging.level"), left)
             /\ doc' = returning
             /\ disk' \in Saves(f, returning) \cup Failures(f)
    <2>1. /\ disk' \in Sound /\ disk'.live \in {d, returning}
          /\ SpareOf(disk'.bak) \in {Filled(d), SpareOf(f.bak), Torn}
      BY <1>4, <1>7, <1>9, SaveLeaves, FailureLeaves, SaveIsSound
    <2>2. Durable = disk.live /\ Durable' = disk'.live
      BY <1>1, <2>1, WhileUp, WhileUpNext
    <2>3. first["logging.level"] = "debug"
      BY <1>5, <1>9 DEF Entering
    <2>4. Filled(doc)' = Settings!With(first, ReturnKey, left)
      BY <1>4, <1>9
    <2>5. Filled(Durable)' \in {first, Settings!With(first, ReturnKey, left)}
      BY <1>3, <1>4, <2>1, <2>2
    <2>6. SpareOf(disk.bak)' \in {Filled(Durable), SpareOf(disk.bak), Torn, first}
      BY <1>3, <1>7, <2>1, <2>2
    <2>7. Settings!Note(key, value, left)
      BY <2>3, <2>4, <2>5, <2>6 DEF Settings!Note, Settings!Beside, SpareOf, first, known
    <2> QED BY <1>2, <2>7 DEF Settings!DurableNext
  <1> QED BY <1>6, <1>8, <1>9 DEF LogHook, returning, left

\* A save that fails leaves what is known and saved.
LEMMA FailureIsAFailure ==
    ASSUME IInv, up, UNCHANGED up, NEW key \in Written, NEW value,
           disk' \in Failures(disk), Rollback(key, value)
    PROVE  Settings!SetFails
  <1>1. disk \in Sound /\ doc \in Doc /\ key \in Key
    BY RunningIsSound, KeysAreKnown DEF IInv, InMemory
  <1>2. disk'.live = disk.live /\ disk' \in Sound
        /\ SpareOf(disk'.bak) \in {Filled(disk.live), SpareOf(disk.bak), Torn}
    BY <1>1, FailureLeaves, SaveIsSound
  <1>3. Filled(doc') = Filled(doc)
    <2>1. Merged(doc, key) \in Text \ {Unset}
      BY <1>1, MergedIsText, ValuesAreSet DEF Merged
    <2>2. CASE doc' = [doc EXCEPT ![key] = Merged(doc, key)]
      <3>1. Filled(doc') = [Filled(doc) EXCEPT ![key] = Merged(doc, key)]
        BY <1>1, <2>1, <2>2, FilledWith
      <3> QED BY <1>1, <3>1 DEF Filled
    <2> QED BY <2>2 DEF Rollback
  <1>4. Durable = disk.live /\ Durable' = disk.live
    BY <1>1, <1>2, WhileUp, WhileUpNext
  <1> QED BY <1>2, <1>3, <1>4 DEF Settings!SetFails, Settings!Beside, SpareOf

LEMMA EndIsAnEnd ==
    ASSUME IInv, TypeOK, PowerCut
    PROVE  Settings!End
  <1>1. up /\ ~up' /\ doc' = doc
    BY DEF PowerCut, Down
  <1>2. disk \in Sound /\ doc \in Doc /\ "logging.level" \in Key /\ ReturnKey \in Key
    BY <1>1, RunningIsSound, KeysAreKnown DEF IInv, InMemory, LogKeys
  <1>3. CASE UNCHANGED disk
    BY <1>1, <1>3 DEF Settings!End, Settings!Beside, Durable
  <1>4. ASSUME NEW key \in Written, NEW value \in Values(key),
               \/ disk' \in Interrupted(disk, [doc EXCEPT ![key] = value])
               \/ /\ value = "debug"
                  /\ \E f \in Saves(disk, [doc EXCEPT ![key] = value]) :
                        disk' \in Interrupted(f, [[doc EXCEPT ![key] = value]
                                                      EXCEPT ![ReturnKey] = inForce["logging.level"]])
        PROVE  Settings!End
    <2> DEFINE d == [doc EXCEPT ![key] = value]
               left == inForce["logging.level"]
               returning == [d EXCEPT ![ReturnKey] = left]
               first == Settings!With(Filled(doc), key, value)
    <2>1. key \in Key /\ value \in Text \ {Unset} /\ left \in Text \ {Unset}
      BY <1>2, ValuesAreText, ValuesAreSet, KeysAreKnown DEF TypeOK, IInv, InMemory, Doc
    <2>2. d \in Doc /\ Filled(d) = first
      BY <1>2, <2>1, FilledWith DEF Settings!With
    <2>3. \/ disk' \in Interrupted(disk, d)
          \/ value = "debug" /\ \E f \in Saves(disk, d) : disk' \in Interrupted(f, returning)
      BY <1>4
    <2> HIDE DEF d, left
    <2> HIDE DEF first
    <2>4. returning \in Doc /\ Filled(returning) = Settings!With(first, ReturnKey, left)
      <3>1. returning \in Doc /\ Filled(returning) = [Filled(d) EXCEPT ![ReturnKey] = left]
        BY <1>2, <2>1, <2>2, FilledWith
      <3> QED BY <2>2, <3>1 DEF Settings!With
    <2> HIDE DEF returning
    <2>5. CASE disk' \in Interrupted(disk, d)
      <3>1. /\ disk' \in Sound /\ disk'.live \in {disk.live, d}
            /\ SpareOf(disk'.bak) \in {Filled(disk.live), SpareOf(disk.bak), Torn}
        BY <1>2, <2>2, <2>5, InterruptedLeaves, SaveIsSound
      <3>2. Durable = disk.live /\ Durable' = disk'.live
        BY <1>2, <3>1, WhileUp, WhileUpNext
      <3> QED BY <1>1, <2>1, <2>2, <3>1, <3>2 DEF Settings!End, Settings!Beside, SpareOf, first
    <2>6. ASSUME value = "debug", NEW f \in Saves(disk, d), disk' \in Interrupted(f, returning)
          PROVE  Settings!End
      <3>1. /\ f.live = d /\ f \in Sound
            /\ SpareOf(f.bak) \in {Filled(disk.live), SpareOf(disk.bak), Torn}
        BY <1>2, <2>2, SaveLeaves
      <3>2. /\ disk' \in Sound /\ disk'.live \in {d, returning}
            /\ SpareOf(disk'.bak) \in {Filled(d), SpareOf(f.bak), Torn}
        BY <2>4, <2>6, <3>1, InterruptedLeaves, SaveIsSound
      <3>3. Durable = disk.live /\ Durable' = disk'.live
        BY <1>2, <3>2, WhileUp, WhileUpNext
      <3>4. SpareOf(disk.bak)' \in {Filled(Durable), SpareOf(disk.bak), Torn, first}
        BY <2>2, <3>1, <3>2, <3>3
      <3>5. first["logging.level"] = "debug"
        <4>1. key = "logging.level"
          BY <2>6, DebugIsALevel
        <4> QED BY <1>2, <2>6, <4>1 DEF first, Settings!With, Filled
      <3>6. Filled(Durable)' \in {first, Settings!With(first, ReturnKey, left)}
        BY <2>2, <2>4, <3>2, <3>3
      <3> QED BY <1>1, <2>1, <3>4, <3>5, <3>6 DEF Settings!End, Settings!Beside, SpareOf, first
    <2> QED BY <2>3, <2>5, <2>6
  <1> QED BY <1>3, <1>4, Zenon DEF PowerCut

\* Every other step leaves the settings alone, but for damage and the start, which finds
\* what was saved or else the copy.
LEMMA StepIsDurable ==
    ASSUME IInv, TypeOK, [Next]_vars
    PROVE  Settings!DurableNext \/ UNCHANGED Settings!durableVars
  <1>1. ASSUME UNCHANGED <<up, doc, disk>> PROVE UNCHANGED Settings!durableVars
    BY <1>1 DEF Settings!durableVars, Durable
  <1>2. ASSUME NEW c \in Client, Write(c) PROVE Settings!DurableNext
    <2>0. PICK key \in Written : \E value \in Values(key) : CanWrite(c, key, value) /\ Put(key, value)
      BY <1>2 DEF Write
    <2>1. PICK value \in Values(key) : CanWrite(c, key, value) /\ Put(key, value)
      BY <2>0
    <2>2. value \in Text \ {Unset}
      BY KeysAreKnown, ValuesAreText, ValuesAreSet
    <2> QED BY <1>2, <2>1, <2>2, PutIsASet DEF Write, CanWrite
  <1>3. ASSUME NEW c \in Client, WriteFails(c) PROVE Settings!DurableNext
    <2>0. PICK key \in Written : \E value \in Values(key) :
              CanWrite(c, key, value) /\ disk' \in Failures(disk) /\ Rollback(key, value)
      BY <1>3 DEF WriteFails
    <2>1. PICK value \in Values(key) :
              CanWrite(c, key, value) /\ disk' \in Failures(disk) /\ Rollback(key, value)
      BY <2>0
    <2> QED BY <1>3, <2>1, FailureIsAFailure DEF WriteFails, CanWrite, Settings!DurableNext
  <1>4. ASSUME NEW c \in Client, Applied(c) \/ Told(c) \/ Connect(c) \/ Leave(c)
        PROVE  UNCHANGED <<up, doc, disk>>
    BY <1>4 DEF Applied, Told, Connect, Leave, diskVars
  <1>5. CASE Expire
    <2> DEFINE target == Merged(doc, ReturnKey)
    <2>1. target \in Text \ {Unset} /\ "logging.level" \in Written
      BY MergedIsText, ValuesAreSet, KeysAreKnown, ConstantsAssumption DEF Merged, IInv, InMemory, LogKeys
    <2>2. up /\ UNCHANGED up
      BY <1>5 DEF Expire
    <2>3. CASE Put("logging.level", target)
      BY <2>1, <2>2, <2>3, PutIsASet
    <2>4. CASE disk' \in Failures(disk) /\ Rollback("logging.level", target)
      BY <2>1, <2>2, <2>4, FailureIsAFailure DEF Settings!DurableNext
    <2> QED BY <1>5, <2>3, <2>4 DEF Expire
  <1>6. CASE RestartAsked \/ Fill
    BY <1>6, <1>1 DEF RestartAsked, Fill, diskVars
  <1>7. CASE Exit
    <2>1. up /\ ~up' /\ UNCHANGED <<doc, disk>>
      BY <1>7 DEF Exit, Down, diskVars
    <2> QED BY <2>1 DEF Settings!DurableNext, Settings!End, Settings!Beside, Durable
  <1>8. CASE PowerCut
    BY <1>8, EndIsAnEnd DEF Settings!DurableNext
  <1>9. CASE Damage
    <2>1. ~up /\ disk.bak # Torn /\ disk'.live = Torn /\ disk'.bak = disk.bak /\ UNCHANGED up
      BY <1>9 DEF Damage, IsDocument, IInv, DiskInv, Files
    <2>2. Filled(disk.bak) # Torn
      <3>1. disk.bak \in Doc
        BY <2>1 DEF IInv, DiskInv, Files
      <3>2. Filled(disk.bak) \in Doc
        BY <3>1, MergedIsText DEF Filled, Doc
      <3> QED BY <3>2, DocIsSound
    <2> QED BY <2>1, <2>2 DEF Settings!DurableNext, Settings!Damaged, Durable, IsDocument
  <1>10. CASE Start
    <2> DEFINE source == IF IsDocument(disk.live) THEN disk.live ELSE disk.bak
    <2>1. /\ ~up /\ up' /\ source # Torn /\ doc' = source /\ disk' = [disk EXCEPT !.live = source]
      BY <1>10 DEF Start, IsDocument
    <2>2. disk'.live = source /\ disk'.bak = disk.bak
      BY <2>1 DEF IInv, DiskInv, Files
    <2>3. Durable = source /\ Durable' = source
      BY <2>1, <2>2 DEF Durable, IsDocument
    <2> HIDE DEF source
    <2> QED BY <2>1, <2>2, <2>3 DEF Settings!DurableNext, Settings!Begin
  <1>11. CASE UNCHANGED vars
    BY <1>11, <1>1 DEF vars, diskVars
  <1> QED BY <1>1, <1>2, <1>3, <1>4, <1>5, <1>6, <1>7, <1>8, <1>9, <1>10, <1>11 DEF Next

\* The document, its file and its copy implement the durable settings, for every set
\* of settings and panels: whatever save fails or is cut off, nothing is known that
\* is not saved but the level DEBUG returns to, and a start finds what was saved
\* last, or before the damage to it (Config.save, Config.__init__, __write).
THEOREM Implements == Spec => ImplementsSettings
  <1>1. Init => Settings!DurableInit
    BY ConstantsAssumption DEF Init, Settings!DurableInit, Durable, IsDocument
  <1>2. IInv /\ TypeOK /\ [Next]_vars => [Settings!DurableNext]_Settings!durableVars
    BY StepIsDurable
  <1> QED BY <1>1, <1>2, AlwaysIInv, TypeCorrect, PTL DEF Spec, ImplementsSettings, Settings!DurableSpec
=============================================================================
