------------------------------ MODULE UsbImport ------------------------------
(***************************************************************************)
(* Importing screensaver photos from a USB stick: UsbImportService         *)
(* (backend/src/usb_import_service) and the dialog of the panels           *)
(* (frontend_v2/core/usbimport.cpp, items/settings/UsbImportPopup.qml).    *)
(*                                                                         *)
(* LIST, SCAN and CLOSE, and the end of a copy, run one at a time under a  *)
(* lock that serves in order of arrival, but their checks (is a copy on,   *)
(* is this the live flow) come before they wait for it.  What holds the    *)
(* lock waits at                                                           *)
(*   unmount  udisksctl unmount of the volume the flow was on              *)
(*   lsblk    the listing of the drives                                    *)
(*   lookup   the listing that must still have the chosen drive            *)
(*   mount    udisksctl mount                                              *)
(*   verify   the listing that tells where it was mounted                  *)
(*   read     the import folder, on a thread                               *)
(*   started  the reply to START, before the copy's task exists            *)
(* The copy runs beside the lock, on a thread that looks between two files *)
(* whether it is to stop, sends its progress, and takes the lock at its    *)
(* end.  A client that leaves has its handlers cancelled; the command they *)
(* wait for runs on.  Beside the service, the desktop mounts sticks.       *)
(***************************************************************************)
EXTENDS Naturals, FiniteSets, Sequences

CONSTANTS
    Client,       \* panels
    Device,       \* USB volumes
    Content,      \* the photos in the import folder of each volume
    Earlier,      \* photos the folder may hold from the start, copied there over scp
    None,
    MaxFlows,     \* bound: flow numbers in use, per panel
    MaxTroubles   \* bound: failing calls, sticks pulled out, clients lost, crashes

Photo == UNION {Content[d] : d \in Device}

ASSUME ContentAssumption ==
    /\ Content \in [Device -> SUBSET [name : STRING, size : Nat]]
    /\ \A d \in Device : \A p, q \in Content[d] : p.name = q.name => p = q
    /\ Earlier \subseteq [name : STRING, nth : {1}, size : Nat] /\ IsFiniteSet(Earlier)
    /\ \A f, g \in Earlier : f.name = g.name => f = g
    /\ IsFiniteSet(Photo) /\ None \notin Client \cup Device

ASSUME BoundAssumption == MaxFlows \in Nat \ {0} /\ MaxTroubles \in Nat

VARIABLES
    owner,     \* __writer: the client of the live flow
    id,        \* __flow_id
    phase,     \* the phase in __state
    volume,    \* __device
    here,      \* __mounted_here
    names,     \* __names
    cancel,    \* __cancel
    holder,    \* what holds __lock, and where it waits
    queue,     \* what waits for __lock
    copy,      \* the copy's task: its volume, the files it has left, whether it is
               \* on one of them, whether the count was sent, whether one failed
    mounted,   \* who mounted each volume that is
    plugged,   \* the volumes that are there
    album,     \* the screensaver folder
    dialog,    \* each panel's dialog
    lost,      \* volumes mounted by a call that failed or was cut
    troubles

flowVars == <<owner, id, phase>>
volumeVars == <<volume, here, names>>
stickVars == <<mounted, plugged>>
vars == <<flowVars, volumeVars, cancel, holder, queue, copy, stickVars, album, dialog, lost,
          troubles>>

Phase == {"idle", "listing", "drives", "scanning", "ready", "copying", "done", "error"}
Request == [op : {"list", "scan", "start", "close", "end"}, by : Client \cup {None},
            id : 0..MaxFlows, dev : Device \cup {None}]
Wait == {"unmount", "lsblk", "lookup", "mount", "verify", "read", "started"}
NoHolder == [req |-> None, at |-> "free", dev |-> None]
NoCopy == [step |-> "none", dev |-> None, left |-> {}, on |-> FALSE, told |-> FALSE,
           failed |-> FALSE]

TypeOK ==
    /\ owner \in Client \cup {None} /\ id \in 0..MaxFlows /\ phase \in Phase
    /\ volume \in Device \cup {None} /\ here \in BOOLEAN /\ names \subseteq Photo
    /\ here => volume # None
    /\ names # {} => volume # None /\ names = Content[volume]
    /\ cancel \in BOOLEAN
    /\ holder \in [req : Request, at : Wait, dev : Device \cup {None}] \cup {NoHolder}
    /\ queue \in Seq(Request)
    /\ copy \in [step : {"none", "running", "ending"}, dev : Device \cup {None},
                 left : SUBSET Photo, on : BOOLEAN, told : BOOLEAN, failed : BOOLEAN]
    /\ mounted \in [Device -> {"no", "us", "desktop"}] /\ plugged \subseteq Device
    /\ album \subseteq [name : STRING, nth : 1..Cardinality(Photo \cup Earlier), size : Nat]
    /\ dialog \in [Client -> [id : 0..MaxFlows, phase : Phase]]
    /\ lost \subseteq Device /\ troubles \in 0..MaxTroubles

(***************************************************************************)
(* The lock, the state sent to the panel, the volume let go                *)
(***************************************************************************)

Copying == copy.step # "none"
Owns(c) == owner = c /\ id = dialog[c].id
Readable(d) == d \in plugged /\ mounted[d] # "no"

\* __send: the state goes to the client of the flow, with the flow's number;
\* onPacket drops it if the dialog is closed or of another number.
Sent(shown, to, flow, now) ==
    [c \in Client |->
        IF c = to /\ shown[c].id = flow /\ shown[c].phase # "idle"
        THEN [shown[c] EXCEPT !.phase = now] ELSE shown[c]]

Holds(req, at, dev) == holder' = [req |-> req, at |-> at, dev |-> dev]
Free == holder' = NoHolder

\* What a request does once the volume of the flow has been let go.
Released(req, shown) ==
    \/ /\ req.op = "list" /\ phase' = "listing"
       /\ owner' = req.by /\ id' = req.id
       /\ Holds(req, "lsblk", None) /\ dialog' = Sent(shown, req.by, req.id, "listing")
       /\ UNCHANGED copy
    \/ /\ req.op = "scan" /\ phase' = "scanning"
       /\ Holds(req, "lookup", req.dev) /\ dialog' = Sent(shown, owner, id, "scanning")
       /\ UNCHANGED <<owner, id, copy>>
    \/ /\ req.op = "close" /\ phase' = "idle" /\ owner' = None
       /\ Free /\ dialog' = shown
       /\ UNCHANGED <<id, copy>>
    \/ /\ req.op = "end" /\ phase' = (IF copy.failed THEN "error" ELSE "done")
       /\ Free /\ dialog' = Sent(shown, owner, id, phase') /\ copy' = NoCopy
       /\ UNCHANGED <<owner, id>>

\* Mutant of Release: the mark that the volume is ours outlives it.
ReleaseHalf(req, shown) ==
    /\ volume' = None /\ names' = {} /\ UNCHANGED <<here, cancel, troubles>>
    /\ Released(req, shown)

\* Mutant of Release: the volume is forgotten, never unmounted.
ReleaseOnly(req, shown) ==
    /\ volume' = None /\ here' = FALSE /\ names' = {} /\ UNCHANGED <<cancel, troubles>>
    /\ Released(req, shown)

\* __release, first half: forget the volume, then unmount it if it is ours.
Release(req, shown) ==
    /\ volume' = None /\ here' = FALSE /\ names' = {}
    /\ IF here
       THEN /\ Holds(req, "unmount", volume)
            /\ IF req.op = "list" THEN owner' = req.by /\ id' = req.id
                                  ELSE UNCHANGED <<owner, id>>
            /\ dialog' = shown /\ UNCHANGED <<phase, copy>>
       ELSE Released(req, shown)
    /\ UNCHANGED <<cancel, troubles>>

\* handle_start, under the lock: the scan must still stand, the folder must be
\* writable and have room.
StartCopy(req, shown) ==
    /\ \/ /\ phase = "ready" /\ names # {} /\ req.dev = volume
          /\ cancel' = FALSE /\ phase' = "copying" /\ dialog' = shown
          /\ Holds(req, "started", volume) /\ UNCHANGED troubles
       \/ /\ IF phase = "ready" /\ names # {} /\ req.dev = volume
             THEN troubles < MaxTroubles /\ troubles' = troubles + 1
             ELSE UNCHANGED troubles
          /\ phase' = "error" /\ dialog' = Sent(shown, owner, id, "error")
          /\ Free /\ UNCHANGED cancel
    /\ UNCHANGED <<owner, id, volumeVars, copy>>

\* What runs at once when a request gets the lock.
Enter(req, shown) == IF req.op = "start" THEN StartCopy(req, shown) ELSE Release(req, shown)

Acquire(req, shown) ==
    IF holder = NoHolder /\ queue = <<>>
    THEN Enter(req, shown) /\ UNCHANGED queue
    ELSE /\ queue' = Append(queue, req) /\ dialog' = shown
         /\ UNCHANGED <<flowVars, volumeVars, cancel, holder, copy, troubles>>

Grant ==
    /\ holder = NoHolder /\ queue # <<>>
    /\ Enter(Head(queue), dialog) /\ queue' = Tail(queue)
    /\ UNCHANGED <<stickVars, album, lost>>

(***************************************************************************)
(* The requests                                                            *)
(***************************************************************************)

\* The event loop hands a free lock on before a panel can have seen the reply
\* that came with it.
Settled == holder = NoHolder => queue = <<>>

Ask(op, c, flow, dev) == [op |-> op, by |-> c, id |-> flow, dev |-> dev]
Showing(c, now) == [dialog EXCEPT ![c].phase = now]
Refuse(shown) ==
    /\ dialog' = shown
    /\ UNCHANGED <<flowVars, volumeVars, cancel, holder, queue, copy, troubles>>

\* The numbers only ever grow; the model takes again one that nothing bears.
Bears(c) ==
    {queue[i].id : i \in {j \in 1..Len(queue) : queue[j].by = c}}
    \cup (IF holder # NoHolder /\ holder.req.by = c THEN {holder.req.id} ELSE {})
    \cup (IF owner = c THEN {id} ELSE {})
Fresh(c, flow) == flow \notin Bears(c) /\ 1..flow - 1 \subseteq Bears(c)
Closed == [id |-> 0, phase |-> "idle"]

\* begin, and the button back to the drives: handle_list.
List(c) ==
    /\ Settled
    /\ \E flow \in 1..MaxFlows :
       LET shown == [dialog EXCEPT ![c] = [id |-> flow, phase |-> "listing"]]
       IN  /\ \/ dialog[c].phase = "idle" /\ Fresh(c, flow)
              \/ dialog[c].phase \in {"drives", "ready", "error"} /\ flow = dialog[c].id
           /\ IF Copying THEN Refuse([shown EXCEPT ![c].phase = "error"])
                         ELSE Acquire(Ask("list", c, flow, None), shown)
    /\ UNCHANGED <<stickVars, album, lost>>

\* A drive picked from the list: handle_scan.
Scan(c) ==
    /\ Settled /\ dialog[c].phase = "drives"
    /\ IF Owns(c) /\ ~Copying
       THEN \E d \in Device : Acquire(Ask("scan", c, id, d), Showing(c, "scanning"))
       ELSE Refuse(Showing(c, "scanning"))
    /\ UNCHANGED <<stickVars, album, lost>>

\* The dialog names the drive it shows, which stays "ready" until the answer
\* and can be tapped again: handle_start.
Start(c) ==
    /\ Settled /\ dialog[c].phase = "ready"
    /\ IF Owns(c) /\ ~Copying
       THEN \E d \in Device :
                /\ volume # None => d = volume
                /\ Len(queue) < 2   \* bound: taps before the answer
                /\ Acquire(Ask("start", c, id, d), dialog)
       ELSE FALSE
    /\ UNCHANGED <<stickVars, album, lost>>

\* The dialog closes: handle_close, which tells a running copy to stop.
Close(c) ==
    /\ Settled /\ dialog[c].phase # "idle"
    /\ IF ~Owns(c) THEN Refuse([dialog EXCEPT ![c] = Closed])
       ELSE IF Copying
       THEN /\ cancel' = TRUE /\ owner' = None /\ dialog' = [dialog EXCEPT ![c] = Closed]
            /\ UNCHANGED <<id, phase, volumeVars, holder, queue, copy, troubles>>
       ELSE Acquire(Ask("close", c, id, None), [dialog EXCEPT ![c] = Closed])
    /\ UNCHANGED <<stickVars, album, lost>>

(***************************************************************************)
(* What holds the lock, a call at a time                                   *)
(***************************************************************************)

At(op, at) == holder # NoHolder /\ holder.req.op = op /\ holder.at = at
Trouble == troubles < MaxTroubles /\ troubles' = troubles + 1

\* The step ends with an error shown to the client of the flow.
Fail ==
    /\ phase' = "error" /\ dialog' = Sent(dialog, owner, id, "error") /\ Free
    /\ UNCHANGED <<owner, id>>

\* udisksctl unmount answers; a volume with an open file is busy.
Unmounted ==
    /\ holder.at = "unmount"
    /\ \/ mounted' = [mounted EXCEPT ![holder.dev] = "no"] /\ UNCHANGED <<lost, troubles>>
       \/ /\ mounted[holder.dev] # "no"
          /\ IF copy.step = "running" /\ copy.dev = holder.dev THEN UNCHANGED troubles
                                                               ELSE Trouble
          /\ lost' = lost \cup {holder.dev} /\ UNCHANGED mounted
    /\ Released(holder.req, dialog)
    /\ UNCHANGED <<volumeVars, cancel, queue, plugged, album>>

\* Mutant of Listed: a listing that fails keeps the lock.
ListedUnlessRefused ==
    /\ At("list", "lsblk") /\ phase # "error"
    /\ phase' \in {"drives", "error"} /\ dialog' = Sent(dialog, owner, id, phase')
    /\ IF phase' = "error" THEN Trouble /\ UNCHANGED holder ELSE Free /\ UNCHANGED troubles
    /\ UNCHANGED <<owner, id, volumeVars, cancel, queue, copy, stickVars, album, lost>>

Listed ==
    /\ At("list", "lsblk")
    /\ \/ /\ phase' = "drives" /\ dialog' = Sent(dialog, owner, id, "drives") /\ Free
          /\ UNCHANGED <<owner, id, troubles>>
       \/ Trouble /\ Fail
    /\ UNCHANGED <<volumeVars, cancel, queue, copy, stickVars, album, lost>>

\* __volume: only a drive that is still listed; one that is mounted is used as it is.
\* The listing can fail too.
Looked ==
    /\ At("scan", "lookup")
    /\ LET d == holder.dev
       IN  \/ /\ Readable(d) /\ volume' = d /\ Holds(holder.req, "read", d)
              /\ UNCHANGED <<here, names, flowVars, dialog, troubles>>
           \/ /\ d \in plugged /\ mounted[d] = "no" /\ Holds(holder.req, "mount", d)
              /\ UNCHANGED <<volumeVars, flowVars, dialog, troubles>>
           \/ /\ IF d \in plugged THEN Trouble ELSE UNCHANGED troubles
              /\ Fail /\ UNCHANGED volumeVars
    /\ UNCHANGED <<cancel, queue, copy, stickVars, album, lost>>

\* __mount: a volume somebody mounted meanwhile is as good (AlreadyMounted).  A
\* command that ran out of time may have mounted it all the same.
Mounted ==
    /\ At("scan", "mount")
    /\ LET d == holder.dev
           taken == IF Readable(d) THEN mounted ELSE [mounted EXCEPT ![d] = "us"]
       IN  \/ /\ d \in plugged /\ mounted' = taken /\ Holds(holder.req, "verify", d)
              /\ UNCHANGED <<flowVars, dialog, lost, troubles>>
           \/ d \notin plugged /\ Fail /\ UNCHANGED <<mounted, lost, troubles>>
           \/ /\ d \in plugged /\ Trouble /\ Fail
              /\ mounted' \in {mounted, taken}
              /\ lost' = IF mounted'[d] = "us" THEN lost \cup {d} ELSE lost
    /\ UNCHANGED <<volumeVars, cancel, queue, copy, plugged, album>>

Verified ==
    /\ At("scan", "verify")
    /\ LET d == holder.dev
       IN  \/ /\ Readable(d) /\ volume' = d /\ here' = TRUE /\ Holds(holder.req, "read", d)
              /\ UNCHANGED <<names, flowVars, dialog, lost, troubles>>
           \/ /\ IF Readable(d) THEN Trouble ELSE UNCHANGED troubles
              /\ lost' = IF mounted[d] = "us" THEN lost \cup {d} ELSE lost
              /\ Fail /\ UNCHANGED volumeVars
    /\ UNCHANGED <<cancel, queue, copy, stickVars, album>>

\* scan_folder
Read ==
    /\ At("scan", "read")
    /\ \/ /\ Readable(volume) /\ names' = Content[volume] /\ phase' = "ready"
          /\ dialog' = Sent(dialog, owner, id, "ready") /\ Free
          /\ UNCHANGED <<owner, id>>
       \/ ~Readable(volume) /\ Fail /\ UNCHANGED names
    /\ UNCHANGED <<volume, here, cancel, queue, copy, stickVars, album, lost, troubles>>

\* The reply is out: only now is there a copy that others can see.
Started ==
    /\ At("start", "started") /\ Free
    /\ copy' = [step |-> "running", dev |-> volume, left |-> names, on |-> FALSE,
                told |-> FALSE, failed |-> FALSE]
    /\ dialog' = Sent(dialog, owner, id, "copying")
    /\ UNCHANGED <<flowVars, volumeVars, cancel, queue, stickVars, album, lost, troubles>>

(***************************************************************************)
(* The copy                                                                *)
(***************************************************************************)

\* Mutant of DestinationName: any file of the name is another photo.
DestinationNameFree(p) ==
    CHOOSE n \in 1..Cardinality(album) + 1 :
        /\ \A f \in album : f.name = p.name => f.nth # n
        /\ \A k \in 1..n - 1 : \E f \in album : f.name = p.name /\ f.nth = k

\* destination_name: the first of IMG.jpg, IMG (2).jpg, ... that is free, or is
\* this photo already.
DestinationName(p) ==
    LET differs(n) == \E f \in album : f.name = p.name /\ f.nth = n /\ f.size # p.size
    IN  CHOOSE n \in 1..Cardinality(album) + 1 :
            ~differs(n) /\ \A k \in 1..n - 1 : differs(k)

\* The names are sorted; any one order will do.
FirstFile(left) == CHOOSE p \in left : TRUE

\* Between two files the worker looks whether it is to stop.
NextFile ==
    /\ copy.step = "running" /\ ~copy.on /\ ~cancel /\ copy.left # {}
    /\ copy' = [copy EXCEPT !.on = TRUE]
    /\ UNCHANGED <<flowVars, volumeVars, cancel, holder, queue, stickVars, album, dialog, lost,
                   troubles>>

\* Under a hidden name, then renamed; nothing for one that is there.  The file
\* it is on is finished even if the copy was told to stop.
CopyFile ==
    /\ copy.step = "running" /\ copy.on /\ Readable(copy.dev)
    /\ \E p \in copy.left :
           /\ p = FirstFile(copy.left)
           /\ album' = album \cup {[name |-> p.name, nth |-> DestinationName(p), size |-> p.size]}
           /\ copy' = [copy EXCEPT !.left = @ \ {p}, !.on = FALSE, !.told = FALSE]
    /\ UNCHANGED <<flowVars, volumeVars, cancel, holder, queue, stickVars, dialog, lost, troubles>>

\* __copy's loop: a new count goes to whoever runs the flow by now, and with it
\* the phase as it is by now.
Progress ==
    /\ copy.step = "running" /\ ~copy.told
    /\ copy' = [copy EXCEPT !.told = TRUE] /\ dialog' = Sent(dialog, owner, id, phase)
    /\ UNCHANGED <<flowVars, volumeVars, cancel, holder, queue, stickVars, album, lost, troubles>>

\* Mutant of CopyOver: the worker's exception is not looked at.
CopyOverQuietly ==
    /\ copy.step = "running"
    /\ queue' = Append(queue, Ask("end", None, 0, copy.dev))
    /\ copy' = [copy EXCEPT !.step = "ending", !.on = FALSE, !.told = TRUE]
    /\ UNCHANGED <<flowVars, volumeVars, cancel, holder, stickVars, album, dialog, lost, troubles>>

\* The worker is done: all copied, told to stop, or a file that cannot be.  The
\* last count goes out with the end, if not before.
CopyOver ==
    /\ copy.step = "running"
    /\ LET end == Ask("end", None, 0, copy.dev)
           over == [copy EXCEPT !.step = "ending", !.on = FALSE, !.told = TRUE, !.failed = copy.on]
       IN  /\ copy.on \/ cancel \/ copy.left = {}
           /\ IF copy.on /\ Readable(copy.dev) THEN Trouble ELSE UNCHANGED troubles
           /\ queue' = Append(queue, end) /\ copy' = over
    /\ UNCHANGED <<flowVars, volumeVars, cancel, holder, stickVars, album, dialog, lost>>

Copy == NextFile \/ CopyFile \/ CopyOver

(***************************************************************************)
(* Around the service                                                      *)
(***************************************************************************)

\* The desktop's automounter, and its eject.
DesktopMounts(d) ==
    /\ d \in plugged /\ Trouble
    /\ mounted' = [mounted EXCEPT ![d] = IF @ = "no" THEN "desktop" ELSE "no"]
    /\ UNCHANGED <<flowVars, volumeVars, cancel, holder, queue, copy, plugged, album, dialog, lost>>

Unplug(d) ==
    /\ d \in plugged /\ Trouble
    /\ plugged' = plugged \ {d} /\ mounted' = [mounted EXCEPT ![d] = "no"]
    /\ lost' = lost \ {d}
    /\ UNCHANGED <<flowVars, volumeVars, cancel, holder, queue, copy, album, dialog>>

Plug(d) ==
    /\ d \notin plugged /\ plugged' = plugged \cup {d}
    /\ UNCHANGED <<flowVars, volumeVars, cancel, holder, queue, copy, mounted, album, dialog,
                   lost, troubles>>

\* The queue without the requests of one client; the others keep their order.
Without(c) ==
    LET kept == {i \in 1..Len(queue) : queue[i].by # c}
        before(i) == Cardinality({j \in kept : j < i})
    IN  [n \in 1..Cardinality(kept) |-> queue[CHOOSE i \in kept : before(i) = n - 1]]

\* The connection goes: its handlers are cancelled where they wait, its writer is
\* nobody's any more, and the dialog shows an error.
Leave(c) ==
    /\ dialog[c].phase # "idle" /\ Trouble
    /\ dialog' = [dialog EXCEPT ![c] = [id |-> 1, phase |-> "error"]]
    /\ owner' = IF owner = c THEN None ELSE owner
    /\ queue' = Without(c)
    /\ IF holder # NoHolder /\ holder.req.by = c
       THEN /\ Free
            /\ \/ holder.at = "mount" /\ holder.dev \in plugged /\ mounted[holder.dev] = "no"
                  /\ mounted' = [mounted EXCEPT ![holder.dev] = "us"]
               \/ holder.at = "unmount"
                  /\ mounted' = [mounted EXCEPT ![holder.dev] = "no"]
               \/ UNCHANGED mounted
            /\ lost' = lost \cup {d \in {holder.dev} : /\ holder.at \in {"mount", "verify", "unmount"}
                                                     /\ mounted'[d] = "us"}
       ELSE UNCHANGED <<holder, mounted, lost>>
    /\ UNCHANGED <<id, phase, volumeVars, cancel, copy, plugged, album>>

\* The backend dies and is started again; what it mounted stays mounted.
Crash ==
    /\ Trouble
    /\ owner' = None /\ id' = 0 /\ phase' = "idle"
    /\ volume' = None /\ here' = FALSE /\ names' = {} /\ cancel' = FALSE
    /\ holder' = NoHolder /\ queue' = <<>> /\ copy' = NoCopy
    /\ dialog' = [c \in Client |->
                     IF dialog[c].phase = "idle" THEN dialog[c]
                     ELSE [dialog[c] EXCEPT !.phase = "error"]]
    /\ lost' = {d \in Device : mounted[d] = "us"}
    /\ UNCHANGED <<stickVars, album>>

Init ==
    /\ owner = None /\ id = 0 /\ phase = "idle"
    /\ volume = None /\ here = FALSE /\ names = {} /\ cancel = FALSE
    /\ holder = NoHolder /\ queue = <<>> /\ copy = NoCopy
    /\ mounted \in [Device -> {"no", "desktop"}] /\ plugged = Device
    /\ album \in {{}, Earlier} /\ lost = {} /\ troubles = 0
    /\ dialog = [c \in Client |-> Closed]

Holder == Unmounted \/ Listed \/ Looked \/ Mounted \/ Verified \/ Read \/ Started

Next ==
    \/ \E c \in Client : List(c) \/ Scan(c) \/ Start(c) \/ Close(c) \/ Leave(c)
    \/ Grant \/ Holder \/ Copy \/ Progress
    \/ \E d \in Device : DesktopMounts(d) \/ Unplug(d) \/ Plug(d)
    \/ Crash

Spec == Init /\ [][Next]_vars

\* Commands answer or time out, the lock is handed on, the worker thread runs and
\* its reads of the stick return.
FairSpec == Spec /\ WF_vars(Holder) /\ WF_vars(Grant) /\ WF_vars(Copy)

(***************************************************************************)
(* Properties                                                              *)
(***************************************************************************)

\* A volume the service mounted is the one it has on record, and so will unmount,
\* or is being mounted or unmounted, unless a call failed or was cut over it.
MountsAreOnRecord ==
    \A d \in Device : mounted[d] = "us" /\ d \notin lost =>
        \/ volume = d /\ here
        \/ holder.dev = d /\ holder.at \in {"verify", "unmount"}

\* No photo is replaced by another or imported twice, whatever stick it comes from.
PhotosAreKept ==
    \A f, g \in album : f.name = g.name /\ (f.nth = g.nth \/ f.size = g.size) => f = g

\* A copy reported done, that nobody stopped, leaves every photo of its stick in
\* the folder.
DoneMeansImported ==
    [][copy.step = "ending" /\ copy' = NoCopy /\ phase' = "done" /\ ~cancel =>
           \A p \in Content[copy.dev] : \E f \in album : f.name = p.name /\ f.size = p.size]_vars

\* A dialog that waits for its drives is answered, whoever else asks, and every
\* copy ends: it is done, told to stop, or failed by its stick.
NothingWaitsForever ==
    /\ \A c \in Client : dialog[c].phase = "listing" ~> dialog[c].phase # "listing"
    /\ Copying ~> ~Copying

\* A stick the desktop mounted is left as it was.
DesktopMountsStay ==
    [][holder.at = "unmount" /\ holder' # holder /\ mounted[holder.dev] = "desktop" =>
           mounted'[holder.dev] = "desktop"]_vars

\* The flow runs for one client at a time: what takes the lock for a flow was
\* sent by the client of the flow as it is then.
FlowsAreOneClients ==
    [][Grant /\ Head(queue).op \in {"scan", "start", "close"} =>
           owner \in {Head(queue).by, None}]_vars

=============================================================================
