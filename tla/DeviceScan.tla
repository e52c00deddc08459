----------------------------- MODULE DeviceScan -----------------------------
(***************************************************************************)
(* SpotifyDeviceService (backend/src/media_service/                        *)
(* spotify_device_service.py): a panel asks which Spotify device is        *)
(* playing.  A scan silences the radio, polls Spotify and ends when its    *)
(* client stops it, selects a device, leaves or is replaced by another     *)
(* scan, when it expires or when the grant dies; the radio it silenced is  *)
(* owed back.                                                              *)
(*                                                                         *)
(* step[s] says where the coroutine of scan s is: the start handler until  *)
(* it hands over to the poll task.                                         *)
(*   new        not asked for yet                                          *)
(*   evicting   telling the owner of the scan it replaces                  *)
(*   stopping   stop_other_playback, streaming the silence                 *)
(*   resolving  asking Spotify for the configured device's name            *)
(*   polling    the poll task                                              *)
(*   leaving    the poll task, telling its client why it ends              *)
(*   over                                                                  *)
(*                                                                         *)
(* The players are reduced to whether the radio sounds and whether Spotify *)
(* holds playback (MediaPlayback has the rest).  A scan stands for its     *)
(* epoch; each client has one selection at a time.                         *)
(***************************************************************************)
EXTENDS Naturals, FiniteSets

CONSTANTS
    Panel,   \* connections: a client that left comes back as another one
    Scan,    \* the scans that may be asked for, each once
    NoScan   \* no scan

ASSUME ScanAssumption == IsFiniteSet(Scan) /\ NoScan \notin Scan

VARIABLES
    live,       \* SpotifyDeviceService.__scan
    step,       \* where each scan's coroutine is
    owner,      \* scan["writer"]
    owes,       \* scan["stopped_playback"]
    found,      \* what stop_other_playback is about to return to the handler
    previous,   \* the scan a start handler replaced
    saw,        \* scan["playback"] is a device that plays
    selection,  \* each client's selection in flight
    gone,       \* clients whose writer is closing
    radio,      \* the radio sounds
    spotify,    \* Spotify holds playback
    dead,       \* SpotifyPlayer._auth_error is set
    unanswered, \* a scan silenced a playing radio, and no resume was tried since
    silences,   \* how often a scan silenced a playing radio
    resumes,    \* how often a resume was tried
    overlapped, \* a start overlapped another request
    cut         \* a request was cut off by its client leaving

scanVars  == <<live, step, owner, owes, found, previous, saw>>
radioVars == <<radio, unanswered>>
histVars  == <<overlapped, cut>>
deviceVars == <<scanVars, radioVars, selection, gone, spotify, dead, silences, resumes, histVars>>

HandlerSteps == {"evicting", "stopping", "resolving"}
NoSelection == [step |-> "none", scan |-> NoScan]

ScanTypeOK ==
    /\ live \in Scan \cup {NoScan}
    /\ step \in [Scan -> {"new", "polling", "leaving", "over"} \cup HandlerSteps]
    /\ owner \in [Scan -> Panel]
    /\ owes \in [Scan -> BOOLEAN] /\ found \in [Scan -> BOOLEAN] /\ saw \in [Scan -> BOOLEAN]
    /\ previous \in [Scan -> Scan \cup {NoScan}]
    /\ selection \in [Panel -> {NoSelection} \cup [step : {"writing", "telling"}, scan : Scan]]
    /\ gone \subseteq Panel
    /\ radio \in BOOLEAN /\ unanswered \in BOOLEAN /\ spotify \in BOOLEAN /\ dead \in BOOLEAN
    /\ overlapped \in BOOLEAN /\ cut \in BOOLEAN
    /\ silences \in Nat /\ resumes \in Nat

(***************************************************************************)
(* The radio a scan owes                                                   *)
(***************************************************************************)

\* Mutant of GiveBack: the obligation is not cleared by the resume.
GiveBackTwice(s) ==
    IF s # NoScan /\ owes[s]
    THEN /\ resumes' = resumes + 1
         /\ radio' = (radio \/ ~spotify)
         /\ unanswered' = FALSE
         /\ UNCHANGED owes
    ELSE UNCHANGED <<owes, resumes, radioVars>>

\* __resume_playback: the flag goes first, then the radio plays unless Spotify
\* holds playback (resume_default_playback).  The resume may fail: the error is
\* swallowed, a station that cannot be fetched plays nothing, or the client
\* leaves during the fetch.  Nobody tries again.
GiveBack(s) ==
    IF s # NoScan /\ owes[s]
    THEN /\ owes' = [owes EXCEPT ![s] = FALSE]
         /\ resumes' = resumes + 1
         /\ \/ radio' = (radio \/ ~spotify)
            \/ UNCHANGED radio
         /\ unanswered' = FALSE
    ELSE UNCHANGED <<owes, resumes, radioVars>>

\* __cancel_scan: the steps once the live scan's poll task, if it has one, is
\* cancelled.  A start handler that has none yet goes on.
Cancelled == [s \in Scan |-> IF s = live /\ step[s] = "polling" THEN "over" ELSE step[s]]

(***************************************************************************)
(* SPOTIFY_DEVICE_SCAN_START                                               *)
(***************************************************************************)

\* The scan becomes the live one, whatever is live by now, and takes the
\* obligation of the scan p it replaced.
Own(s, p, stopped, steps) ==
    /\ live' = s
    /\ owes' = [t \in Scan |-> IF t = s THEN stopped \/ (p # NoScan /\ owes[p])
                                        ELSE owes[t] /\ t # p]
    /\ step' = [steps EXCEPT ![s] = "resolving"]

\* From the eviction on: a dead grant refuses the scan and gives back what the
\* replaced one owed; else whatever plays is stopped.  When Spotify holds
\* playback there is nothing to stop and nothing to wait for.
Silence(s, p, steps, none) ==
    \/ /\ dead
       /\ GiveBack(p)
       /\ step' = [steps EXCEPT ![s] = "over"]
       /\ live' = none
       /\ UNCHANGED <<found, silences>>
    \/ /\ ~dead /\ spotify
       /\ Own(s, p, FALSE, steps)
       /\ UNCHANGED <<found, radioVars, silences, resumes>>
    \/ /\ ~dead /\ ~spotify
       /\ found' = [found EXCEPT ![s] = radio]
       /\ radio' = FALSE
       /\ unanswered' = (unanswered \/ radio)
       /\ silences' = IF radio THEN silences + 1 ELSE silences
       /\ step' = [steps EXCEPT ![s] = "stopping"]
       /\ live' = none
       /\ UNCHANGED <<owes, resumes>>

Busy == (\E s \in Scan : step[s] \in HandlerSteps) \/ (\E c \in Panel : selection[c] # NoSelection)

\* The handler takes the live scan away; another panel's owner is told first.
Start(c, s) ==
    /\ c \notin gone /\ step[s] = "new"
    /\ owner' = [owner EXCEPT ![s] = c]
    /\ previous' = [previous EXCEPT ![s] = live]
    /\ overlapped' = (overlapped \/ Busy)
    /\ IF live # NoScan /\ owner[live] \notin gone \cup {c}
       THEN /\ step' = [Cancelled EXCEPT ![s] = "evicting"]
            /\ live' = NoScan
            /\ UNCHANGED <<owes, found, radioVars, silences, resumes>>
       ELSE Silence(s, live, Cancelled, NoScan)
    /\ UNCHANGED <<saw, selection, gone, spotify, dead, cut>>

Evicted(s) ==
    /\ step[s] = "evicting"
    /\ Silence(s, previous[s], step, live)
    /\ UNCHANGED <<owner, previous, saw, selection, gone, spotify, dead, histVars>>

Stopped(s) ==
    /\ step[s] = "stopping"
    /\ Own(s, previous[s], found[s], step)
    /\ UNCHANGED <<owner, previous, found, saw, radioVars, selection, gone, spotify, dead, silences, resumes, histVars>>

\* The name is known: the poll task starts, unless the scan is no longer live.
Resolved(s) ==
    /\ step[s] = "resolving"
    /\ step' = [step EXCEPT ![s] = IF live = s THEN "polling" ELSE "over"]
    /\ UNCHANGED <<live, owner, owes, found, previous, saw, radioVars, selection, gone, spotify, dead, silences, resumes, histVars>>

(***************************************************************************)
(* The poll task                                                           *)
(***************************************************************************)

Probe(s) ==
    /\ step[s] = "polling" /\ live = s
    /\ owner[s] \notin gone /\ ~dead
    /\ saw' = [saw EXCEPT ![s] = ~@]
    /\ UNCHANGED <<live, step, owner, owes, found, previous, radioVars, selection, gone, spotify, dead, silences, resumes, histVars>>

\* Another scan became live without cancelling this one's task.
PollSuperseded(s) ==
    /\ step[s] = "polling" /\ live # s
    /\ step' = [step EXCEPT ![s] = "over"]
    /\ UNCHANGED <<live, owner, owes, found, previous, saw, radioVars, selection, gone, spotify, dead, silences, resumes, histVars>>

\* The client is gone: nobody is told.
PollAlone(s) ==
    /\ step[s] = "polling" /\ live = s /\ owner[s] \in gone
    /\ live' = NoScan
    /\ step' = [step EXCEPT ![s] = "over"]
    /\ GiveBack(s)
    /\ UNCHANGED <<owner, found, previous, saw, selection, gone, spotify, dead, silences, histVars>>

\* The scan expires (at any time here), or the grant is dead.
PollEnds(s) ==
    /\ step[s] = "polling" /\ live = s /\ owner[s] \notin gone
    /\ live' = NoScan
    /\ step' = [step EXCEPT ![s] = "leaving"]
    /\ UNCHANGED <<owner, owes, found, previous, saw, radioVars, selection, gone, spotify, dead, silences, resumes, histVars>>

Left(s) ==
    /\ step[s] = "leaving"
    /\ step' = [step EXCEPT ![s] = "over"]
    /\ GiveBack(s)
    /\ UNCHANGED <<live, owner, found, previous, saw, selection, gone, spotify, dead, silences, histVars>>

(***************************************************************************)
(* SPOTIFY_DEVICE_SCAN_STOP and SPOTIFY_DEVICE_SELECT                      *)
(***************************************************************************)

\* Mutant of Stop: the scan is cancelled and its silence kept.
StopSilently(c) ==
    /\ live # NoScan /\ owner[live] = c /\ c \notin gone
    /\ live' = NoScan /\ step' = Cancelled
    /\ UNCHANGED <<owner, owes, found, previous, saw, radioVars, selection, gone, spotify, dead, silences, resumes, histVars>>

Stop(c) ==
    /\ live # NoScan /\ owner[live] = c /\ c \notin gone
    /\ live' = NoScan
    /\ step' = Cancelled
    /\ GiveBack(live)
    /\ UNCHANGED <<owner, found, previous, saw, selection, gone, spotify, dead, silences, histVars>>

\* Mutant of Select: the selection of a scan that nobody owns is accepted.
SelectAny(c) ==
    /\ c \notin gone /\ selection[c] = NoSelection
    /\ selection' = [selection EXCEPT ![c] = [step |-> "writing", scan |-> live]]
    /\ UNCHANGED <<scanVars, radioVars, gone, spotify, dead, silences, resumes, histVars>>

\* The owner of the live scan selects: the device id is on its way to disk.
Select(c) ==
    /\ live # NoScan /\ owner[live] = c /\ c \notin gone
    /\ selection[c] = NoSelection
    /\ selection' = [selection EXCEPT ![c] = [step |-> "writing", scan |-> live]]
    /\ UNCHANGED <<scanVars, radioVars, gone, spotify, dead, silences, resumes, histVars>>

\* The write failed: the scan stays as it is, for a retry.
SelectFailed(c) ==
    /\ selection[c].step = "writing"
    /\ selection' = [selection EXCEPT ![c] = NoSelection]
    /\ UNCHANGED <<scanVars, radioVars, gone, spotify, dead, silences, resumes, histVars>>

\* The id is saved.  Whatever scan is live by now is cancelled and its silence
\* kept; the selected one's is given back after the reply, unless the device
\* was playing and Spotify is about to take over.
SelectSaved(c) ==
    /\ selection[c].step = "writing"
    /\ live' = NoScan
    /\ step' = Cancelled
    /\ IF saw[selection[c].scan]
       THEN /\ selection' = [selection EXCEPT ![c] = NoSelection]
            /\ unanswered' = FALSE
       ELSE /\ selection' = [selection EXCEPT ![c].step = "telling"]
            /\ UNCHANGED unanswered
    /\ UNCHANGED <<owner, owes, found, previous, saw, radio, gone, spotify, dead, silences, resumes, histVars>>

SelectTold(c) ==
    /\ selection[c].step = "telling"
    /\ GiveBack(selection[c].scan)
    /\ selection' = [selection EXCEPT ![c] = NoSelection]
    /\ UNCHANGED <<live, step, owner, found, previous, saw, gone, spotify, dead, silences, histVars>>

(***************************************************************************)
(* Clients, players and the grant                                          *)
(***************************************************************************)

\* A client leaves: Server.__cleanup_client cancels its handlers where they
\* are.  The poll task is not the server's and goes on.
LeaveScan(c) ==
    /\ c \notin gone
    /\ gone' = gone \cup {c}
    /\ LET mine == {s \in Scan : owner[s] = c /\ step[s] \in HandlerSteps} IN
        /\ step' = [s \in Scan |-> IF s \in mine THEN "over" ELSE step[s]]
        /\ cut' = (cut \/ mine # {} \/ selection[c] # NoSelection)
    /\ selection' = [selection EXCEPT ![c] = NoSelection]
    /\ UNCHANGED <<live, owner, owes, found, previous, saw, radioVars, spotify, dead, silences, resumes, overlapped>>

\* The user plays or pauses the radio; Spotify claims playback, or lets go.
RadioToggled ==
    /\ ~spotify
    /\ radio' = ~radio
    /\ unanswered' = FALSE
    /\ UNCHANGED <<scanVars, selection, gone, spotify, dead, silences, resumes, histVars>>

SpotifyTurns ==
    /\ spotify' = ~spotify
    /\ radio' = (radio /\ spotify)
    /\ unanswered' = FALSE
    /\ UNCHANGED <<scanVars, selection, gone, dead, silences, resumes, histVars>>

GrantTurns ==
    /\ dead' = ~dead
    /\ UNCHANGED <<scanVars, radioVars, selection, gone, spotify, silences, resumes, histVars>>

(***************************************************************************)
(* The specification                                                       *)
(***************************************************************************)

ScanInit ==
    /\ live = NoScan
    /\ step = [s \in Scan |-> "new"]
    /\ owner \in {[s \in Scan |-> c] : c \in Panel}
    /\ owes = [s \in Scan |-> FALSE] /\ found = owes /\ saw = owes
    /\ previous = [s \in Scan |-> NoScan]
    /\ selection = [c \in Panel |-> NoSelection]
    /\ gone = {}
    /\ radio \in BOOLEAN /\ spotify = FALSE /\ dead = FALSE
    /\ unanswered = FALSE /\ silences = 0 /\ resumes = 0
    /\ overlapped = FALSE /\ cut = FALSE

ScanStep(s) == Evicted(s) \/ Stopped(s) \/ Resolved(s) \/ PollSuperseded(s) \/ PollAlone(s) \/ PollEnds(s) \/ Left(s)
SelectStep(c) == SelectFailed(c) \/ SelectSaved(c) \/ SelectTold(c)

ScanNext ==
    \/ \E s \in Scan : ScanStep(s) \/ Probe(s)
    \/ \E c \in Panel : SelectStep(c) \/ Stop(c) \/ Select(c) \/ LeaveScan(c)
    \/ \E c \in Panel, s \in Scan : Start(c, s)
    \/ RadioToggled \/ SpotifyTurns \/ GrantTurns

ScanSpec == ScanInit /\ [][ScanNext]_deviceVars

\* Every call ends (they have timeouts) and every scan expires.
ScanFairness ==
    /\ \A s \in Scan : WF_deviceVars(ScanStep(s))
    /\ \A c \in Panel : WF_deviceVars(SelectStep(c))

ScanFairSpec == ScanSpec /\ ScanFairness

(***************************************************************************)
(* What a scan promises                                                    *)
(***************************************************************************)

\* However scans replace each other, expire, are stopped and selected from, the
\* radio is resumed (or tried to be) no more often than a scan silenced it: no
\* path resumes twice, and a radio nobody silenced is not started.
ResumedOnceEach == resumes + Cardinality({s \in Scan : owes[s]}) <= silences

\* The live scan is served: its handler or its poll task is at work, so its
\* dialog never waits for nothing (unless its start was cut off).
LiveScanIsServed == live # NoScan /\ ~cut => step[live] \in {"resolving", "polling"}

\* Through all replacements, expiries and selections: what is live is served,
\* and what it silenced is given back once.
ScansKeepTheirDuties == ResumedOnceEach /\ LiveScanIsServed

\* Every silence a scan made is answered: a resume of the radio is tried, the
\* user or Spotify plays, or the device selected was playing.  That a resume
\* succeeds is not promised: a failed one leaves the house silent.  This holds
\* when requests are served one at a time and none is cut off.
EverySilenceIsAnswered == unanswered ~> ~unanswered \/ overlapped \/ cut

(***************************************************************************)
(* What the source says of itself and the code does not do                 *)
(***************************************************************************)

\* __resume_playback restores the playback a scan silenced "on every way a scan
\* ENDS": a silence always has somebody who will answer it.
SilenceHasAnOwner ==
    unanswered => \/ \E s \in Scan : step[s] \in {"polling", "leaving"} \cup HandlerSteps
                \/ \E c \in Panel : selection[c] # NoSelection
=============================================================================
