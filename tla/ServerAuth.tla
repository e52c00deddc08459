----------------------------- MODULE ServerAuth -----------------------------
(***************************************************************************)
(* The TLS server (backend/src/server/server.py) together with the login   *)
(* gate it runs on every connection (backend/src/auth_service/             *)
(* auth_service.py).  Both are coroutines of one asyncio loop, so an       *)
(* action here is the code between two real suspension points; everything  *)
(* between two of them is atomic.                                          *)
(*                                                                         *)
(* A connection's coroutine is where phase[c] says:                        *)
(*   none       no connection in this slot                                 *)
(*   hello      AUTH_HELLO sent, waiting for the first message             *)
(*   challenge  SCRAM challenge sent, waiting for the proof                *)
(*   refusing   telling the display why it may not in                      *)
(*   result     in __admit, flushing AUTH_RESULT                           *)
(*   announce   in __admit, broadcasting the display list                  *)
(*   snapshot   registered, services stream their state                    *)
(*   reading    in __read_loop                                             *)
(*   closing    cleaned up, waiting for the transport to close             *)
(*                                                                         *)
(* Left out: the SCRAM arithmetic and the throttle (a message is right or  *)
(* wrong, a refusal is a choice), the payloads, and every message that is  *)
(* not a login, a display-list request or a revocation.                    *)
(***************************************************************************)
EXTENDS Integers, FiniteSets

CONSTANTS
    Conn,           \* connection slots: one StreamWriter at a time each
    Display,        \* the ids secrets.token_hex(8) can issue, each at most once
    Job,            \* slots for in-flight handler tasks
    Password,       \* the values TESLA_HOMEDASH_PASSWORD may have
    None,           \* no identity, no password, no job
    Lifetimes,      \* values of auth.tokenLifetimeDays; 0 is "never expires"
    MaxCount,       \* bound: connections of a display counted at once
    MaxClock,       \* bound: days that pass in a behaviour
    MaxSaveErrors,  \* bound: failed writes of paired_displays.json
    MaxRestarts     \* bound: restarts of the backend

ASSUME ConstantsAssumption ==
    /\ IsFiniteSet(Conn)
    /\ None \notin Display \cup Password \cup Conn
    /\ Lifetimes \subseteq Nat
    /\ MaxCount \in Nat /\ MaxClock \in Nat
    /\ MaxSaveErrors \in Nat /\ MaxRestarts \in Nat

VARIABLES
    phase,      \* where each connection's coroutine is
    link,       \* "up", or "down" once the peer is gone or the writer closed
    ident,      \* the identity that coroutine holds
    active,     \* keys of Server.__active_connections
    peer,       \* Server.__peers, reduced to the identity's id
    job,        \* in-flight handler tasks
    displays,   \* keys of AuthService.__displays
    lastSeen,   \* their "lastSeen" stamps, in days
    count,      \* AuthService.__connections
    lifetime,   \* AuthService.__lifetime_days
    verifier,   \* the password __verifier was derived from, or None
    disk,       \* paired_displays.json
    clock,      \* the wall clock, in days
    issued,     \* every id issued so far
    revoked,    \* every id handle_revoke has forgotten
    saveErrors, \* failed writes so far
    restarts    \* restarts so far

netVars   == <<phase, link, ident, active, peer, job>>
storeVars == <<displays, lastSeen, count, disk, saveErrors>>
confVars  == <<lifetime, verifier>>
envVars   == <<clock, restarts>>
histVars  == <<issued, revoked>>
vars == <<netVars, storeVars, confVars, envVars, histVars>>

LoginPhases == {"hello", "challenge", "refusing", "result", "announce"}
OpenPhases  == {"snapshot", "reading"}
HeldPhases  == {"result", "announce", "snapshot", "reading", "closing"}
Phases      == {"none"} \cup LoginPhases \cup OpenPhases \cup {"closing"}

NoJob == [owner |-> None, target |-> None, step |-> "idle"]
Jobs == {NoJob}
    \cup [owner : Conn, target : Display \cup {None}, step : {"queued", "announcing"}]

Stores == [ids : SUBSET Display, seen : [Display -> 0..MaxClock],
           password : Password \cup {None}]

TypeOK ==
    /\ phase \in [Conn -> Phases]
    /\ link \in [Conn -> {"up", "down"}]
    /\ ident \in [Conn -> Display \cup {None}]
    /\ active \subseteq Conn
    /\ peer \in [Conn -> Display \cup {None}]
    /\ job \in [Job -> Jobs]
    /\ displays \subseteq Display
    /\ lastSeen \in [Display -> 0..MaxClock]
    /\ count \in [Display -> Nat]
    /\ lifetime \in Lifetimes
    /\ verifier \in Password \cup {None}
    /\ disk \in Stores
    /\ clock \in 0..MaxClock
    /\ issued \subseteq Display
    /\ revoked \subseteq Display
    /\ saveErrors \in 0..MaxSaveErrors
    /\ restarts \in 0..MaxRestarts

(***************************************************************************)
(* The store                                                               *)
(***************************************************************************)

\* The connections whose coroutine holds an admitted identity d.
Holders(d) == {c \in Conn : phase[c] \in HeldPhases /\ ident[c] = d}

\* Mutant of Expired: a login lapses under its own open connection.
ExpiredWhileOpen(days, d, counts, stamps) == days > 0 /\ clock - stamps[d] > days

\* AuthService.__expired under a lifetime of days, against the counts and
\* stamps given to it.
Expired(days, d, counts, stamps) ==
    /\ days > 0
    /\ counts[d] = 0
    /\ clock - stamps[d] > days

Lapsed(days, ids, counts, stamps) == {d \in ids : Expired(days, d, counts, stamps)}

\* A stamp is only kept for a remembered display.
KeepStamps(stamps, ids) == [d \in Display |-> IF d \in ids THEN stamps[d] ELSE 0]

\* Mutant of Save: the store is left as it was.
SaveForgotten(ids, stamps, password) == UNCHANGED <<disk, saveErrors>>

\* AuthService.__save: the whole document, or a logged OSError and the old one.
Save(ids, stamps, password) ==
    \/ /\ disk' = [ids |-> ids, seen |-> stamps, password |-> password]
       /\ UNCHANGED saveErrors
    \/ /\ saveErrors < MaxSaveErrors
       /\ saveErrors' = saveErrors + 1
       /\ UNCHANGED disk

\* __prune, which __displays_frame runs before every display list it builds:
\* the lapsed displays of (ids, counts, stamps) are forgotten.  The store is
\* written when something lapsed or when the caller had already changed it.
PruneAndSave(days, ids, counts, stamps, changed) ==
    LET kept == ids \ Lapsed(days, ids, counts, stamps) IN
    /\ displays' = kept
    /\ lastSeen' = KeepStamps(stamps, kept)
    /\ count' = counts
    /\ IF changed \/ kept # ids
       THEN Save(kept, KeepStamps(stamps, kept), verifier)
       ELSE UNCHANGED <<disk, saveErrors>>

(***************************************************************************)
(* A connection logs in                                                    *)
(***************************************************************************)

\* The TLS handshake is done and AUTH_HELLO is on its way.
Connect(c) ==
    /\ phase[c] = "none"
    /\ \A j \in Job : job[j].owner # c
    /\ phase' = [phase EXCEPT ![c] = "hello"]
    /\ link' = [link EXCEPT ![c] = "up"]
    /\ UNCHANGED <<ident, active, peer, job, storeVars, confVars, envVars, histVars>>

\* A refusal that changes nothing in the store: a malformed or unexpected
\* message, no password set, a throttled address, a wrong password or binding.
Refuse(c) ==
    /\ phase[c] \in {"hello", "challenge"} /\ link[c] = "up"
    /\ phase' = [phase EXCEPT ![c] = "refusing"]
    /\ UNCHANGED <<link, ident, active, peer, job, storeVars, confVars, envVars, histVars>>

\* AUTH_SCRAM_START accepted: the challenge is sent.
Challenge(c) ==
    /\ phase[c] = "hello" /\ link[c] = "up"
    /\ verifier # None
    /\ phase' = [phase EXCEPT ![c] = "challenge"]
    /\ UNCHANGED <<link, ident, active, peer, job, storeVars, confVars, envVars, histVars>>

\* AuthService.__admit up to its first await: count, stamp, save.
Admit(c, d, ids) ==
    /\ displays' = ids
    /\ count' = [count EXCEPT ![d] = @ + 1]
    /\ lastSeen' = [lastSeen EXCEPT ![d] = clock]
    /\ Save(ids, lastSeen', verifier)
    /\ ident' = [ident EXCEPT ![c] = d]
    /\ phase' = [phase EXCEPT ![c] = "result"]
    /\ UNCHANGED <<link, active, peer, job>>

\* The right proof: a new display with a new token, admitted at once.
PasswordLogin(c, d) ==
    /\ phase[c] = "challenge" /\ link[c] = "up"
    /\ d \in Display \ issued
    /\ issued' = issued \cup {d}
    /\ Admit(c, d, displays \cup {d})
    /\ UNCHANGED <<revoked, confVars, envVars>>

\* A remembered login whose token hash matches and that has not lapsed.
TokenLogin(c, d) ==
    /\ phase[c] = "hello" /\ link[c] = "up"
    /\ verifier # None
    /\ d \in displays
    /\ ~Expired(lifetime, d, count, lastSeen)
    /\ count[d] < MaxCount
    /\ Admit(c, d, displays)
    /\ UNCHANGED <<histVars, confVars, envVars>>

\* A matching token whose login has lapsed: every lapsed login is forgotten,
\* the list is broadcast and the display is refused.
LapsedLogin(c, d) ==
    /\ phase[c] = "hello" /\ link[c] = "up"
    /\ verifier # None
    /\ d \in displays
    /\ Expired(lifetime, d, count, lastSeen)
    /\ PruneAndSave(lifetime, displays, count, lastSeen, FALSE)
    /\ phase' = [phase EXCEPT ![c] = "refusing"]
    /\ UNCHANGED <<link, ident, active, peer, job, histVars, confVars, envVars>>

\* AUTH_RESULT is flushed; __admit goes on to broadcast the display list.
ResultSent(c) ==
    /\ phase[c] = "result" /\ link[c] = "up"
    /\ PruneAndSave(lifetime, displays, count, lastSeen, FALSE)
    /\ phase' = [phase EXCEPT ![c] = "announce"]
    /\ UNCHANGED <<link, ident, active, peer, job, histVars, confVars, envVars>>

\* authenticate() returned an identity: the connection enters both maps.
Register(c) ==
    /\ phase[c] = "announce"
    /\ active' = active \cup {c}
    /\ peer' = [peer EXCEPT ![c] = ident[c]]
    /\ phase' = [phase EXCEPT ![c] = "snapshot"]
    /\ UNCHANGED <<link, ident, job, storeVars, confVars, envVars, histVars>>

\* __login gave up: the refusal was delivered, the deadline passed, or the
\* connection broke under a read or a send of the exchange (not under the
\* broadcast, whose failures __safe_write swallows).  The writer is closed.
EndLogin(c) ==
    /\ phase' = [phase EXCEPT ![c] = "none"]
    /\ ident' = [ident EXCEPT ![c] = None]
    /\ link' = [link EXCEPT ![c] = "down"]
    /\ UNCHANGED <<active, peer, job, storeVars, confVars, envVars, histVars>>

RefusalSent(c) == phase[c] = "refusing" /\ EndLogin(c)
LoginTimeout(c) == phase[c] \in LoginPhases /\ EndLogin(c)
LoginLost(c) ==
    phase[c] \in LoginPhases \ {"announce"} /\ link[c] = "down" /\ EndLogin(c)

(***************************************************************************)
(* A registered connection                                                 *)
(***************************************************************************)

\* Mutant of SnapshotDone: a snapshot never ends on a dead link.
SnapshotStuck(c) ==
    /\ phase[c] = "snapshot" /\ link[c] = "up"
    /\ phase' = [phase EXCEPT ![c] = "reading"]
    /\ UNCHANGED <<link, ident, active, peer, job, storeVars, confVars, envVars, histVars>>

\* Every service has streamed its state, or failed to: __safe_write swallows
\* a dead link, and an error of one service does not stop the next.
SnapshotDone(c) ==
    /\ phase[c] = "snapshot"
    /\ phase' = [phase EXCEPT ![c] = "reading"]
    /\ UNCHANGED <<link, ident, active, peer, job, storeVars, confVars, envVars, histVars>>

\* A broadcast or a send_to fails on a dead peer: __safe_write drops the
\* client from the broadcast map and from nothing else.
DropClient(c) ==
    /\ c \in active /\ link[c] = "down"
    /\ active' = active \ {c}
    /\ UNCHANGED <<phase, link, ident, peer, job, storeVars, confVars, envVars, histVars>>

\* The read loop spawns a handler task: AUTH_REVOKE of target, or
\* AUTH_GET_DISPLAYS (target None).  A message the reader had buffered when
\* the link fell is still read.
Command(c, j, target) ==
    /\ phase[c] = "reading"
    /\ job[j] = NoJob
    /\ job' = [job EXCEPT ![j] = [owner |-> c, target |-> target, step |-> "queued"]]
    /\ UNCHANGED <<phase, link, ident, active, peer, storeVars, confVars, envVars, histVars>>

\* The read loop ends (MSG_TERMINATE, a protocol error or a lost link) and
\* __cleanup_client empties both maps.  It can only cancel the tasks it still
\* finds: a client __safe_write already dropped has no pending set any more.
ReadEnds(c) ==
    /\ phase[c] = "reading"
    /\ phase' = [phase EXCEPT ![c] = "closing"]
    /\ link' = [link EXCEPT ![c] = "down"]
    /\ active' = active \ {c}
    /\ peer' = [peer EXCEPT ![c] = None]
    /\ job' = IF c \in active
              THEN [j \in Job |-> IF job[j].owner = c THEN NoJob ELSE job[j]]
              ELSE job
    /\ UNCHANGED <<ident, storeVars, confVars, envVars, histVars>>

\* Mutant of CountedOut: the display's whole count goes with one connection.
AllCountedOut(d) == [count EXCEPT ![d] = 0]

\* The counts once a connection of d has closed.
CountedOut(d) == [count EXCEPT ![d] = IF @ > 1 THEN @ - 1 ELSE 0]

\* AuthService.disconnected: the count, the stamp, the list.
SignOff(c) ==
    LET d == ident[c]
        stamps == IF d \in displays THEN [lastSeen EXCEPT ![d] = clock] ELSE lastSeen
    IN
    /\ phase[c] = "closing"
    /\ phase' = [phase EXCEPT ![c] = "none"]
    /\ ident' = [ident EXCEPT ![c] = None]
    /\ IF d \in displays
       THEN PruneAndSave(lifetime, displays, CountedOut(d), stamps, TRUE)
       ELSE count' = CountedOut(d) /\ UNCHANGED <<displays, lastSeen, disk, saveErrors>>
    /\ UNCHANGED <<link, active, peer, job, confVars, envVars, histVars>>

(***************************************************************************)
(* Handler tasks                                                           *)
(***************************************************************************)

\* AUTH_GET_DISPLAYS, and AUTH_REVOKE of an id nobody remembers: the list.
ListDisplays(j) ==
    /\ job[j].step = "queued"
    /\ job[j].target \notin displays
    /\ PruneAndSave(lifetime, displays, count, lastSeen, FALSE)
    /\ job' = [job EXCEPT ![j] = NoJob]
    /\ UNCHANGED <<phase, link, ident, active, peer, confVars, envVars, histVars>>

\* The links once Server.disconnect closed every registered writer of d.
LinksWithout(d) == [c \in Conn |-> IF peer[c] = d THEN "down" ELSE link[c]]

\* handle_revoke up to its await: forget, save, start the broadcast.  With no
\* client in the broadcast map there is nothing to wait for.
Revoke(j) ==
    LET d == job[j].target IN
    /\ job[j].step = "queued"
    /\ d \in displays
    /\ PruneAndSave(lifetime, displays \ {d}, count, lastSeen, TRUE)
    /\ revoked' = revoked \cup {d}
    /\ IF active = {}
       THEN /\ link' = LinksWithout(d)
            /\ job' = [job EXCEPT ![j] = NoJob]
       ELSE /\ job' = [job EXCEPT ![j].step = "announcing"]
            /\ UNCHANGED link
    /\ UNCHANGED <<phase, ident, active, peer, confVars, envVars, issued>>

\* ... and after it: Server.disconnect closes the connections of that id.
Disconnect(j) ==
    /\ job[j].step = "announcing"
    /\ link' = LinksWithout(job[j].target)
    /\ job' = [job EXCEPT ![j] = NoJob]
    /\ UNCHANGED <<phase, ident, active, peer, storeVars, confVars, envVars, histVars>>

(***************************************************************************)
(* Configuration, environment, restart                                     *)
(***************************************************************************)

\* The "auth" hook: a new lifetime, and what it ends is forgotten.
ApplyConfig(days) ==
    /\ days # lifetime
    /\ lifetime' = days
    /\ PruneAndSave(days, displays, count, lastSeen, FALSE)
    /\ UNCHANGED <<netVars, verifier, envVars, histVars>>

PeerGone(c) ==
    /\ phase[c] \notin {"none", "closing"} /\ link[c] = "up"
    /\ link' = [link EXCEPT ![c] = "down"]
    /\ UNCHANGED <<phase, ident, active, peer, job, storeVars, confVars, envVars, histVars>>

DayPasses ==
    /\ clock < MaxClock
    /\ clock' = clock + 1
    /\ UNCHANGED <<netVars, storeVars, confVars, histVars, restarts>>

\* AuthService.__load against what the disk holds: the same password keeps
\* every display, another one (or none) forgets them all.
Load(password) ==
    LET keep == password # None /\ password = disk.password
        ids == IF keep THEN disk.ids ELSE {}
        stamps == KeepStamps(disk.seen, ids)
    IN
    /\ verifier' = password
    /\ displays' = ids
    /\ lastSeen' = stamps
    /\ IF keep \/ (password = None /\ disk.ids = {} /\ disk.password = None)
       THEN UNCHANGED <<disk, saveErrors>>
       ELSE Save(ids, stamps, password)

\* The process dies at any point and comes back with the .env it finds.
Restart(password) ==
    /\ restarts < MaxRestarts
    /\ restarts' = restarts + 1
    /\ Load(password)
    /\ phase' = [c \in Conn |-> "none"]
    /\ link' = [c \in Conn |-> "down"]
    /\ ident' = [c \in Conn |-> None]
    /\ active' = {}
    /\ peer' = [c \in Conn |-> None]
    /\ job' = [j \in Job |-> NoJob]
    /\ count' = [d \in Display |-> 0]
    /\ UNCHANGED <<clock, lifetime, histVars>>

(***************************************************************************)
(* The specification                                                       *)
(***************************************************************************)

Init ==
    /\ phase = [c \in Conn |-> "none"]
    /\ link = [c \in Conn |-> "down"]
    /\ ident = [c \in Conn |-> None]
    /\ active = {}
    /\ peer = [c \in Conn |-> None]
    /\ job = [j \in Job |-> NoJob]
    /\ displays = {}
    /\ lastSeen = [d \in Display |-> 0]
    /\ count = [d \in Display |-> 0]
    /\ lifetime \in Lifetimes
    /\ verifier \in Password \cup {None}
    /\ disk = [ids |-> {}, seen |-> lastSeen, password |-> verifier]
    /\ clock = 0
    /\ issued = {} /\ revoked = {}
    /\ saveErrors = 0 /\ restarts = 0

\* What a connection's own coroutine does, once it may run.
LoginStep(c) ==
    \/ Challenge(c) \/ Refuse(c) \/ RefusalSent(c) \/ LoginTimeout(c) \/ LoginLost(c)
    \/ ResultSent(c) \/ Register(c)
    \/ \E d \in Display : PasswordLogin(c, d) \/ TokenLogin(c, d) \/ LapsedLogin(c, d)
SessionStep(c) == SnapshotDone(c) \/ DropClient(c) \/ ReadEnds(c) \/ SignOff(c)
JobStep(j) == ListDisplays(j) \/ Revoke(j) \/ Disconnect(j)

Next ==
    \/ \E c \in Conn : Connect(c) \/ LoginStep(c) \/ SessionStep(c) \/ PeerGone(c)
    \/ \E c \in Conn, j \in Job, target \in Display \cup {None} : Command(c, j, target)
    \/ \E j \in Job : JobStep(j)
    \/ \E days \in Lifetimes : ApplyConfig(days)
    \/ DayPasses
    \/ \E password \in Password \cup {None} : Restart(password)

Spec == Init /\ [][Next]_vars

\* The loop keeps running every coroutine that can run.  A peer owes nothing:
\* it need not send, nor a read loop end while its link is up; the deadline
\* ends every login, and a dead link ends every read.
ServerFairness ==
    /\ \A c \in Conn :
        /\ WF_vars(LoginTimeout(c))
        /\ WF_vars(SnapshotDone(c))
        /\ WF_vars(link[c] = "down" /\ ReadEnds(c))
        /\ WF_vars(SignOff(c))
    /\ \A j \in Job : WF_vars(JobStep(j))

FairSpec == Spec /\ ServerFairness

(***************************************************************************)
(* What the gate promises                                                  *)
(***************************************************************************)

\* Only an authenticated, live coroutine is in the server's maps, under the
\* identity it was admitted as: nothing is broadcast to a connection whose
\* login has not passed or that has been cleaned up (server.py: "before the
\* connection is in any map: nothing is broadcast to it and no handler can be
\* reached until it has passed").
OnlyAdmittedAreServed ==
    /\ \A c \in active : phase[c] \in OpenPhases
    /\ \A c \in Conn :
        peer[c] = IF phase[c] \in OpenPhases THEN ident[c] ELSE None

\* Every open connection of a display is counted, however logins, timeouts,
\* revocations and sign-offs of several connections of it interleave: the
\* count is what keeps a connected display's login from lapsing.
OpenConnectionsCounted ==
    \A d \in Display : Cardinality(Holders(d)) <= count[d]

\* A login never lapses under an open connection.  A display that leaves the
\* store in a step had no connection after it, was being revoked, or the
\* backend restarted.
NoLapseWhileOpen ==
    [][ restarts' = restarts =>
          \A d \in displays \ displays' : Holders(d)' = {} \/ d \in revoked' ]_vars

\* A revoked display is never remembered again, not even by a restart that
\* reloads the store, unless a write of the store failed.
RevokedStaysOut == saveErrors = 0 => revoked \cap displays = {}

\* A restart under the same password forgets nothing and invents nothing,
\* whatever was in flight when the process died, unless a write failed.
RestartKeepsLogins ==
    [][ restarts' # restarts /\ verifier' = verifier /\ saveErrors' = 0 =>
          displays' = displays /\ lastSeen' = lastSeen ]_vars

\* What the gate holds on to, whatever logins, sign-offs and revocations are in
\* flight at once: who is served, who is counted and who stays out.
GateIsKept == OnlyAdmittedAreServed /\ OpenConnectionsCounted /\ RevokedStaysOut

\* A paired display is not asked for its password again for no reason: not
\* because a login lapsed under its connection, nor because of a restart.
LoginsLast == NoLapseWhileOpen /\ RestartKeepsLogins

\* A connection whose link has gone down is always seen out in the end: its
\* login is abandoned, or its session is read to the end, cleaned up and
\* signed off, wherever its coroutine was.
DeadLinksAreSeenOut == \A c \in Conn : link[c] = "down" ~> phase[c] = "none"

\* No connection stays at the gate: it is served or gone within the deadline,
\* even if its peer says nothing and other connections come and go.
NobodyWaitsAtTheGate ==
    \A c \in Conn : phase[c] \in LoginPhases ~> phase[c] \notin LoginPhases

\* No coroutine of a connection is stuck: the gate lets go of everybody, and a
\* dead link's entries are cleaned up and counted out.
ConnectionsMoveOn == DeadLinksAreSeenOut /\ NobodyWaitsAtTheGate

\* The gate implements the sessions of LoginSessions: a session lasts from the
\* moment __admit counts a connection until disconnected() counts it out (or
\* the login gives up).
Sessions == INSTANCE LoginSessions WITH
    session <- [c \in Conn |-> IF phase[c] \in HeldPhases THEN ident[c] ELSE None],
    remembered <- displays,
    kept <- disk.ids

ImplementsSessions == Sessions!SessionsSpec

(***************************************************************************)
(* What the source says of itself and the code does not do                 *)
(***************************************************************************)

\* handle_revoke: "forgets a display's login and closes its connections".  A
\* revoked display has an open connection only while a revocation is in flight.
RevokedAreClosed ==
    \A c \in Conn :
        phase[c] \in OpenPhases /\ ident[c] \in revoked /\ link[c] = "up" =>
            \E j \in Job : job[j].step = "announcing" /\ job[j].target = ident[c]

\* "id -> how many of its connections are open right now".
CountIsExact == \A d \in Display : count[d] = Cardinality(Holders(d))
=============================================================================
